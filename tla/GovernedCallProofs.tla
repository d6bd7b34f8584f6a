------------------------- MODULE GovernedCallProofs -------------------------
(***************************************************************************)
(* Theorems about GovernedCall, for any processes and calls, any rotation  *)
(* size and any number of archives kept.                                   *)
(***************************************************************************)
EXTENDS GovernedCall, TLAPS

LEMMA NewestType ==
  ASSUME NEW files \in Seq(Seq(Row))
  PROVE  Newest(files) \in Seq(Seq(Row))
<1>1. CASE Len(files) <= MaxArchives
  BY <1>1 DEF Newest
<1>2. CASE ~(Len(files) <= MaxArchives)
  <2>1. \A i \in 1 .. MaxArchives : files[i + (Len(files) - MaxArchives)] \in Seq(Row)
    BY <1>2, MaxArchivesIsPositive
  <2>2. Newest(files) = [i \in 1 .. MaxArchives |-> files[i + (Len(files) - MaxArchives)]]
    BY <1>2 DEF Newest
  <2>. QED BY <2>1, <2>2, MaxArchivesIsPositive
<1>. QED BY <1>1, <1>2

LEMMA FinalStatusIsFinal ==
  ASSUME TypeOK, NEW c \in Calls
  PROVE  FinalStatus(c) \in Final
BY DEF TypeOK, FinalStatus, Final, Results

LEMMA TypeStep == TypeOK /\ [Next]_vars => TypeOK'
<1> SUFFICES ASSUME TypeOK, [Next]_vars PROVE TypeOK'
  OBVIOUS
<1> USE DEF TypeOK, AuditTypeOK
<1>1. ASSUME NEW p \in Procs, Boot(p) PROVE TypeOK'
  BY <1>1 DEF Boot, OpenEngine, callVars
<1>2. ASSUME NEW p \in Procs, Crash(p) PROVE TypeOK'
  BY <1>2 DEF Crash, auditVars, Ended
<1> USE DEF Goto
<1>3. ASSUME NEW c \in Calls, Start(c) PROVE TypeOK'
  BY <1>3, KindsAreKnown DEF Start, auditVars, worldVars, Active
<1>4. ASSUME NEW c \in Calls, PreCheck(c) PROVE TypeOK'
  BY <1>4 DEF PreCheck, auditVars, worldVars, Active, Answers
<1>5. ASSUME NEW c \in Calls, BeginRefused(c) PROVE TypeOK'
  BY <1>5 DEF BeginRefused, Refuse, Latch, worldVars, Active, Answers
<1>6. ASSUME NEW c \in Calls, BeginWrite(c) PROVE TypeOK'
  BY <1>6 DEF BeginWrite, EnterGuard, auditVars, worldVars, Active, Guarded
<1>7. ASSUME NEW c \in Calls, RotateRename(c) PROVE TypeOK'
  <2>1. Append(archives, db) \in Seq(Seq(Row)) /\ <<>> \in Seq(Row)
    OBVIOUS
  <2>. QED BY <1>7, <2>1 DEF RotateRename, RenameToArchive, worldVars, Active, Guarded
<1>8. ASSUME NEW c \in Calls, RotateCreate(c) PROVE TypeOK'
  BY <1>8, NewestType DEF RotateCreate, CreateFresh, worldVars, Active, Guarded
<1>9. ASSUME NEW c \in Calls, RotateFails(c) PROVE TypeOK'
  BY <1>9 DEF RotateFails, auditVars, worldVars, Active, Guarded
<1>10. ASSUME NEW c \in Calls, InsertIntent(c) PROVE TypeOK'
  <2>1. [call |-> c, status |-> "pending"] \in Row
    BY DEF Row
  <2>. QED BY <1>10, <2>1 DEF InsertIntent, Insert, worldVars, Active
<1>11. ASSUME NEW c \in Calls, IntentFails(c) PROVE TypeOK'
  BY <1>11 DEF IntentFails, Refuse, Latch, worldVars, Active, Answers
<1>12. ASSUME NEW c \in Calls, RunReadOnly(c) \/ ReturnUnsent(c) PROVE TypeOK'
  <2>1. PICK r \in {"ok", "error", "unknown"} : Return(c, r) /\ UNCHANGED <<inflight, effect>>
    BY <1>12 DEF RunReadOnly, ReturnUnsent
  <2>. QED BY <2>1 DEF Return, auditVars, Active, Results
<1>13. ASSUME NEW c \in Calls, Send(c) PROVE TypeOK'
  BY <1>13 DEF Send, auditVars, Active
<1>14. ASSUME NEW c \in Calls, Apply(c) PROVE TypeOK'
  BY <1>14 DEF Apply, auditVars, callVars
<1>15. ASSUME NEW c \in Calls, Confirmed(c) \/ Rejected(c) \/ ResponseLost(c) PROVE TypeOK'
  <2>1. PICK r \in {"ok", "error", "unknown"} :
            Return(c, r) /\ inflight' \subseteq inflight /\ UNCHANGED effect
    BY <1>15 DEF Confirmed, Rejected, ResponseLost
  <2>. QED BY <2>1 DEF Return, auditVars, Active, Results
<1>16. ASSUME NEW c \in Calls, Interrupt(c) PROVE TypeOK'
  BY <1>16 DEF Interrupt, auditVars, worldVars, Active, Answers
<1>17. ASSUME NEW c \in Calls, Annotate(c) PROVE TypeOK'
  BY <1>17 DEF Annotate, auditVars, Active, Answers, Results
<1>18. ASSUME NEW c \in Calls, FinishWrite(c) PROVE TypeOK'
  <2>1. \A row \in Row : [row EXCEPT !.status = FinalStatus(c)] \in Row
    BY FinalStatusIsFinal DEF Row
  <2>. QED BY <1>18, <2>1 DEF FinishWrite, Resolve, Pending, worldVars, Ended
<1>19. ASSUME NEW c \in Calls, FinishFails(c) PROVE TypeOK'
  BY <1>19 DEF FinishFails, Latch, worldVars, Ended, Answers
<1>20. ASSUME NEW c \in Calls, LogWithoutEngine(c) \/ FinalFails(c) PROVE TypeOK'
  BY <1>20 DEF LogWithoutEngine, FinalFails, auditVars, worldVars, Ended
<1>21. ASSUME NEW c \in Calls, LogFinal(c) PROVE TypeOK'
  BY <1>21 DEF LogFinal, EnterGuard, auditVars, worldVars, Active, Guarded
<1>22. ASSUME NEW c \in Calls, InsertFinal(c) PROVE TypeOK'
  <2>1. [call |-> c, status |-> FinalStatus(c)] \in Row
    BY FinalStatusIsFinal DEF Row
  <2>. QED BY <1>22, <2>1 DEF InsertFinal, Insert, worldVars, Ended
<1>23. ASSUME NEW id \in DOMAIN db, Reconcile(id) PROVE TypeOK'
  <2>1. \A row \in Row : [row EXCEPT !.status = "unknown"] \in Row
    BY DEF Row, Final
  <2>. QED BY <1>23, <2>1 DEF Reconcile, Resolve, Pending, callVars, worldVars
<1>24. CASE UNCHANGED vars
  BY <1>24 DEF vars, auditVars, callVars, worldVars
<1>. QED
  BY <1>1, <1>2, <1>3, <1>4, <1>5, <1>6, <1>7, <1>8, <1>9, <1>10, <1>11, <1>12, <1>13,
     <1>14, <1>15, <1>16, <1>17, <1>18, <1>19, <1>20, <1>21, <1>22, <1>23, <1>24
  DEF Next, CallStep

LEMMA TypeInit == Init => TypeOK
<1>1. AuditInit => AuditTypeOK
  <2>1. <<>> \in Seq(Row) /\ <<>> \in Seq(Seq(Row))
    OBVIOUS
  <2>. QED BY <2>1 DEF AuditInit, AuditTypeOK
<1>. QED BY <1>1 DEF Init, TypeOK, Results, Answers

\* The variables keep their types.
THEOREM TypeCorrect == Spec => []TypeOK
BY TypeInit, TypeStep, PTL DEF Spec

-----------------------------------------------------------------------------
(***************************************************************************)
(* Where a call has its intent depends on no lock.                         *)
(***************************************************************************)
LEMMA IntentComesFirstStep ==
  ASSUME TypeOK, IntentComesFirst, [Next]_vars
  PROVE  IntentComesFirst'
<1> USE DEF TypeOK, AuditTypeOK, IntentComesFirst, Goto, Guarded, Active, Ended
<1>1. ASSUME NEW p \in Procs, Boot(p) \/ Crash(p) PROVE IntentComesFirst'
  BY <1>1 DEF Boot, Crash, callVars
<1>2. ASSUME NEW c \in Calls, Start(c) PROVE IntentComesFirst'
  BY <1>2 DEF Start, worldVars
<1>3. ASSUME NEW c \in Calls, PreCheck(c) PROVE IntentComesFirst'
  <2>1. pc[c] = "check" /\ UNCHANGED <<kind, intent, inflight, effect, sent>>
    BY <1>3 DEF PreCheck, worldVars
  <2>2. \/ kind[c] = "write" /\ Goto(c, "begin")
        \/ kind[c] # "write" /\ Goto(c, "run")
        \/ Goto(c, "finalize")
    BY <1>3 DEF PreCheck
  <2>. QED BY <2>1, <2>2
<1>4. ASSUME NEW c \in Calls, BeginRefused(c) \/ IntentFails(c) PROVE IntentComesFirst'
  <2>1. /\ pc[c] \in {"begin", "insert"} /\ Goto(c, "finalize")
        /\ UNCHANGED <<kind, intent, inflight, effect, sent>>
    BY <1>4 DEF BeginRefused, IntentFails, Refuse, worldVars
  <2>. QED BY <2>1
<1>5. ASSUME NEW c \in Calls, BeginWrite(c) \/ LogFinal(c) PROVE IntentComesFirst'
  BY <1>5 DEF BeginWrite, LogFinal, EnterGuard, worldVars
<1>6. ASSUME NEW c \in Calls, RotateRename(c) \/ RotateCreate(c) \/ RotateFails(c)
      PROVE  IntentComesFirst'
  BY <1>6 DEF RotateRename, RotateCreate, RotateFails, worldVars
<1>7. ASSUME NEW c \in Calls, InsertIntent(c) PROVE IntentComesFirst'
  <2>1. Len(db') = Len(db) + 1
    BY <1>7 DEF InsertIntent, Insert
  <2>. QED BY <1>7, <2>1 DEF InsertIntent, worldVars
<1>8. ASSUME NEW c \in Calls, RunReadOnly(c) PROVE IntentComesFirst'
  BY <1>8 DEF RunReadOnly, Return
<1>9. ASSUME NEW c \in Calls, ReturnUnsent(c) PROVE IntentComesFirst'
  BY <1>9 DEF ReturnUnsent, Return
<1>10. ASSUME NEW c \in Calls, Send(c) PROVE IntentComesFirst'
  BY <1>10 DEF Send
<1>11. ASSUME NEW c \in Calls, Apply(c) PROVE IntentComesFirst'
  BY <1>11 DEF Apply, callVars
<1>12. ASSUME NEW c \in Calls, Confirmed(c) \/ Rejected(c) \/ ResponseLost(c)
       PROVE  IntentComesFirst'
  <2>1. pc[c] = "sent" /\ Goto(c, "annotate") /\ UNCHANGED <<kind, intent, effect, sent>>
    BY <1>12 DEF Confirmed, Rejected, ResponseLost, Return
  <2>2. inflight' \subseteq inflight
    BY <1>12 DEF Confirmed, Rejected, ResponseLost
  <2>. QED BY <2>1, <2>2
<1>13. ASSUME NEW c \in Calls, Interrupt(c) \/ Annotate(c) PROVE IntentComesFirst'
  BY <1>13 DEF Interrupt, Annotate, worldVars
<1>14. ASSUME NEW c \in Calls,
              FinishWrite(c) \/ FinishFails(c) \/ LogWithoutEngine(c) \/ InsertFinal(c) \/ FinalFails(c)
       PROVE  IntentComesFirst'
  <2>1. Goto(c, "done") /\ UNCHANGED <<kind, intent, inflight, effect, sent>>
    BY <1>14 DEF FinishWrite, FinishFails, LogWithoutEngine, InsertFinal, FinalFails, worldVars
  <2>. QED BY <2>1
<1>15. ASSUME NEW id \in DOMAIN db, Reconcile(id) PROVE IntentComesFirst'
  BY <1>15 DEF Reconcile, callVars, worldVars
<1>16. CASE UNCHANGED vars
  BY <1>16 DEF vars, callVars, worldVars
<1>. QED
  BY <1>1, <1>2, <1>3, <1>4, <1>5, <1>6, <1>7, <1>8, <1>9, <1>10, <1>11, <1>12, <1>13,
     <1>14, <1>15, <1>16
  DEF Next, CallStep

\* No request of a write leaves before its intent is committed, whether or not
\* the rotation lock spans the processes.
THEOREM IntentBeforeEffect == Spec => []NoEffectWithoutIntent
<1>1. Init => IntentComesFirst
  BY DEF Init, IntentComesFirst, Guarded, Ended
<1>2. TypeOK /\ IntentComesFirst /\ [Next]_vars => IntentComesFirst'
  BY IntentComesFirstStep
<1>3. TypeOK /\ IntentComesFirst => NoEffectWithoutIntent
  BY DEF TypeOK, IntentComesFirst, NoEffectWithoutIntent
<1>. QED BY <1>1, <1>2, <1>3, TypeCorrect, PTL DEF Spec

-----------------------------------------------------------------------------
(***************************************************************************)
(* The inductive invariant.  Its heart is the rotation: the lock keeps     *)
(* every insertion out between the look for pending rows and the rename,   *)
(* so the file that is renamed holds no call's intent, and the ids of the  *)
(* intents of running calls keep pointing at their own rows.               *)
(***************************************************************************)
LEMMA InductiveStep ==
  ASSUME HostLock, Inductive, [Next]_vars
  PROVE  Inductive'
<1> USE DEF Inductive
<1> TypeOK'
  BY TypeStep
<1> USE DEF TypeOK, AuditTypeOK, LockIsExclusive, RenameIsSafe, IntentComesFirst,
            PendingIsOwned, IntentIsOwnRow, NoPendingArchived,
            Pending, Goto, Guarded, Active, Ended
<1>1. ASSUME NEW p \in Procs, Boot(p) PROVE Inductive'
  BY <1>1 DEF Boot, OpenEngine, callVars, Excludes
<1>2. ASSUME NEW p \in Procs, Crash(p) PROVE Inductive'
  BY <1>2 DEF Crash, auditVars, Excludes
<1>3. ASSUME NEW c \in Calls, Start(c) PROVE Inductive'
  BY <1>3 DEF Start, auditVars, worldVars, Excludes
<1>4. ASSUME NEW c \in Calls, PreCheck(c) PROVE Inductive'
  <2>1. /\ pc[c] = "check"
        /\ UNCHANGED <<db, archives, proc, kind, intent, inflight, effect, sent>>
    BY <1>4 DEF PreCheck, auditVars, worldVars
  <2>2. \/ kind[c] = "write" /\ Goto(c, "begin")
        \/ kind[c] # "write" /\ Goto(c, "run")
        \/ Goto(c, "finalize")
    BY <1>4 DEF PreCheck
  <2>3. LockIsExclusive'
    BY <2>1, <2>2 DEF Excludes
  <2>4. RenameIsSafe'
    BY <2>1, <2>2
  <2>5. IntentComesFirst'
    BY <2>1, <2>2
  <2>6. IntentIsOwnRow'
    BY <2>1, <2>2
  <2>7. PendingIsOwned' /\ NoPendingArchived'
    BY <2>1
  <2>. QED BY <2>3, <2>4, <2>5, <2>6, <2>7
<1>5. ASSUME NEW c \in Calls, BeginRefused(c) PROVE Inductive'
  BY <1>5 DEF BeginRefused, Refuse, Latch, worldVars, Excludes
<1>6. ASSUME NEW c \in Calls, BeginWrite(c) PROVE Inductive'
  BY <1>6 DEF BeginWrite, EnterGuard, GuardFree, Excludes, RotationDue, auditVars, worldVars
<1>7. ASSUME NEW c \in Calls, RotateRename(c) PROVE Inductive'
  <2>1. \A d \in Calls : pc[d] \in Active => intent[d] = 0
    <3>1. ~ \E id \in DOMAIN db : Pending(id)
      BY <1>7 DEF RotateRename
    <3>2. ASSUME NEW d \in Calls, pc[d] \in Active, intent[d] # 0 PROVE Pending(intent[d])
      <4>1. intent[d] \in DOMAIN db /\ db[intent[d]] = [call |-> d, status |-> "pending"]
        BY <3>2
      <4>. QED BY <4>1
    <3>. QED BY <3>1, <3>2
  <2>2. db' = <<>> /\ archives' = Append(archives, db)
    BY <1>7 DEF RotateRename, RenameToArchive
  <2>3. \A j \in DOMAIN db : db[j].status # "pending"
    BY <1>7 DEF RotateRename
  <2>4. NoPendingArchived'
    BY <2>2, <2>3
  <2>5. RenameIsSafe' /\ PendingIsOwned'
    BY <2>2
  <2>6. LockIsExclusive' /\ IntentComesFirst' /\ IntentIsOwnRow'
    BY <1>7, <2>1 DEF RotateRename, worldVars, Excludes
  <2>. QED BY <2>4, <2>5, <2>6
<1>8. ASSUME NEW c \in Calls, RotateCreate(c) PROVE Inductive'
  <2>1. NoPendingArchived'
    <3>1. archives' = Newest(archives)
      BY <1>8 DEF RotateCreate, CreateFresh
    <3>2. \A i \in DOMAIN Newest(archives) : \E j \in DOMAIN archives : Newest(archives)[i] = archives[j]
      <4>1. CASE Len(archives) <= MaxArchives
        BY <4>1 DEF Newest
      <4>2. CASE ~(Len(archives) <= MaxArchives)
        <5>1. Newest(archives) = [i \in 1 .. MaxArchives |-> archives[i + (Len(archives) - MaxArchives)]]
          BY <4>2 DEF Newest
        <5>2. \A i \in 1 .. MaxArchives : i + (Len(archives) - MaxArchives) \in DOMAIN archives
          BY <4>2, MaxArchivesIsPositive
        <5>. QED BY <5>1, <5>2
      <4>. QED BY <4>1, <4>2
    <3>. QED BY <3>1, <3>2
  <2>2. LockIsExclusive' /\ RenameIsSafe' /\ IntentComesFirst'
    BY <1>8 DEF RotateCreate, CreateFresh, worldVars, Excludes
  <2>3. PendingIsOwned' /\ IntentIsOwnRow'
    BY <1>8 DEF RotateCreate, CreateFresh
  <2>. QED BY <2>1, <2>2, <2>3
<1>9. ASSUME NEW c \in Calls, RotateFails(c) PROVE Inductive'
  BY <1>9 DEF RotateFails, auditVars, worldVars, Excludes
<1>10. ASSUME NEW c \in Calls, InsertIntent(c) PROVE Inductive'
  BY <1>10 DEF InsertIntent, Insert, Excludes, worldVars
<1>11. ASSUME NEW c \in Calls, IntentFails(c) PROVE Inductive'
  BY <1>11 DEF IntentFails, Refuse, Latch, worldVars, Excludes
<1>12. ASSUME NEW c \in Calls, RunReadOnly(c) PROVE Inductive'
  BY <1>12 DEF RunReadOnly, Return, auditVars, Excludes
<1>13. ASSUME NEW c \in Calls, ReturnUnsent(c) PROVE Inductive'
  BY <1>13 DEF ReturnUnsent, Return, auditVars, Excludes
<1>14. ASSUME NEW c \in Calls, Send(c) PROVE Inductive'
  BY <1>14 DEF Send, auditVars, Excludes
<1>15. ASSUME NEW c \in Calls, Apply(c) PROVE Inductive'
  BY <1>15 DEF Apply, auditVars, callVars, Excludes
<1>16. ASSUME NEW c \in Calls, Confirmed(c) PROVE Inductive'
  BY <1>16 DEF Confirmed, Return, auditVars, Excludes
<1>17. ASSUME NEW c \in Calls, Rejected(c) PROVE Inductive'
  <2>1. LockIsExclusive' /\ RenameIsSafe'
    BY <1>17 DEF Rejected, Return, auditVars, Excludes
  <2>2. IntentComesFirst'
    BY <1>17 DEF Rejected, Return
  <2>3. PendingIsOwned' /\ IntentIsOwnRow' /\ NoPendingArchived'
    BY <1>17 DEF Rejected, Return, auditVars
  <2>. QED BY <2>1, <2>2, <2>3
<1>18. ASSUME NEW c \in Calls, ResponseLost(c) PROVE Inductive'
  BY <1>18 DEF ResponseLost, Return, auditVars, Excludes
<1>19. ASSUME NEW c \in Calls, Interrupt(c) PROVE Inductive'
  BY <1>19 DEF Interrupt, auditVars, worldVars, Excludes
<1>20. ASSUME NEW c \in Calls, Annotate(c) PROVE Inductive'
  BY <1>20 DEF Annotate, auditVars, Excludes
<1>21. ASSUME NEW c \in Calls, FinishWrite(c) PROVE Inductive'
  <2> DEFINE id == intent[c]
  <2>1. id \in DOMAIN db /\ db[id] = [call |-> c, status |-> "pending"]
    BY <1>21 DEF FinishWrite
  <2>2. db' = [db EXCEPT ![id].status = FinalStatus(c)] /\ FinalStatus(c) # "pending"
    BY <1>21, FinalStatusIsFinal DEF FinishWrite, Resolve, Final
  <2>3. LockIsExclusive' /\ IntentComesFirst'
    BY <1>21 DEF FinishWrite, worldVars, Excludes
  <2>4. DOMAIN db' = DOMAIN db
    BY <2>2
  <2>5. \A j \in DOMAIN db : j # id => db'[j] = db[j]
    BY <2>2
  <2>6. db'[id].status # "pending"
    BY <2>1, <2>2
  <2>7. RenameIsSafe' /\ PendingIsOwned'
    <3>1. \A j \in DOMAIN db' : Pending(j)' => j # id /\ Pending(j)
      BY <2>4, <2>5, <2>6
    <3>2. UNCHANGED intent /\ \A d \in Calls : pc'[d] = "rename" => pc[d] = "rename"
      BY <1>21 DEF FinishWrite
    <3>. QED BY <2>4, <2>5, <3>1, <3>2
  <2>8. IntentIsOwnRow'
    <3>1. \A d \in Calls : pc'[d] \in Active => d # c /\ pc[d] = pc'[d] /\ intent'[d] = intent[d]
      BY <1>21 DEF FinishWrite
    <3>. QED BY <2>1, <2>4, <2>5, <3>1
  <2>9. NoPendingArchived'
    BY <1>21 DEF FinishWrite, Resolve
  <2>. QED BY <2>3, <2>7, <2>8, <2>9
<1>22. ASSUME NEW c \in Calls, FinishFails(c) PROVE Inductive'
  BY <1>22 DEF FinishFails, Latch, worldVars, Excludes
<1>23. ASSUME NEW c \in Calls, LogWithoutEngine(c) PROVE Inductive'
  BY <1>23 DEF LogWithoutEngine, auditVars, worldVars, Excludes
<1>24. ASSUME NEW c \in Calls, FinalFails(c) PROVE Inductive'
  BY <1>24 DEF FinalFails, auditVars, worldVars, Excludes
<1>25. ASSUME NEW c \in Calls, LogFinal(c) PROVE Inductive'
  BY <1>25 DEF LogFinal, EnterGuard, GuardFree, Excludes, RotationDue, auditVars, worldVars
<1>26. ASSUME NEW c \in Calls, InsertFinal(c) PROVE Inductive'
  <2>1. FinalStatus(c) # "pending"
    BY FinalStatusIsFinal DEF Final
  <2>2. db' = Append(db, [call |-> c, status |-> FinalStatus(c)])
    BY <1>26 DEF InsertFinal, Insert
  <2>3. \A j \in DOMAIN db : j \in DOMAIN db' /\ db'[j] = db[j]
    BY <2>2
  <2>4. \A j \in DOMAIN db' \ DOMAIN db : db'[j].status # "pending"
    BY <2>1, <2>2
  <2>5. LockIsExclusive' /\ IntentComesFirst' /\ NoPendingArchived'
    BY <1>26 DEF InsertFinal, Insert, worldVars, Excludes
  <2>6. RenameIsSafe' /\ PendingIsOwned'
    BY <1>26, <2>3, <2>4 DEF InsertFinal
  <2>7. IntentIsOwnRow'
    BY <1>26, <2>3 DEF InsertFinal
  <2>. QED BY <2>5, <2>6, <2>7
<1>27. ASSUME NEW id \in DOMAIN db, Reconcile(id) PROVE Inductive'
  BY <1>27 DEF Reconcile, Resolve, callVars, worldVars, Excludes
<1>28. CASE UNCHANGED vars
  BY <1>28 DEF vars, auditVars, callVars, worldVars, Excludes
<1>. QED
  BY <1>1, <1>2, <1>3, <1>4, <1>5, <1>6, <1>7, <1>8, <1>9, <1>10, <1>11, <1>12, <1>13, <1>14,
     <1>15, <1>16, <1>17, <1>18, <1>19, <1>20, <1>21, <1>22, <1>23, <1>24, <1>25, <1>26, <1>27, <1>28
  DEF Next, CallStep

\* Under the POSIX lock, an intent is committed before its request leaves, stays
\* where its call can resolve it, and is never archived unresolved.
THEOREM Safety == HostLock => (Spec => []Inductive)
<1> SUFFICES ASSUME HostLock PROVE Spec => []Inductive
  OBVIOUS
<1>1. Init => Inductive
  <2>1. Init => TypeOK
    BY TypeInit
  <2>. QED
    BY <2>1 DEF Inductive, Init, AuditInit, LockIsExclusive, RenameIsSafe, IntentComesFirst,
         PendingIsOwned, IntentIsOwnRow, NoPendingArchived, Pending, Guarded, Active, Ended
<1>2. Inductive /\ [Next]_vars => Inductive'
  BY InductiveStep
<1>. QED BY <1>1, <1>2, PTL DEF Spec

\* While a call runs, its intent id names its own pending row.
THEOREM IntentsStay == HostLock => (Spec => []IntentIsOwnRow)
BY Safety, PTL DEF Inductive

\* No rotation takes a pending row away.
THEOREM PendingStaysInReach == HostLock => (Spec => []NoPendingArchived)
BY Safety, PTL DEF Inductive

\* A resolved row never changes again, except to move into an archive.
THEOREM History == Spec => ResolvedIsFinal
<1> DEFINE Kept == \A id \in DOMAIN db : ~Pending(id) =>
                     \/ id \in DOMAIN db' /\ db'[id] = db[id]
                     \/ archives' # archives /\ archives'[Len(archives')] = db
<1>1. ASSUME TypeOK, [Next]_vars PROVE Kept
  <2>1. db \in Seq(Row) /\ archives \in Seq(Seq(Row))
    BY <1>1 DEF TypeOK, AuditTypeOK
  <2>2. CASE UNCHANGED db
    BY <2>2
  <2>3. ASSUME NEW c \in Calls, NEW s, Insert(c, s) PROVE Kept
    BY <2>1, <2>3 DEF Insert
  <2>4. ASSUME NEW id \in DOMAIN db, NEW s, Resolve(id, s) PROVE Kept
    BY <2>1, <2>4 DEF Resolve
  <2>5. ASSUME RenameToArchive PROVE Kept
    <3>1. archives' = Append(archives, db) /\ Len(archives') = Len(archives) + 1
      BY <2>1, <2>5 DEF RenameToArchive
    <3>. QED BY <2>1, <3>1
  <2>6. \/ UNCHANGED db
        \/ \E c \in Calls : InsertIntent(c) \/ InsertFinal(c) \/ FinishWrite(c) \/ RotateRename(c)
        \/ \E id \in DOMAIN db : Reconcile(id)
    BY <1>1 DEF Next, CallStep, Boot, Crash, Start, PreCheck, BeginRefused, BeginWrite, RotateCreate,
         RotateFails, IntentFails, RunReadOnly, ReturnUnsent, Send, Apply, Confirmed, Rejected,
         ResponseLost, Interrupt, Annotate, FinishFails, LogWithoutEngine, LogFinal, FinalFails,
         OpenEngine, EnterGuard, CreateFresh, Return, vars, auditVars, callVars
  <2>7. ASSUME NEW c \in Calls, InsertIntent(c) \/ InsertFinal(c) PROVE Kept
    BY <2>3, <2>7 DEF InsertIntent, InsertFinal
  <2>8. ASSUME NEW c \in Calls, FinishWrite(c) PROVE Kept
    BY <2>4, <2>8 DEF FinishWrite, Resolve, Pending
  <2>9. ASSUME NEW c \in Calls, RotateRename(c) PROVE Kept
    BY <2>5, <2>9 DEF RotateRename
  <2>10. ASSUME NEW id \in DOMAIN db, Reconcile(id) PROVE Kept
    BY <2>4, <2>10 DEF Reconcile
  <2>. QED BY <2>2, <2>6, <2>7, <2>8, <2>9, <2>10
<1>2. TypeOK /\ [Next]_vars => [Kept]_vars
  BY <1>1
<1>. QED BY <1>2, TypeCorrect, PTL DEF Spec, ResolvedIsFinal

-----------------------------------------------------------------------------
(***************************************************************************)
(* The refinement: every step of the governed calls is a step of WriteAhead *)
(* or leaves its variables alone.                                          *)
(***************************************************************************)
LEMMA SameEntry ==
  ASSUME UNCHANGED <<db, intent>>
  PROVE  Entry' = Entry
BY DEF Entry, Pending

LEMMA WriteAheadStep ==
  ASSUME HostLock, Inductive, [Next]_vars
  PROVE  [Ledger!Next]_(Ledger!ledger)
<1> DEFINE Quiet == UNCHANGED <<Entry, sent, effect>>
<1> USE DEF Ledger!ledger
<1>0. Quiet => [Ledger!Next]_(Ledger!ledger)
  OBVIOUS
<1>1. ASSUME UNCHANGED <<db, intent, sent, effect>> PROVE Quiet
  BY <1>1, SameEntry
<1>2. ASSUME NEW p \in Procs, Boot(p) \/ Crash(p) PROVE UNCHANGED <<db, intent, sent, effect>>
  BY <1>2 DEF Boot, Crash, OpenEngine, auditVars, callVars
<1>3. ASSUME NEW c \in Calls,
             \/ Start(c) \/ PreCheck(c) \/ BeginRefused(c) \/ BeginWrite(c) \/ RotateCreate(c)
             \/ RotateFails(c) \/ IntentFails(c) \/ RunReadOnly(c) \/ ReturnUnsent(c)
             \/ Confirmed(c) \/ Rejected(c) \/ ResponseLost(c) \/ Interrupt(c) \/ Annotate(c)
             \/ FinishFails(c) \/ LogWithoutEngine(c) \/ LogFinal(c) \/ FinalFails(c)
      PROVE  UNCHANGED <<db, intent, sent, effect>>
  BY <1>3 DEF Start, PreCheck, BeginRefused, BeginWrite, RotateCreate, RotateFails, IntentFails,
       RunReadOnly, ReturnUnsent, Confirmed, Rejected, ResponseLost, Interrupt, Annotate,
       FinishFails, LogWithoutEngine, LogFinal, FinalFails, Refuse, Latch, EnterGuard,
       CreateFresh, Return, auditVars, worldVars
<1>4. ASSUME NEW c \in Calls, RotateRename(c) PROVE Quiet
  <2>1. \A j \in DOMAIN db : ~Pending(j)
    BY <1>4 DEF RotateRename, Inductive, RenameIsSafe
  <2>2. db' = <<>> /\ UNCHANGED <<intent, sent, effect>>
    BY <1>4 DEF RotateRename, RenameToArchive, worldVars
  <2>3. \A j \in DOMAIN db' : FALSE
    BY <2>2
  <2>. QED BY <2>1, <2>2, <2>3 DEF Entry
<1>5. ASSUME NEW c \in Calls, InsertIntent(c) PROVE Ledger!Intend(c)
  <2>1. intent[c] = 0 /\ db \in Seq(Row) /\ intent \in [Calls -> Nat]
    BY <1>5 DEF InsertIntent, Inductive, TypeOK, AuditTypeOK, IntentComesFirst, Guarded
  <2>2. /\ db' = Append(db, [call |-> c, status |-> "pending"])
        /\ intent' = [intent EXCEPT ![c] = Len(db) + 1]
        /\ UNCHANGED <<sent, effect>>
    BY <1>5, <2>1 DEF InsertIntent, Insert, worldVars
  <2>3. Entry[c] = "none"
    BY <2>1 DEF Entry
  <2>4. Entry'[c] = "pending"
    <3>1. (Len(db) + 1 \in DOMAIN db') /\ db'[Len(db) + 1] = [call |-> c, status |-> "pending"]
      BY <2>1, <2>2
    <3>2. intent'[c] # 0
      BY <2>1, <2>2
    <3>. QED BY <3>1, <3>2 DEF Entry, Pending
  <2>5. ASSUME NEW d \in Calls, d # c PROVE Entry'[d] = Entry[d]
    <3>1. (\E j \in DOMAIN db : Pending(j) /\ db[j].call = d)
            <=> (\E j \in DOMAIN db' : Pending(j)' /\ db'[j].call = d)
      BY <2>1, <2>2, <2>5 DEF Pending
    <3>. QED BY <2>1, <2>2, <2>5, <3>1 DEF Entry
  <2>6. Entry' = [Entry EXCEPT ![c] = "pending"]
    BY <2>4, <2>5 DEF Entry
  <2>. QED BY <2>2, <2>3, <2>6 DEF Ledger!Intend
<1>6. ASSUME NEW c \in Calls, NEW id \in DOMAIN db, NEW s \in Final, Pending(id),
             db[id].call = c, Resolve(id, s), UNCHANGED <<intent, sent, effect>>
      PROVE  Ledger!Close(c)
  <2>1. intent[c] = id /\ id # 0 /\ db \in Seq(Row)
    BY <1>6 DEF Inductive, TypeOK, AuditTypeOK, PendingIsOwned
  <2>2. \A j \in DOMAIN db : Pending(j) /\ db[j].call = c => j = id
    BY <1>6, <2>1 DEF Inductive, PendingIsOwned
  <2>3. /\ DOMAIN db' = DOMAIN db
        /\ \A j \in DOMAIN db : j # id => db'[j] = db[j]
        /\ db'[id].status # "pending"
    <3>1. db' = [db EXCEPT ![id].status = s]
      BY <1>6 DEF Resolve
    <3>2. db[id] \in Row /\ s # "pending"
      BY <2>1 DEF Final
    <3>3. [db[id] EXCEPT !.status = s].status = s
      BY <3>2 DEF Row
    <3>. QED BY <2>1, <3>1, <3>2, <3>3
  <2>4. Entry[c] = "pending" /\ Entry'[c] = "closed"
    BY <1>6, <2>1, <2>2, <2>3 DEF Entry, Pending
  <2>5. ASSUME NEW d \in Calls, d # c PROVE Entry'[d] = Entry[d]
    <3>1. (\E j \in DOMAIN db : Pending(j) /\ db[j].call = d)
            <=> (\E j \in DOMAIN db' : Pending(j)' /\ db'[j].call = d)
      BY <1>6, <2>3, <2>5 DEF Pending
    <3>. QED BY <1>6, <3>1 DEF Entry
  <2>6. Entry' = [Entry EXCEPT ![c] = "closed"]
    BY <2>4, <2>5 DEF Entry
  <2>. QED BY <1>6, <2>4, <2>6 DEF Ledger!Close
<1>7. ASSUME NEW c \in Calls, FinishWrite(c) PROVE Ledger!Close(c)
  <2>1. intent[c] \in DOMAIN db /\ db[intent[c]] = [call |-> c, status |-> "pending"]
    BY <1>7 DEF FinishWrite, Inductive, IntentIsOwnRow, Active
  <2>2. FinalStatus(c) \in Final
    BY FinalStatusIsFinal DEF Inductive
  <2>. QED BY <1>6, <1>7, <2>1, <2>2 DEF FinishWrite, Pending, worldVars
<1>8. ASSUME NEW id \in DOMAIN db, Reconcile(id) PROVE \E c \in Calls : Ledger!Close(c)
  <2>1. db[id].call \in Calls
    <3>1. db \in Seq(Row)
      BY DEF Inductive, TypeOK, AuditTypeOK
    <3>2. db[id] \in Row
      BY <3>1
    <3>. QED BY <3>2 DEF Row
  <2>2. Ledger!Close(db[id].call)
    BY <1>6, <1>8, <2>1 DEF Reconcile, Resolve, Final, callVars, worldVars
  <2>. QED BY <2>1, <2>2
<1>9. ASSUME NEW c \in Calls, InsertFinal(c) PROVE Quiet
  <2>1. FinalStatus(c) # "pending" /\ db \in Seq(Row)
    BY FinalStatusIsFinal DEF Final, Inductive, TypeOK, AuditTypeOK
  <2>2. db' = Append(db, [call |-> c, status |-> FinalStatus(c)]) /\ UNCHANGED <<intent, sent, effect>>
    BY <1>9 DEF InsertFinal, Insert, worldVars
  <2>3. \A d \in Calls : (\E j \in DOMAIN db : Pending(j) /\ db[j].call = d)
                       <=> (\E j \in DOMAIN db' : Pending(j)' /\ db'[j].call = d)
    BY <2>1, <2>2 DEF Pending
  <2>. QED BY <2>2, <2>3 DEF Entry
<1>10. ASSUME NEW c \in Calls, Send(c) PROVE Ledger!Send(c)
  <2>1. intent[c] # 0 /\ c \notin sent
    BY <1>10 DEF Send, Inductive, IntentComesFirst, Ended
  <2>2. Entry[c] = "pending"
    <3>1. intent[c] \in DOMAIN db /\ db[intent[c]] = [call |-> c, status |-> "pending"]
      BY <1>10, <2>1 DEF Send, Inductive, IntentIsOwnRow, Active
    <3>. QED BY <2>1, <3>1 DEF Entry, Pending
  <2>3. Entry' = Entry
    BY <1>10, SameEntry DEF Send, auditVars
  <2>. QED BY <1>10, <2>1, <2>2, <2>3 DEF Send, Ledger!Send
<1>11. ASSUME NEW c \in Calls, Apply(c) PROVE Quiet \/ Ledger!Change(c)
  <2>1. c \in sent
    BY <1>11 DEF Apply, Inductive, IntentComesFirst
  <2>2. Entry' = Entry
    BY <1>11, SameEntry DEF Apply, auditVars, callVars
  <2>. QED BY <1>11, <2>1, <2>2 DEF Apply, Ledger!Change
<1>12. CASE UNCHANGED vars
  BY <1>0, <1>1, <1>12 DEF vars, auditVars, callVars, worldVars
<1>. QED
  BY <1>0, <1>1, <1>2, <1>3, <1>4, <1>5, <1>7, <1>8, <1>9, <1>10, <1>11, <1>12
  DEF Next, CallStep, Ledger!Next

\* The governed calls implement the write-ahead promise.
THEOREM WriteAheadCorrect == HostLock => (Spec => WriteAheadHolds)
<1> SUFFICES ASSUME HostLock PROVE Spec => Ledger!Spec
  BY DEF WriteAheadHolds
<1>1. Init => Ledger!Init
  BY DEF Init, Ledger!Init, Entry
<1>2. Inductive /\ [Next]_vars => [Ledger!Next]_(Ledger!ledger)
  BY WriteAheadStep
<1>3. Spec => []Inductive
  BY Safety
<1>. QED BY <1>1, <1>2, <1>3, PTL DEF Spec, Ledger!Spec

-----------------------------------------------------------------------------
(***************************************************************************)
(* What a governed call says when it ends: to its caller, in the audit     *)
(* trail and in the undo store.                                            *)
(***************************************************************************)
Returned == {"ok", "error", "unknown"}

\* Before the tool returns or the call is refused or interrupted ...
Early(c) ==
  \/ pc[c] \in {"idle", "check", "begin", "run", "sent"}
  \/ pc[c] \in Guarded /\ strict[c]

\* ... and after its caller's answer is settled.
Late(c) == pc[c] = "finalize" \/ (pc[c] \in Guarded /\ ~strict[c])

\* What a call knows of itself: nothing while it is early, one of three things
\* once it is late, and a success only with the change made.
Outcome(c) ==
  /\ Early(c) => status[c] = "ok" /\ result[c] = "none" /\ answer[c] = "none"
  /\ pc[c] = "annotate" => status[c] = "ok" /\ result[c] \in Returned /\ answer[c] = "none"
  /\ Late(c) =>
       \/ status[c] # "ok" /\ result[c] = "none" /\ answer[c] = "refused"
       \/ status[c] = "ok" /\ result[c] = "none" /\ answer[c] = "interrupted"
       \/ status[c] = "ok" /\ result[c] \in Returned /\ answer[c] = result[c]
  /\ kind[c] = "write" /\ pc[c] \in {"sent", "annotate"} => intent[c] # 0
  /\ kind[c] = "write" /\ Late(c) /\ result[c] # "none" => intent[c] # 0
  /\ kind[c] = "write" /\ result[c] = "ok" => Vouched(c)

Outcomes == TokenImpliesEffect /\ \A c \in Calls : Outcome(c)

\* A step of one call leaves the outcome of the others as it is.
LEMMA OutcomeOfOthers ==
  ASSUME NEW d \in Calls, Outcome(d), effect \subseteq effect',
         d \in sent' => d \in sent,
         UNCHANGED <<pc[d], strict[d], status[d], result[d], answer[d], kind[d], intent[d]>>
  PROVE  Outcome(d)'
BY DEF Outcome, Early, Late, Vouched

LEMMA OutcomesStep ==
  ASSUME TypeOK, IntentComesFirst, Outcomes, [Next]_vars
  PROVE  Outcomes'
<1> USE DEF TypeOK
<1> DEFINE Frame(c) ==
      \A d \in Calls \ {c} :
        UNCHANGED <<pc[d], strict[d], status[d], result[d], answer[d], kind[d], intent[d]>>
\* A call's token was earned, and is not forfeited by a step of another call.
<1>0. ASSUME NEW c \in Calls, Frame(c), effect \subseteq effect', sent' \subseteq sent \cup {c},
             token' \subseteq token \cup {c}, Outcome(c)',
             c \in token' => kind'[c] = "write" /\ Vouched(c)'
      PROVE  Outcomes'
  <2>1. TokenImpliesEffect'
    BY <1>0 DEF Outcomes, TokenImpliesEffect, Vouched
  <2>. QED BY <1>0, <2>1, OutcomeOfOthers DEF Outcomes
<1>1. ASSUME NEW c \in Calls, Frame(c), UNCHANGED <<effect, sent, token, result, kind>>, Outcome(c)'
      PROVE  Outcomes'
  BY <1>0, <1>1 DEF Outcomes, TokenImpliesEffect, Vouched
<1>2. ASSUME UNCHANGED <<callVars, sent, token>>, effect \subseteq effect' PROVE Outcomes'
  BY <1>2, OutcomeOfOthers DEF Outcomes, TokenImpliesEffect, Vouched, callVars
<1>3. ASSUME NEW p \in Procs, Crash(p) PROVE Outcomes'
  <2>1. ASSUME NEW d \in Calls PROVE Outcome(d)'
    <3>1. /\ pc'[d] = pc[d] \/ pc'[d] = "crashed"
          /\ UNCHANGED <<strict[d], status[d], result[d], answer[d], kind[d], intent[d], effect, sent>>
      BY <1>3 DEF Crash
    <3>. QED BY <3>1 DEF Outcomes, Outcome, Early, Late, Guarded, Vouched
  <2>. QED BY <1>3, <2>1 DEF Crash, Outcomes, TokenImpliesEffect, Vouched
<1>4. ASSUME NEW p \in Procs, Boot(p) PROVE Outcomes'
  BY <1>2, <1>4 DEF Boot
<1>5. ASSUME NEW id \in DOMAIN db, Reconcile(id) PROVE Outcomes'
  BY <1>2, <1>5 DEF Reconcile, worldVars
<1>6. CASE UNCHANGED vars
  BY <1>2, <1>6 DEF vars, worldVars
<1>7. ASSUME NEW c \in Calls, Apply(c) PROVE Outcomes'
  BY <1>2, <1>7 DEF Apply
<1> USE DEF Goto
<1>8. ASSUME NEW c \in Calls, Start(c) PROVE Outcomes'
  <2>1. Frame(c) /\ UNCHANGED <<effect, sent, token>>
    BY <1>8 DEF Start, worldVars
  <2>2. Outcome(c)'
    BY <1>8 DEF Start, Outcomes, Outcome, Early, Late, Guarded, Vouched
  <2>3. c \notin token
    BY <1>8 DEF Start, Outcomes, TokenImpliesEffect, Vouched, Outcome, Early, IntentComesFirst, Ended
  <2>. QED BY <1>0, <2>1, <2>2, <2>3
<1>9. ASSUME NEW c \in Calls, PreCheck(c) PROVE Outcomes'
  <2>1. Frame(c) /\ UNCHANGED <<effect, sent, token>>
    BY <1>9 DEF PreCheck, worldVars
  <2>2. pc[c] = "check" /\ UNCHANGED <<strict, result, kind, intent>>
    BY <1>9 DEF PreCheck
  <2>3. \/ pc'[c] \in {"begin", "run"} /\ UNCHANGED <<status, answer>>
        \/ pc'[c] = "finalize" /\ status'[c] = "budget_exceeded" /\ answer'[c] = "refused"
    BY <1>9 DEF PreCheck
  <2>4. Outcome(c)'
    BY <2>1, <2>2, <2>3 DEF Outcomes, Outcome, Early, Late, Guarded, Vouched
  <2>. QED BY <1>1, <2>1, <2>2, <2>4
<1>10. ASSUME NEW c \in Calls, BeginRefused(c) \/ IntentFails(c) PROVE Outcomes'
  <2>1. Frame(c) /\ UNCHANGED <<effect, sent, token>>
    BY <1>10 DEF BeginRefused, IntentFails, Refuse, worldVars
  <2>2. Early(c) /\ pc'[c] = "finalize" /\ UNCHANGED <<strict, result, kind, intent>>
    BY <1>10 DEF BeginRefused, IntentFails, Refuse, Early, Guarded
  <2>3. status'[c] = "error" /\ answer'[c] = "refused"
    BY <1>10 DEF BeginRefused, IntentFails, Refuse
  <2>4. Outcome(c)'
    BY <2>1, <2>2, <2>3 DEF Outcomes, Outcome, Early, Late, Guarded, Vouched
  <2>. QED BY <1>1, <2>1, <2>2, <2>4
<1>11. ASSUME NEW c \in Calls, BeginWrite(c) \/ LogFinal(c) PROVE Outcomes'
  <2>1. /\ Frame(c)
        /\ UNCHANGED <<effect, sent, token, status, result, answer, kind, intent>>
    BY <1>11 DEF BeginWrite, LogFinal, EnterGuard, worldVars
  <2>2. \/ pc[c] = "begin" /\ strict'[c] = TRUE
        \/ pc[c] = "finalize" /\ strict'[c] = FALSE
    BY <1>11 DEF BeginWrite, LogFinal, EnterGuard
  <2>3. pc'[c] \in {"rename", "insert"}
    BY <1>11 DEF BeginWrite, LogFinal, EnterGuard
  <2>4. Outcome(c)'
    BY <2>1, <2>2, <2>3 DEF Outcomes, Outcome, Early, Late, Guarded, Vouched
  <2>. QED BY <1>1, <2>1, <2>4 DEF Outcomes
<1>12. ASSUME NEW c \in Calls, RotateRename(c) \/ RotateCreate(c) \/ RotateFails(c) PROVE Outcomes'
  <2>1. /\ Frame(c)
        /\ UNCHANGED <<effect, sent, token, strict, status, result, answer, kind, intent>>
    BY <1>12 DEF RotateRename, RotateCreate, RotateFails, worldVars
  <2>2. pc[c] \in Guarded /\ pc'[c] \in Guarded
    BY <1>12 DEF RotateRename, RotateCreate, RotateFails, Guarded
  <2>3. Outcome(c)'
    BY <2>1, <2>2 DEF Outcomes, Outcome, Early, Late, Guarded, Vouched
  <2>. QED BY <1>1, <2>1, <2>3 DEF Outcomes
<1>13. ASSUME NEW c \in Calls, InsertIntent(c) PROVE Outcomes'
  <2>1. /\ Frame(c)
        /\ UNCHANGED <<effect, sent, token, strict, status, result, answer, kind>>
    BY <1>13 DEF InsertIntent, worldVars
  <2>2. pc[c] = "insert" /\ strict[c] /\ pc'[c] = "run"
    BY <1>13 DEF InsertIntent
  <2>3. Outcome(c)'
    BY <2>1, <2>2 DEF Outcomes, Outcome, Early, Late, Guarded, Vouched
  <2>. QED BY <1>1, <2>1, <2>3 DEF Outcomes
<1>14. ASSUME NEW c \in Calls, Send(c) PROVE Outcomes'
  <2>1. /\ Frame(c) /\ sent' = sent \cup {c}
        /\ UNCHANGED <<effect, token, strict, status, result, answer, kind, intent>>
    BY <1>14 DEF Send
  <2>2. pc[c] = "run" /\ pc'[c] = "sent" /\ intent[c] # 0
    BY <1>14 DEF Send, IntentComesFirst
  <2>3. Outcome(c)'
    BY <2>1, <2>2 DEF Outcomes, Outcome, Early, Late, Guarded, Vouched
  <2>4. c \in token => kind[c] = "write" /\ c \in effect
    BY <2>2 DEF Outcomes, TokenImpliesEffect, Vouched, Outcome, Early
  <2>. QED BY <1>0, <2>1, <2>3, <2>4 DEF Vouched
<1>15. ASSUME NEW c \in Calls, NEW r \in Returned, Return(c, r),
              pc[c] \in {"run", "sent"}, UNCHANGED effect,
              kind[c] = "write" => intent[c] # 0,
              kind[c] = "write" /\ r = "ok" => c \in effect \/ c \notin sent
       PROVE  Outcomes'
  <2>1. Frame(c) /\ UNCHANGED <<sent, token, strict, status, answer, kind, intent>>
    BY <1>15 DEF Return
  <2>2. pc'[c] = "annotate" /\ result'[c] = r
    BY <1>15 DEF Return
  <2>3. Outcome(c)'
    BY <1>15, <2>1, <2>2 DEF Outcomes, Outcome, Early, Late, Guarded, Vouched
  <2>4. c \in token => kind[c] = "write" /\ c \in effect
    BY <1>15 DEF Outcomes, TokenImpliesEffect, Vouched, Outcome, Early
  <2>. QED BY <1>0, <1>15, <2>1, <2>3, <2>4 DEF Vouched
<1>16. ASSUME NEW c \in Calls, RunReadOnly(c) \/ ReturnUnsent(c) PROVE Outcomes'
  <2>1. /\ pc[c] = "run" /\ UNCHANGED effect
        /\ kind[c] = "write" => intent[c] # 0
    BY <1>16 DEF RunReadOnly, ReturnUnsent, IntentComesFirst
  <2>2. \E r \in Returned : Return(c, r)
    BY <1>16 DEF RunReadOnly, ReturnUnsent, Returned
  <2>3. c \notin sent
    BY <2>1 DEF IntentComesFirst, Ended
  <2>. QED BY <1>15, <2>1, <2>2, <2>3
<1>17. ASSUME NEW c \in Calls, Confirmed(c) \/ Rejected(c) \/ ResponseLost(c) PROVE Outcomes'
  <2>1. /\ pc[c] = "sent" /\ UNCHANGED effect
        /\ kind[c] = "write" => intent[c] # 0
    BY <1>17 DEF Confirmed, Rejected, ResponseLost, Outcomes, Outcome
  <2>2. \E r \in Returned : Return(c, r) /\ (r = "ok" => c \in effect)
    BY <1>17 DEF Confirmed, Rejected, ResponseLost, Returned
  <2>. QED BY <1>15, <2>1, <2>2
<1>18. ASSUME NEW c \in Calls, Interrupt(c) PROVE Outcomes'
  <2>1. Frame(c) /\ UNCHANGED <<effect, sent, token, strict, status, result, kind, intent>>
    BY <1>18 DEF Interrupt, worldVars
  <2>2. Early(c) /\ pc'[c] = "finalize" /\ answer'[c] = "interrupted"
    BY <1>18 DEF Interrupt, Early
  <2>3. Outcome(c)'
    BY <2>1, <2>2 DEF Outcomes, Outcome, Early, Late, Guarded, Vouched
  <2>. QED BY <1>1, <2>1, <2>3 DEF Outcomes
<1>19. ASSUME NEW c \in Calls, Annotate(c) PROVE Outcomes'
  <2>1. Frame(c) /\ UNCHANGED <<effect, sent, strict, status, result, kind, intent>>
    BY <1>19 DEF Annotate
  <2>2. pc[c] = "annotate" /\ pc'[c] = "finalize" /\ answer'[c] = result[c]
    BY <1>19 DEF Annotate
  <2>3. /\ token' \subseteq token \cup {c}
        /\ c \in token' => kind[c] = "write" /\ Vouched(c)
    BY <1>19 DEF Annotate, Outcomes, TokenImpliesEffect, Outcome
  <2>4. Outcome(c)'
    BY <2>1, <2>2 DEF Outcomes, Outcome, Early, Late, Guarded, Returned, Vouched
  <2>. QED BY <1>0, <2>1, <2>3, <2>4 DEF Vouched
<1>20. ASSUME NEW c \in Calls,
              FinishWrite(c) \/ FinishFails(c) \/ LogWithoutEngine(c) \/ InsertFinal(c) \/ FinalFails(c)
       PROVE  Outcomes'
  <2>1. /\ Frame(c) /\ pc'[c] = "done"
        /\ UNCHANGED <<effect, sent, token, strict, status, result, kind, intent>>
    BY <1>20 DEF FinishWrite, FinishFails, LogWithoutEngine, InsertFinal, FinalFails, worldVars
  <2>2. Outcome(c)'
    BY <2>1 DEF Outcomes, Outcome, Early, Late, Guarded, Vouched
  <2>. QED BY <1>1, <2>1, <2>2 DEF Outcomes
<1>. QED
  BY <1>3, <1>4, <1>5, <1>6, <1>7, <1>8, <1>9, <1>10, <1>11, <1>12, <1>13, <1>14, <1>16,
     <1>17, <1>18, <1>19, <1>20
  DEF Next, CallStep

LEMMA OutcomesHold == Spec => [](TypeOK /\ IntentComesFirst /\ Outcomes)
<1>1. Init => IntentComesFirst /\ Outcomes
  BY DEF Init, IntentComesFirst, Outcomes, TokenImpliesEffect, Outcome, Early, Late, Guarded, Ended
<1>2. TypeOK /\ IntentComesFirst /\ [Next]_vars => IntentComesFirst'
  BY IntentComesFirstStep
<1>3. TypeOK /\ IntentComesFirst /\ Outcomes /\ [Next]_vars => Outcomes'
  BY OutcomesStep
<1>. QED BY <1>1, <1>2, <1>3, TypeCorrect, PTL DEF Spec

\* An undo token stands for a change the cluster made, whatever fails, crashes
\* or is lost on the way, or for a write that returned without sending any.
THEOREM TokensAreEarned == Spec => []TokenImpliesEffect
<1>1. Outcomes => TokenImpliesEffect
  BY DEF Outcomes
<1>. QED BY <1>1, OutcomesHold, PTL

-----------------------------------------------------------------------------
(***************************************************************************)
(* The rows.  From here on the rotation lock is the host's: without it a   *)
(* call may resolve a row of another one.                                  *)
(***************************************************************************)

\* A row of a running call is still its intent, and a row that says "ok" of a
\* write speaks of a change that was made, or of a call that sent none.
RowIsTrue(row) ==
  /\ pc[row.call] # "idle"
  /\ row.status # "pending" => pc[row.call] \in Ended
  /\ row.status = "ok" /\ kind[row.call] = "write" /\ answer[row.call] # "interrupted"
       => Vouched(row.call)

RowsAreTrue == \A row \in AllRows : RowIsTrue(row)

LEMMA RowsAreRows ==
  ASSUME TypeOK
  PROVE  AllRows \subseteq Row
BY DEF TypeOK, AuditTypeOK, AllRows

\* What one row more or one row changed does to the rows there are.
LEMMA OneRowMore ==
  ASSUME UNCHANGED archives, NEW new, \A j \in DOMAIN db' : db'[j] = new \/ db'[j] \in AllRows
  PROVE  AllRows' \subseteq AllRows \cup {new}
<1> DEFINE Old == UNION {{archives[i][j] : j \in DOMAIN archives[i]} : i \in DOMAIN archives}
<1>1. Old' = Old
  OBVIOUS
<1>2. AllRows = {db[j] : j \in DOMAIN db} \cup Old
  BY DEF AllRows
<1>3. AllRows' = {db'[j] : j \in DOMAIN db'} \cup Old'
  BY DEF AllRows
<1> HIDE DEF Old
<1>. QED BY <1>1, <1>2, <1>3

LEMMA RowsStep ==
  ASSUME HostLock, Inductive, Outcomes, RowsAreTrue, [Next]_vars
  PROVE  RowsAreTrue'
<1> TypeOK /\ AllRows \subseteq Row
  BY RowsAreRows DEF Inductive
<1> USE DEF TypeOK, AuditTypeOK
<1>0. TypeOK'
  BY TypeStep
<1>1. ASSUME NEW row \in Row, row \in AllRows, effect \subseteq effect', UNCHANGED kind[row.call],
             \/ /\ UNCHANGED <<pc[row.call], answer[row.call], result[row.call]>>
                /\ row.call \in sent' => row.call \in sent
             \/ pc[row.call] \in Active /\ pc'[row.call] # "idle"
      PROVE  RowIsTrue(row)'
  <2>1. RowIsTrue(row)
    BY <1>1 DEF RowsAreTrue
  <2>2. CASE /\ UNCHANGED <<pc[row.call], answer[row.call], result[row.call]>>
             /\ row.call \in sent' => row.call \in sent
    BY <1>1, <2>1, <2>2 DEF RowIsTrue, Vouched
  <2>3. CASE pc[row.call] \in Active /\ pc'[row.call] # "idle"
    <3>1. row.status = "pending"
      BY <2>1, <2>3 DEF RowIsTrue, Active, Ended, Guarded
    <3>. QED BY <2>3, <3>1 DEF RowIsTrue
  <2>. QED BY <1>1, <2>2, <2>3
<1> DEFINE Keeps(c) ==
      /\ UNCHANGED kind /\ effect \subseteq effect' /\ sent' \subseteq sent \cup {c}
      /\ \A d \in Calls \ {c} : UNCHANGED <<pc[d], answer[d], result[d]>>
      /\ pc[c] \in Active /\ pc'[c] # "idle"
<1>2. ASSUME NEW c \in Calls, Keeps(c), NEW row \in AllRows PROVE RowIsTrue(row)'
  BY <1>1, <1>2 DEF Row
<1>3. ASSUME NEW c \in Calls, Keeps(c), UNCHANGED <<db, archives>> PROVE RowsAreTrue'
  <2>1. AllRows' = AllRows
    BY <1>3 DEF AllRows
  <2>. QED BY <1>2, <1>3, <2>1 DEF RowsAreTrue
<1>4. ASSUME UNCHANGED <<db, archives, pc, answer, result, sent, kind>>, effect \subseteq effect'
      PROVE  RowsAreTrue'
  <2>1. AllRows' = AllRows
    BY <1>4 DEF AllRows
  <2>. QED BY <1>1, <1>4, <2>1 DEF RowsAreTrue
<1>5. ASSUME NEW p \in Procs, Boot(p) PROVE RowsAreTrue'
  BY <1>4, <1>5 DEF Boot, OpenEngine, callVars
<1>6. ASSUME NEW p \in Procs, Crash(p) PROVE RowsAreTrue'
  <2>1. AllRows' = AllRows
    BY <1>6 DEF Crash, auditVars, AllRows
  <2>2. ASSUME NEW d \in Calls
        PROVE  \/ UNCHANGED <<pc[d], answer[d], result[d], sent>>
               \/ pc[d] \in Active /\ pc'[d] # "idle"
    BY <1>6 DEF Crash
  <2>3. UNCHANGED <<kind, effect>>
    BY <1>6 DEF Crash
  <2>4. ASSUME NEW row \in AllRows PROVE RowIsTrue(row)'
    <3>1. row \in Row /\ row.call \in Calls
      BY <2>4 DEF Row
    <3>. QED BY <1>1, <2>2, <2>3, <2>4, <3>1
  <2>. QED BY <2>1, <2>4 DEF RowsAreTrue
<1>7. ASSUME NEW c \in Calls, Apply(c) PROVE RowsAreTrue'
  BY <1>4, <1>7 DEF Apply, auditVars, callVars
<1>8. CASE UNCHANGED vars
  BY <1>4, <1>8 DEF vars, auditVars, callVars, worldVars
<1> USE DEF Goto
<1>9. ASSUME NEW c \in Calls, Start(c) PROVE RowsAreTrue'
  <2>1. AllRows' = AllRows
    BY <1>9 DEF Start, auditVars, AllRows
  <2>2. ASSUME NEW row \in AllRows PROVE RowIsTrue(row)'
    <3>1. row \in Row /\ row.call \in Calls /\ row.call # c
      BY <1>9, <2>2 DEF Start, RowsAreTrue, RowIsTrue, Row
    <3>2. UNCHANGED <<pc[row.call], answer[row.call], result[row.call], kind[row.call], effect, sent>>
      BY <1>9, <3>1 DEF Start, worldVars
    <3>. QED BY <1>1, <2>2, <3>1, <3>2
  <2>. QED BY <2>1, <2>2 DEF RowsAreTrue
<1>10. ASSUME NEW c \in Calls,
              \/ PreCheck(c) \/ BeginRefused(c) \/ BeginWrite(c) \/ RotateFails(c) \/ IntentFails(c)
              \/ Interrupt(c) \/ Annotate(c) \/ FinishFails(c) \/ LogWithoutEngine(c)
              \/ LogFinal(c) \/ FinalFails(c) \/ RunReadOnly(c) \/ ReturnUnsent(c) \/ Send(c)
              \/ Confirmed(c) \/ Rejected(c) \/ ResponseLost(c)
       PROVE  RowsAreTrue'
  <2>1. UNCHANGED <<db, archives>>
    BY <1>10 DEF PreCheck, BeginRefused, BeginWrite, RotateFails, IntentFails, Interrupt, Annotate,
         FinishFails, LogWithoutEngine, LogFinal, FinalFails, RunReadOnly, ReturnUnsent, Send,
         Confirmed, Rejected, ResponseLost, Latch, EnterGuard, Return, auditVars
  <2>2. UNCHANGED <<kind, effect>>
    BY <1>10 DEF PreCheck, BeginRefused, BeginWrite, RotateFails, IntentFails, Interrupt, Annotate,
         FinishFails, LogWithoutEngine, LogFinal, FinalFails, RunReadOnly, ReturnUnsent, Send,
         Confirmed, Rejected, ResponseLost, Refuse, EnterGuard, Return, worldVars
  <2>3. /\ pc[c] \in Active
        /\ \E l \in Active \cup {"done"} : pc' = [pc EXCEPT ![c] = l]
        /\ \/ UNCHANGED answer
           \/ \E a \in Answers : answer' = [answer EXCEPT ![c] = a]
    <3> USE DEF Active, Guarded, Answers, Results
    <3>1. CASE PreCheck(c)
      BY <3>1 DEF PreCheck
    <3>2. CASE BeginRefused(c) \/ IntentFails(c)
      BY <3>2 DEF BeginRefused, IntentFails, Refuse
    <3>3. CASE BeginWrite(c) \/ LogFinal(c)
      BY <3>3 DEF BeginWrite, LogFinal, EnterGuard
    <3>4. CASE RotateFails(c) \/ Interrupt(c) \/ LogWithoutEngine(c) \/ FinalFails(c) \/ Send(c)
      BY <3>4 DEF RotateFails, Interrupt, LogWithoutEngine, FinalFails, Send
    <3>5. CASE FinishFails(c) \/ Annotate(c)
      BY <3>5 DEF FinishFails, Annotate
    <3>6. CASE RunReadOnly(c) \/ ReturnUnsent(c) \/ Confirmed(c) \/ Rejected(c) \/ ResponseLost(c)
      BY <3>6 DEF RunReadOnly, ReturnUnsent, Confirmed, Rejected, ResponseLost, Return
    <3>. QED BY <1>10, <3>1, <3>2, <3>3, <3>4, <3>5, <3>6
  <2>4. /\ sent' \subseteq sent \cup {c}
        /\ UNCHANGED result \/ \E r \in Results : result' = [result EXCEPT ![c] = r]
    BY <1>10 DEF PreCheck, BeginRefused, BeginWrite, RotateFails, IntentFails, Interrupt, Annotate,
         FinishFails, LogWithoutEngine, LogFinal, FinalFails, RunReadOnly, ReturnUnsent, Send,
         Confirmed, Rejected, ResponseLost, Refuse, EnterGuard, Return, worldVars, Results
  <2>5. Keeps(c)
    BY <2>2, <2>3, <2>4 DEF Active, Guarded
  <2>. QED BY <1>3, <2>1, <2>5
<1>11. ASSUME NEW c \in Calls, RotateRename(c) PROVE RowsAreTrue'
  <2>1. Keeps(c)
    BY <1>11 DEF RotateRename, worldVars, Active, Guarded
  <2>2. db' = <<>> /\ archives' = Append(archives, db)
    BY <1>11 DEF RotateRename, RenameToArchive
  <2>3. AllRows' \subseteq AllRows
    BY <2>2 DEF AllRows
  <2>. QED BY <1>2, <2>1, <2>3 DEF RowsAreTrue
<1>12. ASSUME NEW c \in Calls, RotateCreate(c) PROVE RowsAreTrue'
  <2>1. Keeps(c)
    BY <1>12 DEF RotateCreate, worldVars, Active, Guarded
  <2>2. UNCHANGED db /\ archives' = Newest(archives)
    BY <1>12 DEF RotateCreate, CreateFresh
  <2>3. \A i \in DOMAIN archives' : \E j \in DOMAIN archives : archives'[i] = archives[j]
    <3>1. CASE Len(archives) <= MaxArchives
      BY <2>2, <3>1 DEF Newest
    <3>2. CASE ~(Len(archives) <= MaxArchives)
      <4>1. archives' = [i \in 1 .. MaxArchives |-> archives[i + (Len(archives) - MaxArchives)]]
        BY <2>2, <3>2 DEF Newest
      <4>2. \A i \in 1 .. MaxArchives : i + (Len(archives) - MaxArchives) \in DOMAIN archives
        BY <3>2, MaxArchivesIsPositive
      <4>. QED BY <4>1, <4>2
    <3>. QED BY <3>1, <3>2
  <2>4. AllRows' \subseteq AllRows
    BY <2>2, <2>3 DEF AllRows
  <2>. QED BY <1>2, <2>1, <2>4 DEF RowsAreTrue
<1>13. ASSUME NEW c \in Calls, InsertIntent(c) PROVE RowsAreTrue'
  <2> DEFINE new == [call |-> c, status |-> "pending"]
  <2>1. Keeps(c) /\ pc'[c] = "run"
    BY <1>13 DEF InsertIntent, worldVars, Active, Guarded
  <2>2. AllRows' \subseteq AllRows \cup {new}
    BY <1>13 DEF InsertIntent, Insert, AllRows
  <2>3. RowIsTrue(new)'
    BY <2>1 DEF RowIsTrue
  <2>. QED BY <1>2, <2>1, <2>2, <2>3 DEF RowsAreTrue
<1>14. ASSUME NEW c \in Calls, NEW s, s = FinalStatus(c), Late(c), Keeps(c), pc'[c] = "done",
              UNCHANGED <<answer, result, sent>>, AllRows' \subseteq AllRows \cup {[call |-> c, status |-> s]}
       PROVE  RowsAreTrue'
  <2> DEFINE new == [call |-> c, status |-> s]
  <2>1. Outcome(c)
    BY DEF Outcomes
  <2>2. s = "ok" /\ kind[c] = "write" /\ answer[c] # "interrupted" => Vouched(c)
    BY <1>14, <2>1 DEF Outcome, FinalStatus, Returned
  <2>3. RowIsTrue(new)'
    BY <1>14, <2>2 DEF RowIsTrue, Ended, Vouched
  <2>. QED BY <1>2, <1>14, <2>3 DEF RowsAreTrue
<1>15. ASSUME NEW c \in Calls, FinishWrite(c) PROVE RowsAreTrue'
  <2> PICK s : s = FinalStatus(c)
    OBVIOUS
  <2>1. /\ pc[c] = "finalize" /\ pc'[c] = "done" /\ UNCHANGED <<answer, result, kind, effect, sent>>
        /\ \A d \in Calls \ {c} : UNCHANGED pc[d]
    BY <1>15 DEF FinishWrite, worldVars
  <2>2. intent[c] \in DOMAIN db /\ db[intent[c]] = [call |-> c, status |-> "pending"]
    BY <1>15 DEF FinishWrite, Inductive, IntentIsOwnRow, Active
  <2>3. db' = [db EXCEPT ![intent[c]].status = s] /\ UNCHANGED archives
    BY <1>15 DEF FinishWrite, Resolve
  <2>4. db'[intent[c]] = [call |-> c, status |-> s]
    BY <2>2, <2>3
  <2>5. \A j \in DOMAIN db' : j \in DOMAIN db /\ (j # intent[c] => db'[j] = db[j])
    BY <2>3
  <2>6. AllRows' \subseteq AllRows \cup {[call |-> c, status |-> s]}
    <3>1. \A j \in DOMAIN db' : db'[j] = [call |-> c, status |-> s] \/ db'[j] \in AllRows
      BY <2>4, <2>5 DEF AllRows
    <3>. QED BY <2>3, <3>1, OneRowMore
  <2>. QED BY <1>14, <2>1, <2>6 DEF Late, Active
<1>16. ASSUME NEW c \in Calls, InsertFinal(c) PROVE RowsAreTrue'
  <2> PICK s : s = FinalStatus(c)
    OBVIOUS
  <2>1. /\ pc[c] = "insert" /\ ~strict[c] /\ pc'[c] = "done" /\ UNCHANGED <<answer, result, kind, effect, sent>>
        /\ \A d \in Calls \ {c} : UNCHANGED pc[d]
    BY <1>16 DEF InsertFinal, worldVars
  <2>2. AllRows' \subseteq AllRows \cup {[call |-> c, status |-> s]}
    BY <1>16 DEF InsertFinal, Insert, AllRows
  <2>. QED BY <1>14, <2>1, <2>2 DEF Late, Active, Guarded
<1>17. ASSUME NEW id \in DOMAIN db, Reconcile(id) PROVE RowsAreTrue'
  <2>0. db \in Seq(Row) /\ db[id] \in Row /\ db[id].call \in Calls
    <3>1. db \in Seq(Row)
      OBVIOUS
    <3>2. db[id] \in Row
      BY <3>1
    <3>. QED BY <3>1, <3>2 DEF Row
  <2> PICK c \in Calls : c = db[id].call
    BY <2>0
  <2> DEFINE new == [call |-> c, status |-> "unknown"]
  <2>1. pc[c] \in Ended /\ UNCHANGED <<pc, answer, result, kind, effect, sent, archives>>
    BY <1>17 DEF Reconcile, Resolve, callVars, worldVars
  <2>2. db' = [db EXCEPT ![id].status = "unknown"]
    BY <1>17 DEF Reconcile, Resolve
  <2>3. db'[id] = new /\ \A j \in DOMAIN db' : j \in DOMAIN db /\ (j # id => db'[j] = db[j])
    <3>1. db[id] = [call |-> c, status |-> "pending"]
      BY <1>17, <2>0 DEF Reconcile, Resolve, Pending, Row
    <3>. QED BY <2>0, <2>2, <3>1
  <2>4. AllRows' \subseteq AllRows \cup {new}
    <3>1. \A j \in DOMAIN db' : db'[j] = new \/ db'[j] \in AllRows
      BY <2>3 DEF AllRows
    <3>. QED BY <2>1, <3>1, OneRowMore
  <2>5. RowIsTrue(new)'
    BY <2>1 DEF RowIsTrue, Ended
  <2>6. ASSUME NEW row \in AllRows PROVE RowIsTrue(row)'
    BY <1>1, <2>1
  <2>. QED BY <2>4, <2>5, <2>6 DEF RowsAreTrue
<1>. QED
  BY <1>5, <1>6, <1>7, <1>8, <1>9, <1>10, <1>11, <1>12, <1>13, <1>15, <1>16, <1>17
  DEF Next, CallStep

\* A row that says "ok" of a write means the cluster confirmed what the call
\* sent, if it sent anything, unless the user interrupted the call.
THEOREM OkRowsAreTrue == HostLock => (Spec => []OkRowIsConfirmed)
<1> SUFFICES ASSUME HostLock PROVE Spec => []OkRowIsConfirmed
  OBVIOUS
<1>1. Init => RowsAreTrue
  BY DEF Init, AuditInit, RowsAreTrue, AllRows
<1>2. Inductive /\ Outcomes /\ RowsAreTrue /\ [Next]_vars => RowsAreTrue'
  BY RowsStep
<1>3. RowsAreTrue => OkRowIsConfirmed
  BY DEF RowsAreTrue, RowIsTrue, OkRowIsConfirmed
<1>4. Spec => []Inductive
  BY Safety
<1>. QED BY <1>1, <1>2, <1>3, <1>4, OutcomesHold, PTL DEF Spec

-----------------------------------------------------------------------------
LEMMA OrphanStep ==
  ASSUME HostLock, Inductive, OrphanIsReported, [Next]_vars
  PROVE  OrphanIsReported'
<1> USE DEF Inductive, TypeOK, AuditTypeOK
<1> DEFINE Told(c) == pc[c] = "done" => answer[c] = "audit_unavailable"
<1>1. ASSUME NEW id \in DOMAIN db, Pending(id)
      PROVE  db[id].call \in Calls /\ intent[db[id].call] = id /\ id # 0 /\ Told(db[id].call)
  <2>1. db \in Seq(Row)
    OBVIOUS
  <2>2. db[id] \in Row /\ id # 0
    BY <2>1
  <2>. QED BY <1>1, <2>2 DEF Row, PendingIsOwned, OrphanIsReported
\* It is enough that every row pending afterwards was so before, and that its
\* call did not end silently; or that it is the intent of a call still running.
<1>2. ASSUME \A id \in DOMAIN db' : Pending(id)' =>
               \/ /\ id \in DOMAIN db /\ Pending(id) /\ db'[id].call = db[id].call
                  /\ Told(db[id].call) => Told(db[id].call)'
               \/ pc'[db'[id].call] # "done"
      PROVE  OrphanIsReported'
  BY <1>1, <1>2 DEF OrphanIsReported
<1>3. ASSUME UNCHANGED db, \A c \in Calls : intent[c] # 0 /\ Told(c) => Told(c)'
      PROVE  OrphanIsReported'
  BY <1>1, <1>2, <1>3 DEF Pending
<1>4. ASSUME NEW p \in Procs, Boot(p) \/ Crash(p) PROVE OrphanIsReported'
  <2>1. UNCHANGED db
    BY <1>4 DEF Boot, Crash, OpenEngine, auditVars
  <2>2. \A c \in Calls : Told(c) => Told(c)'
    BY <1>4 DEF Boot, Crash, callVars
  <2>. QED BY <1>3, <2>1, <2>2
<1>5. ASSUME NEW c \in Calls, Apply(c) PROVE OrphanIsReported'
  BY <1>3, <1>5 DEF Apply, auditVars, callVars
<1>6. CASE UNCHANGED vars
  BY <1>3, <1>6 DEF vars, auditVars, callVars
<1> USE DEF Goto
<1>7. ASSUME NEW c \in Calls, UNCHANGED db, pc'[c] # "done",
             \A d \in Calls \ {c} : UNCHANGED <<pc[d], answer[d]>>
      PROVE  OrphanIsReported'
  BY <1>3, <1>7
<1>8. ASSUME NEW c \in Calls,
             \/ Start(c) \/ PreCheck(c) \/ BeginRefused(c) \/ BeginWrite(c) \/ RotateCreate(c)
             \/ RotateFails(c) \/ IntentFails(c) \/ RunReadOnly(c) \/ ReturnUnsent(c) \/ Send(c)
             \/ Confirmed(c) \/ Rejected(c) \/ ResponseLost(c)
             \/ Interrupt(c) \/ Annotate(c) \/ LogFinal(c)
      PROVE  OrphanIsReported'
  <2>1. UNCHANGED db
    BY <1>8 DEF Start, PreCheck, BeginRefused, BeginWrite, RotateCreate, RotateFails, IntentFails,
         RunReadOnly, ReturnUnsent, Send, Confirmed, Rejected, ResponseLost, Interrupt, Annotate,
         LogFinal, Latch, EnterGuard, CreateFresh, Return, auditVars
  <2>2. pc'[c] # "done" /\ \A d \in Calls \ {c} : UNCHANGED <<pc[d], answer[d]>>
    <3>1. CASE Start(c) \/ PreCheck(c) \/ Interrupt(c) \/ Annotate(c) \/ Send(c)
      BY <3>1 DEF Start, PreCheck, Interrupt, Annotate, Send
    <3>2. CASE BeginRefused(c) \/ IntentFails(c)
      BY <3>2 DEF BeginRefused, IntentFails, Refuse
    <3>3. CASE BeginWrite(c) \/ LogFinal(c)
      BY <3>3 DEF BeginWrite, LogFinal, EnterGuard
    <3>4. CASE RotateCreate(c) \/ RotateFails(c)
      BY <3>4 DEF RotateCreate, RotateFails
    <3>5. CASE RunReadOnly(c) \/ ReturnUnsent(c) \/ Confirmed(c) \/ Rejected(c) \/ ResponseLost(c)
      BY <3>5 DEF RunReadOnly, ReturnUnsent, Confirmed, Rejected, ResponseLost, Return
    <3>. QED BY <1>8, <3>1, <3>2, <3>3, <3>4, <3>5
  <2>. QED BY <1>7, <2>1, <2>2
<1>9. ASSUME NEW c \in Calls, RotateRename(c) PROVE OrphanIsReported'
  <2>1. db' = <<>>
    BY <1>9 DEF RotateRename, RenameToArchive
  <2>. QED BY <2>1 DEF OrphanIsReported
<1>10. ASSUME NEW c \in Calls, InsertIntent(c) PROVE OrphanIsReported'
  <2>1. db' = Append(db, [call |-> c, status |-> "pending"]) /\ UNCHANGED answer
    BY <1>10 DEF InsertIntent, Insert
  <2>2. pc'[c] = "run" /\ \A d \in Calls \ {c} : UNCHANGED pc[d]
    BY <1>10 DEF InsertIntent
  <2>3. \A id \in DOMAIN db' : (id \in DOMAIN db /\ db'[id] = db[id]) \/ db'[id].call = c
    BY <2>1
  <2>4. \A d \in Calls : Told(d) => Told(d)'
    BY <2>1, <2>2
  <2>. QED BY <1>1, <1>2, <2>2, <2>3, <2>4 DEF Pending
<1>11. ASSUME NEW c \in Calls, FinishWrite(c) PROVE OrphanIsReported'
  <2>1. db' = [db EXCEPT ![intent[c]].status = FinalStatus(c)]
    BY <1>11 DEF FinishWrite, Resolve
  <2>2. intent[c] \in DOMAIN db /\ db[intent[c]] = [call |-> c, status |-> "pending"]
    BY <1>11 DEF FinishWrite, IntentIsOwnRow, Active
  <2>3. db'[intent[c]].status # "pending"
    BY <2>1, <2>2, FinalStatusIsFinal DEF Final
  <2>4. \A id \in DOMAIN db' : id \in DOMAIN db /\ (id # intent[c] => db'[id] = db[id])
    BY <2>1
  <2>5. \A d \in Calls \ {c} : Told(d) => Told(d)'
    BY <1>11 DEF FinishWrite
  <2>6. ASSUME NEW id \in DOMAIN db', Pending(id)'
        PROVE  /\ id \in DOMAIN db /\ Pending(id) /\ db'[id].call = db[id].call
               /\ Told(db[id].call) => Told(db[id].call)'
    <3>1. id # intent[c] /\ id \in DOMAIN db /\ db'[id] = db[id]
      BY <2>3, <2>4, <2>6 DEF Pending
    <3>2. Pending(id)
      BY <2>6, <3>1 DEF Pending
    <3>3. db[id].call \in Calls \ {c}
      BY <1>1, <3>1, <3>2
    <3>. QED BY <2>5, <3>1, <3>2, <3>3
  <2>. QED BY <1>2, <2>6
<1>12. ASSUME NEW c \in Calls, FinishFails(c) PROVE OrphanIsReported'
  BY <1>3, <1>12 DEF FinishFails
<1>13. ASSUME NEW c \in Calls, LogWithoutEngine(c) PROVE OrphanIsReported'
  BY <1>3, <1>13 DEF LogWithoutEngine, auditVars
<1>14. ASSUME NEW c \in Calls, FinalFails(c) PROVE OrphanIsReported'
  BY <1>3, <1>14 DEF FinalFails, auditVars, IntentComesFirst, Guarded
<1>15. ASSUME NEW c \in Calls, InsertFinal(c) PROVE OrphanIsReported'
  <2>1. FinalStatus(c) # "pending"
    BY FinalStatusIsFinal DEF Final
  <2>2. db' = Append(db, [call |-> c, status |-> FinalStatus(c)])
    BY <1>15 DEF InsertFinal, Insert
  <2>3. \A id \in DOMAIN db' : (id \in DOMAIN db /\ db'[id] = db[id]) \/ db'[id].status # "pending"
    BY <2>1, <2>2
  <2>4. intent[c] = 0 /\ \A d \in Calls \ {c} : Told(d) => Told(d)'
    BY <1>15 DEF InsertFinal, IntentComesFirst, Guarded
  <2>. QED BY <1>1, <1>2, <2>3, <2>4 DEF Pending
<1>16. ASSUME NEW id \in DOMAIN db, Reconcile(id) PROVE OrphanIsReported'
  <2>1. db' = [db EXCEPT ![id].status = "unknown"] /\ UNCHANGED <<pc, answer>>
    BY <1>16 DEF Reconcile, Resolve, callVars
  <2>2. \A j \in DOMAIN db' : j \in DOMAIN db /\ (j # id => db'[j] = db[j])
    BY <2>1
  <2>3. db'[id].status # "pending"
    <3>1. db \in Seq(Row)
      OBVIOUS
    <3>2. db[id] \in Row
      BY <3>1
    <3>. QED BY <2>1, <3>2 DEF Row
  <2>. QED BY <1>1, <1>2, <2>1, <2>2, <2>3 DEF Pending
<1>. QED
  BY <1>4, <1>5, <1>6, <1>8, <1>9, <1>10, <1>11, <1>12, <1>13, <1>14, <1>15, <1>16
  DEF Next, CallStep

\* A pending row nobody is working on is never silent: its process died, or
\* the caller was told.
THEOREM OrphansAreReported == HostLock => (Spec => []OrphanIsReported)
<1> SUFFICES ASSUME HostLock PROVE Spec => []OrphanIsReported
  OBVIOUS
<1>1. Init => OrphanIsReported
  BY DEF Init, AuditInit, OrphanIsReported
<1>2. Inductive /\ OrphanIsReported /\ [Next]_vars => OrphanIsReported'
  BY OrphanStep
<1>. QED BY <1>1, <1>2, Safety, PTL DEF Spec

\* A write that answers its caller normally has just put that outcome into its
\* own row.
THEOREM AnswersAreAudited == HostLock => (Spec => AnswerIsAudited)
<1> SUFFICES ASSUME HostLock PROVE Spec => AnswerIsAudited
  OBVIOUS
<1> DEFINE Audited == \A c \in Calls :
             kind[c] = "write" /\ answer[c] \in {"ok", "error", "unknown"}
               /\ pc[c] \in Active /\ pc'[c] = "done" /\ answer'[c] = answer[c]
             => db'[intent[c]] = [call |-> c, status |-> answer[c]]
<1>1. ASSUME Inductive, Outcomes, [Next]_vars PROVE Audited
  <2> SUFFICES ASSUME NEW c \in Calls, kind[c] = "write", answer[c] \in Returned,
                      pc[c] \in Active, pc'[c] = "done", answer'[c] = answer[c]
               PROVE  db'[intent[c]] = [call |-> c, status |-> answer[c]]
    BY DEF Returned
  <2> USE DEF Inductive, TypeOK, AuditTypeOK
  <2>1. Outcome(c)
    BY <1>1 DEF Outcomes
  <2>2. Late(c) /\ status[c] = "ok" /\ result[c] = answer[c] /\ answer[c] # "none"
    BY <1>1, <2>1 DEF Outcome, Early, Late, Active, Returned, Guarded
  <2>3. intent[c] # 0 /\ pc[c] = "finalize"
    BY <1>1, <2>1, <2>2 DEF Outcome, Late, IntentComesFirst
  <2>4. FinalStatus(c) = answer[c]
    BY <2>2 DEF FinalStatus
  <2>5. FinishWrite(c)
    <3> USE DEF Goto
    <3>1. ~UNCHANGED pc[c]
      BY <2>3
    <3>2. \A d \in Calls : d # c => ~CallStep(d) /\ ~Start(d) /\ ~Interrupt(d)
      BY <1>1, <3>1 DEF CallStep, Start, Interrupt, PreCheck, BeginRefused, BeginWrite, RotateRename,
           RotateCreate, RotateFails, InsertIntent, IntentFails, RunReadOnly, ReturnUnsent, Send,
           Confirmed, Rejected, ResponseLost, Annotate, FinishWrite, FinishFails, LogWithoutEngine,
           LogFinal, InsertFinal, FinalFails, Refuse, EnterGuard, Return
    <3>3. \A d \in Calls : ~Apply(d)
      BY <3>1 DEF Apply, callVars
    <3>4. \A p \in Procs : ~Boot(p) /\ ~Crash(p)
      BY <1>1, <2>3, <3>1 DEF Boot, Crash, callVars
    <3>5. \A id \in DOMAIN db : ~Reconcile(id)
      BY <3>1 DEF Reconcile, callVars
    <3>6. CallStep(c) \/ Start(c) \/ Interrupt(c)
      BY <1>1, <3>1, <3>2, <3>3, <3>4, <3>5 DEF Next, vars, callVars
    <3>7. FinishWrite(c) \/ FinishFails(c)
      BY <1>1, <2>3, <3>6 DEF CallStep, Start, Interrupt, PreCheck, BeginRefused, BeginWrite,
           RotateRename, RotateCreate, RotateFails, InsertIntent, IntentFails, RunReadOnly,
           ReturnUnsent, Send, Confirmed, Rejected, ResponseLost, Annotate, LogWithoutEngine,
           LogFinal, InsertFinal, FinalFails
    <3>8. ~FinishFails(c)
      BY <1>1 DEF FinishFails, Returned
    <3>. QED BY <3>7, <3>8
  <2>6. db[intent[c]] = [call |-> c, status |-> "pending"] /\ intent[c] \in DOMAIN db
    BY <1>1, <2>3 DEF IntentIsOwnRow
  <2>7. db' = [db EXCEPT ![intent[c]].status = answer[c]]
    BY <2>4, <2>5 DEF FinishWrite, Resolve
  <2>. QED BY <1>1, <2>6, <2>7
<1>2. Inductive /\ Outcomes /\ [Next]_vars => [Audited]_vars
  BY <1>1
<1>3. Spec => []Inductive
  BY Safety
<1>. QED BY <1>2, <1>3, OutcomesHold, PTL DEF Spec, AnswerIsAudited
=============================================================================
