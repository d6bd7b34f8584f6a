------------------------------ MODULE AuditLog ------------------------------
(***************************************************************************)
(* The audit database of governance/audit.py: one SQLite file shared by    *)
(* every ceph-aiops process of the host, its rotated archives, and the     *)
(* AuditEngine object each process holds.                                  *)
(*                                                                         *)
(* A row is reduced to the governed call it belongs to and its status.     *)
(* SQLite gives rows the ids 1, 2, ... (AUTOINCREMENT in a table nothing   *)
(* is deleted from), so the table is a sequence and a row's id its index;  *)
(* a rotation starts a new file, in which the ids restart at 1.            *)
(*                                                                         *)
(* This module has the storage and its operations.  GovernedCall composes  *)
(* them with the calls that use them.                                      *)
(***************************************************************************)
EXTENDS Naturals, Sequences, FiniteSets

CONSTANTS
  Procs,        \* the processes of the host that import ceph_aiops
  Calls,        \* the governed calls any of them makes
  RotateAt,     \* rows at which audit.db has reached _MAX_DB_SIZE_BYTES
  MaxArchives   \* _MAX_ARCHIVES

ASSUME RotateAtIsPositive == RotateAt \in Nat \ {0}
ASSUME MaxArchivesIsPositive == MaxArchives \in Nat \ {0}

VARIABLES
  db,         \* rows of audit.db, in id order
  hasTable,   \* audit.db exists and holds the audit_log table
  archives,   \* rotated files, oldest first
  available,  \* available[p]: AuditEngine._ok in process p
  blocked     \* blocked[p]: AuditEngine._write_blocked in process p

auditVars == <<db, hasTable, archives, available, blocked>>

Final == {"ok", "error", "unknown", "budget_exceeded"}
Row == [call : Calls, status : Final \cup {"pending"}]

AuditTypeOK ==
  /\ db \in Seq(Row)
  /\ hasTable \in BOOLEAN
  /\ archives \in Seq(Seq(Row))
  /\ available \in [Procs -> BOOLEAN]
  /\ blocked \in [Procs -> BOOLEAN]

AuditInit ==
  /\ db = <<>>
  /\ hasTable = FALSE
  /\ archives = <<>>
  /\ available = [p \in Procs |-> FALSE]
  /\ blocked = [p \in Procs |-> FALSE]

-----------------------------------------------------------------------------
Pending(id) == id \in DOMAIN db /\ db[id].status = "pending"

(***************************************************************************)
(* AuditEngine.__init__: a new process creates the table if it is missing  *)
(* and starts with the write latch open.  The initialisation may fail,     *)
(* before or after the table is there, which leaves _ok false for the life *)
(* of the process.                                                         *)
(***************************************************************************)
OpenEngine(p) ==
  /\ \E works, created \in BOOLEAN :
        /\ works => created
        /\ available' = [available EXCEPT ![p] = works]
        /\ hasTable' = (hasTable \/ created)
  /\ blocked' = [blocked EXCEPT ![p] = FALSE]
  /\ UNCHANGED <<db, archives>>

Latch(p) == blocked' = [blocked EXCEPT ![p] = TRUE]

\* Seeded fault: the rotation does not look for pending rows.
RotationDueBySize == hasTable /\ Len(db) >= RotateAt

(***************************************************************************)
(* _maybe_rotate, first half: the file exists, is full, and holds no       *)
(* pending row.                                                            *)
(***************************************************************************)
RotationDue ==
  /\ hasTable
  /\ Len(db) >= RotateAt
  /\ ~ \E id \in DOMAIN db : Pending(id)

(***************************************************************************)
(* _maybe_rotate, the rename: from here to CreateFresh the path holds no   *)
(* usable database.                                                        *)
(***************************************************************************)
RenameToArchive ==
  /\ hasTable
  /\ archives' = Append(archives, db)
  /\ db' = <<>>
  /\ hasTable' = FALSE
  /\ UNCHANGED <<available, blocked>>

(***************************************************************************)
(* _cleanup_archives keeps the newest MaxArchives files.                   *)
(***************************************************************************)
Newest(files) ==
  IF Len(files) <= MaxArchives THEN files
  ELSE [i \in 1 .. MaxArchives |-> files[i + (Len(files) - MaxArchives)]]

CreateFresh ==
  /\ hasTable' = TRUE
  /\ archives' = Newest(archives)
  /\ UNCHANGED <<db, available, blocked>>

(***************************************************************************)
(* log: the INSERT, and its commit.  The id of the new row is Len(db').    *)
(***************************************************************************)
Insert(c, status) ==
  /\ hasTable
  /\ db' = Append(db, [call |-> c, status |-> status])
  /\ UNCHANGED <<hasTable, archives, available, blocked>>

\* Seeded fault: the UPDATE without its test of the status.
ResolveAny(id, status) ==
  /\ id \in DOMAIN db
  /\ db' = [db EXCEPT ![id].status = status]
  /\ UNCHANGED <<hasTable, archives, available, blocked>>

(***************************************************************************)
(* UPDATE ... WHERE id = ? AND status = 'pending'.                         *)
(***************************************************************************)
Resolve(id, status) ==
  /\ Pending(id)
  /\ db' = [db EXCEPT ![id].status = status]
  /\ UNCHANGED <<hasTable, archives, available, blocked>>
=============================================================================
