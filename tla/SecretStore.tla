----------------------------- MODULE SecretStore -----------------------------
(***************************************************************************)
(* The encrypted store secrets.enc and the commands that write it          *)
(* (secretstore.py, cli/secret.py, cli/init.py).  A command unlocks the    *)
(* store once and writes the whole of it back for every change, by way of  *)
(* one temporary file that all processes share: open and truncate, write,  *)
(* rename.  Nothing locks the store.  A process that has the temporary     *)
(* file open while another renames it goes on writing into the store: fd   *)
(* tells which file an open descriptor refers to.                          *)
(*                                                                         *)
(* A store is its master password and its secrets.  Any step may be a      *)
(* command's last: it is killed, or an OSError ends it.                    *)
(***************************************************************************)
EXTENDS Naturals, FiniteSets

CONSTANTS
  Commands,     \* commands, each run once in a process of its own
  Kinds,        \* the kinds of command that are run
  Names,        \* targets
  Values,       \* their Dashboard passwords
  Legacy,       \* Legacy[n]: the password of n in the old .env, or None
  Passwords,    \* master passwords
  None,         \* no file, no secret
  Empty,        \* a file truncated to nothing
  Torn,         \* a file of mixed or partial content
  MaxActors     \* bound on the commands that start in one behaviour

AllKinds == {"set", "rm", "rotate", "init", "migrate"}

ASSUME CommandsAreFinite == IsFiniteSet(Commands)
ASSUME KindsAreKnown == Kinds \subseteq AllKinds
ASSUME LegacyIsEnv == Legacy \in [Names -> Values \cup {None}]
ASSUME NoneIsNothing ==
  /\ None \notin Values \cup Passwords \cup Nat
  /\ "key" \notin Names /\ MaxActors \in Nat

Secrets == [Names -> Values \cup {None}]
Stores == [key : Passwords, data : Secrets]
NoSecrets == [n \in Names |-> None]

ASSUME FilesDiffer ==
  /\ {None, Empty, Torn} \cap Stores = {}
  /\ None # Empty /\ None # Torn /\ Empty # Torn

VARIABLES
  disk,      \* secrets.enc
  tmp,       \* secrets.enc.tmp
  env,       \* whether .env is still there
  config,    \* the targets config.yaml lists; a truncated one reads as none
  kind, pc,
  view,      \* view[c]: the store c holds in memory
  fd,        \* fd[c]: what c's descriptor refers to: "none", "tmp", "disk", "gone"
  todo,      \* todo[c]: the changes c has left
  targets,   \* targets[c]: the list init will write
  own,       \* own[c]: what c has changed in its view (history)
  moved,     \* moved[c]: what was changed on disk since c unlocked it (history)
  good,      \* the last readable store (history)
  imported,  \* names whose password a migration has brought to disk (history)
  listed,    \* targets a completed write has listed (history)
  marred     \* "files", "env", "config": what went wrong (history)

files == <<disk, tmp, env, config>>
local == <<kind, pc, view, fd, todo, targets>>
past == <<own, moved, good, imported, listed, marred>>
storeVars == <<files, local, past>>

Changes == Names \cup {"key"}
Saving == {c \in Commands : pc[c] \in {"open", "written"}}
Busy == {c \in Commands : pc[c] \in {"ready", "open", "written", "listing", "truncated", "leaving"}}
Imported == {n \in Names : Legacy[n] # None}

StoreTypeOK ==
  /\ disk \in Stores \cup {None, Empty, Torn} /\ tmp \in Stores \cup {None, Empty, Torn}
  /\ env \in BOOLEAN /\ config \subseteq Names
  /\ kind \in [Commands -> AllKinds \cup {"none"}]
  /\ pc \in [Commands -> {"idle", "ready", "open", "written", "listing", "truncated", "leaving",
                          "done", "stopped"}]
  /\ view \in [Commands -> Stores \cup {None}]
  /\ fd \in [Commands -> {"none", "tmp", "disk", "gone"}]
  /\ todo \in [Commands -> SUBSET Changes]
  /\ targets \in [Commands -> SUBSET Names]
  /\ own \in [Commands -> SUBSET Changes] /\ moved \in [Commands -> SUBSET Changes]
  /\ good \in Stores \cup {None}
  /\ imported \subseteq Names /\ listed \subseteq Names
  /\ marred \subseteq {"files", "env", "config"}

\* Any store, none, or one that earlier commands have damaged.
StoreInit ==
  /\ good \in Stores \cup {None}
  /\ \/ disk = good /\ marred = {}
     \/ disk = Empty /\ good # None /\ marred = {"files"}
  /\ tmp = None
  /\ env = (Imported # {})
  /\ config = {} /\ listed = {}
  /\ kind = [c \in Commands |-> "none"] /\ pc = [c \in Commands |-> "idle"]
  /\ view = [c \in Commands |-> None]
  /\ fd = [c \in Commands |-> "none"]
  /\ todo = [c \in Commands |-> {}] /\ targets = [c \in Commands |-> {}]
  /\ own = [c \in Commands |-> {}] /\ moved = [c \in Commands |-> {}]
  /\ imported = {}

Started == Cardinality({c \in Commands : pc[c] # "idle"})

-----------------------------------------------------------------------------
\* Seeded fault: a store that cannot be read counts as a new one.
OpensFailOpen(pw) == disk \in Stores => disk.key = pw

\* unlock: a damaged store and a wrong password are refused.
Opens(pw) == disk = None \/ (disk \in Stores /\ disk.key = pw)
Unlocked(pw) == IF disk \in Stores THEN disk ELSE [key |-> pw, data |-> NoSecrets]

\* Seeded fault: init begins with an empty list.
LoadNothing == {}

\* _load_existing_targets.
LoadTargets == config

\* What two commands of one kind may spoil when they overlap.
Overlap(k) ==
  {m \in {"config", "env"} :
     k = (IF m = "config" THEN "init" ELSE "migrate") /\ \E d \in Busy : kind[d] = k}

\* A command begins: it resolves a password and unlocks; init then reads the
\* targets, migrate the .env.
Unlock(c, k, pw, t) ==
  /\ pc[c] = "idle" /\ k \in Kinds
  /\ Opens(pw)
  /\ \/ k = "set" /\ \E n \in Names : t = {n}
     \/ k = "rm" /\ \E n \in Names : t = {n} /\ Unlocked(pw).data[n] # None
     \/ k = "rotate" /\ t = {"key"}
     \/ k = "init" /\ t # {} /\ t \subseteq Names
     \/ k = "migrate" /\ env /\ t = Imported
  /\ kind' = [kind EXCEPT ![c] = k]
  /\ pc' = [pc EXCEPT ![c] = "ready"]
  /\ view' = [view EXCEPT ![c] = Unlocked(pw)]
  /\ todo' = [todo EXCEPT ![c] = t]
  /\ targets' = [targets EXCEPT ![c] = IF k = "init" THEN LoadTargets ELSE {}]
  /\ marred' = marred \cup Overlap(k)
  /\ UNCHANGED <<files, fd, own, moved, good, imported, listed>>

\* The view after one change: set, delete or with_password.
Changed(c, n) ==
  IF n = "key" THEN {[view[c] EXCEPT !.key = pw] : pw \in Passwords}
  ELSE {[view[c] EXCEPT !.data[n] = v] :
          v \in CASE kind[c] = "rm" -> {None}
                  [] kind[c] = "migrate" -> {Legacy[n]}
                  [] OTHER -> Values}

\* Seeded fault: the store itself is opened, in place of a temporary file.
OpenInPlace(c) ==
  /\ disk' = Empty
  /\ fd' = [fd EXCEPT ![c] = "disk"]
  /\ UNCHANGED tmp

\* write_text opens the temporary file, which truncates it for everyone.
OpenTmp(c) ==
  /\ tmp' = Empty
  /\ fd' = [fd EXCEPT ![c] = "tmp"]
  /\ UNCHANGED disk

Open(c) ==
  /\ pc[c] = "ready"
  /\ \E n \in todo[c] :
       /\ view' \in {[view EXCEPT ![c] = s] : s \in Changed(c, n)}
       /\ todo' = [todo EXCEPT ![c] = @ \ {n}]
       /\ own' = [own EXCEPT ![c] = @ \cup {n}]
       /\ targets' = [targets EXCEPT ![c] = IF kind[c] = "init" THEN @ \cup {n} ELSE @]
  /\ OpenTmp(c)
  /\ pc' = [pc EXCEPT ![c] = "open"]
  /\ marred' = IF Saving # {} THEN marred \cup {"files"} ELSE marred
  /\ UNCHANGED <<env, config, kind, moved, good, imported, listed>>

Differs(s, n) ==
  IF n = "key" THEN good = None \/ s.key # good.key
  ELSE s.data[n] # (IF good = None THEN None ELSE good.data[n])

\* What the histories make of a step that may leave another store on disk.
Observe(d) ==
  IF d \in Stores
    THEN /\ good' = d
         /\ moved' = [c \in Commands |->
              IF c \in Busy THEN moved[c] \cup {n \in Changes : Differs(d, n)} ELSE moved[c]]
         /\ imported' = imported \cup
              {n \in Imported : d.data[n] = Legacy[n] /\ \E c \in Commands : kind[c] = "migrate" /\ n \in own[c]}
    ELSE UNCHANGED <<good, moved, imported>>

\* What a write makes of a file that held old: written from its start, one that
\* is not empty keeps a longer content's tail.
Written(c, complete, old) ==
  IF ~complete THEN {Torn} ELSE IF old = Empty THEN {view[c]} ELSE {view[c], Torn}

\* A command goes on at p; its memory goes with it when it ends.
Becomes(c, p) ==
  /\ pc' = [pc EXCEPT ![c] = p]
  /\ IF p \in {"done", "stopped"}
       THEN /\ view' = [view EXCEPT ![c] = None]
            /\ todo' = [todo EXCEPT ![c] = {}] /\ targets' = [targets EXCEPT ![c] = {}]
       ELSE UNCHANGED <<view, todo, targets>>

\* The content goes to the file that the descriptor refers to by now.
Put(c, complete) ==
  /\ pc[c] = "open"
  /\ IF fd[c] = "tmp" THEN tmp' \in Written(c, complete, tmp) ELSE UNCHANGED tmp
  /\ IF fd[c] = "disk" THEN disk' \in Written(c, complete, disk) ELSE UNCHANGED disk
  /\ fd' = [fd EXCEPT ![c] = "none"]
  /\ Observe(disk')
  /\ UNCHANGED <<env, config, kind, own, listed>>

Write(c) ==
  /\ Put(c, TRUE)
  /\ Becomes(c, "written")
  /\ UNCHANGED marred

\* What a command that ends early leaves unfinished.
Marred(c) == (IF pc[c] = "truncated" THEN {"config"} ELSE {}) \cup (IF kind[c] = "migrate" THEN {"env"} ELSE {})

\* The disk is full, or the process dies, with part of the content written.
WriteStops(c) ==
  /\ Put(c, FALSE)
  /\ Becomes(c, "stopped")
  /\ marred' = marred \cup Marred(c)

\* Seeded fault: a migration leaves after its first import.
AfterAny(c) ==
  CASE kind[c] = "init" -> "listing"
    [] kind[c] = "migrate" -> "leaving"
    [] OTHER -> "done"

\* What follows a persisted change.
After(c) ==
  CASE kind[c] = "init" -> "listing"
    [] kind[c] # "init" /\ todo[c] # {} -> "ready"
    [] kind[c] = "migrate" /\ todo[c] = {} -> "leaving"
    [] OTHER -> "done"

\* tmp.replace: whatever the temporary file holds becomes the store.
Replace(c) ==
  /\ pc[c] = "written" /\ tmp # None
  /\ disk' = tmp /\ tmp' = None
  /\ fd' = [d \in Commands |-> CASE fd[d] = "tmp" -> "disk" [] fd[d] = "disk" -> "gone" [] OTHER -> fd[d]]
  /\ Becomes(c, After(c))
  /\ Observe(disk')
  /\ UNCHANGED <<env, config, kind, own, listed, marred>>

\* _write_targets truncates config.yaml and then writes it.
List(c) ==
  /\ pc[c] = "listing"
  /\ config' = {}
  /\ Becomes(c, "truncated")
  /\ UNCHANGED <<disk, tmp, env, kind, fd, past>>

ListEnds(c) ==
  /\ pc[c] = "truncated"
  /\ config' = targets[c]
  /\ listed' = listed \cup targets[c]
  /\ Becomes(c, IF todo[c] = {} THEN "done" ELSE "ready")
  /\ UNCHANGED <<disk, tmp, env, kind, fd, own, moved, good, imported, marred>>

\* migrate_legacy_env gives up the .env when something was imported.
Leave(c) ==
  /\ pc[c] = "leaving" /\ env
  /\ env' = FALSE
  /\ Becomes(c, "done")
  /\ UNCHANGED <<disk, tmp, config, kind, fd, past>>

\* A command ends early: it is killed, a file cannot be opened or written, or
\* the one to be renamed is no longer there.
Stop(c) ==
  /\ c \in Busy
  /\ Becomes(c, "stopped")
  /\ fd' = [fd EXCEPT ![c] = "none"]
  /\ marred' = marred \cup Marred(c)
  /\ UNCHANGED <<files, kind, own, moved, good, imported, listed>>

CommandStep(c) ==
  \/ Open(c) \/ Write(c) \/ WriteStops(c) \/ Replace(c)
  \/ List(c) \/ ListEnds(c) \/ Leave(c) \/ Stop(c)

StoreStep(limit) ==
  \E c \in Commands :
    \/ /\ Started < limit
       /\ \E k \in Kinds, pw \in Passwords, t \in SUBSET Changes : Unlock(c, k, pw, t)
    \/ CommandStep(c)

StoreNext == StoreStep(MaxActors)

StoreSpec == StoreInit /\ [][StoreNext]_storeVars

-----------------------------------------------------------------------------
Savers == IF "files" \in marred THEN Commands ELSE {c \in Commands : pc[c] = "written"}

\* A store that can be read differs from the last one that could be only in
\* what the command that saves it has changed, or in what was changed since it
\* unlocked: a lost update takes an overlap, and a damaged store or the
\* leftover of a killed command is never taken for an empty one.  Once two
\* have saved at the same time, it may be the other's content that one of
\* them makes the store, so it is what any command has changed (unlock,
\* _persist).
WritesAreOwn ==
  [][disk' # disk /\ disk' \in Stores =>
       {n \in Changes : Differs(disk', n)}
         \subseteq (IF good = None THEN {"key"} ELSE {}) \cup UNION {own[c] \cup moved[c] : c \in Savers}]_storeVars

\* The store becomes unreadable only if two commands were saving at once: no
\* crash, and no write that fails half-way, does that by itself (_persist).
DamageNeedsCollision == disk \in {Empty, Torn} => "files" \in marred

\* As long as no two commands have saved at the same time, the .env is given up
\* only after each of its passwords was in the store; and unless a migration
\* has stopped or overlapped another, a password that was imported once does
\* not replace what came after it, except where somebody sets it so or a
\* command overlaps the one that changed it (migrate_legacy_env).
MigrationIsOnce ==
  [][/\ env /\ ~env' /\ "files" \notin marred => Imported \subseteq imported
     /\ {"files", "env"} \cap marred = {} =>
          \A n \in imported :
            disk' # disk /\ disk' \in Stores /\ Differs(disk', n) /\ disk'.data[n] = Legacy[n]
              => \E c \in Savers : n \in moved[c] \/ (kind[c] # "migrate" /\ n \in own[c])]_storeVars

\* config.yaml keeps every target it once listed: it lacks one only while init
\* rewrites it, and for good only if that stopped in between or two inits
\* overlapped (_load_existing_targets, _write_targets).
TargetsAreKept ==
  "config" \notin marred /\ (\A c \in Commands : pc[c] # "truncated") => config = listed
=============================================================================
