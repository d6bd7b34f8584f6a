------------------------------ MODULE UndoTarget ------------------------------
(***************************************************************************)
(* Which cluster an undo reaches: the order of the targets in config.yaml, *)
(* which names the default one, the copy of it that each process keeps     *)
(* with its connections, and the target that a token remembers             *)
(* (config.py, connection.py, cli/init.py, mcp_server/_shared.py,          *)
(* mcp_server/tools/undo.py).                                              *)
(*                                                                         *)
(* A target is the cluster it names: init may give it another port or      *)
(* account, not another cluster.  Every write here succeeds and records a  *)
(* token.  None is Python's None: no target given, no configuration read.  *)
(***************************************************************************)
EXTENDS SequencesExt, FiniteSets

CONSTANTS
  Targets,   \* the targets an operator has
  Procs,     \* processes that make calls: the MCP server, commands
  Calls,     \* writes and replays, each made once
  None,
  MaxEdits   \* bound on the runs of init

VARIABLES
  config,    \* the targets of config.yaml, in order
  loaded,    \* loaded[p]: the configuration p's connection manager holds
  ran,       \* ran[c]: the target that call c was sent to
  params,    \* params[c]: the target among c's recorded parameters
  named,     \* named[c]: the target that c's caller named (history)
  origin,    \* origin[c]: the call whose token c replays, as a set
  edits      \* runs of init so far

vars == <<config, loaded, ran, params, named, origin, edits>>

Lists == {s \in BoundedSeq(Targets, Cardinality(Targets)) : IsInjective(s)}
Given == Targets \cup {None}

TypeOK ==
  /\ config \in Lists
  /\ loaded \in [Procs -> Lists \cup {None}]
  /\ ran \in [Calls -> Given] /\ params \in [Calls -> Given] /\ named \in [Calls -> Given]
  /\ origin \in [Calls -> SUBSET Calls]
  /\ edits \in 0 .. MaxEdits

Init ==
  /\ config \in Lists
  /\ loaded = [p \in Procs |-> None]
  /\ ran = [c \in Calls |-> None]
  /\ params = [c \in Calls |-> None]
  /\ named = [c \in Calls |-> None]
  /\ origin = [c \in Calls |-> {}]
  /\ edits = 0

-----------------------------------------------------------------------------
\* init lists a target last, also one that was listed before.
Configure(t) ==
  /\ edits < MaxEdits /\ edits' = edits + 1
  /\ config' = Append(Remove(config, t), t)
  /\ UNCHANGED <<loaded, ran, params, named, origin>>

\* A process ends; the next of its name reads the configuration again.
Restart(p) ==
  /\ loaded' = [loaded EXCEPT ![p] = None]
  /\ UNCHANGED <<config, ran, params, named, origin, edits>>

\* The configuration a process goes by: the one it has read, or reads now.
Known(p) == IF loaded[p] = None THEN config ELSE loaded[p]

\* connect: the target by its name, or the first; none if there is no such.
Reaches(p, t) ==
  {s \in Targets : IF t = None THEN Known(p) # <<>> /\ s = Head(Known(p))
                   ELSE s \in ToSet(Known(p)) /\ s = t}

\* A call with target t is sent to one, and its token keeps t.
Send(c, p, t) ==
  /\ ran[c] = None
  /\ ran' \in {[ran EXCEPT ![c] = reached] : reached \in Reaches(p, t)}
  /\ params' = [params EXCEPT ![c] = t]
  /\ loaded' = [loaded EXCEPT ![p] = Known(p)]

Write(c) ==
  /\ \E p \in Procs, t \in Given :
       /\ Send(c, p, t)
       /\ named' = [named EXCEPT ![c] = t]
  /\ UNCHANGED <<config, origin, edits>>

\* The target of the replay: the one its caller names, or else the one the
\* token keeps.
Chosen(d, t) == IF t # None THEN t ELSE params[d]

\* undo_apply: the inverse is a governed write, with a token of its own.
Replay(c) ==
  /\ \E d \in Calls, p \in Procs, t \in Given :
       /\ ran[d] # None /\ \A e \in Calls : origin[e] # {d}
       /\ Send(c, p, Chosen(d, t))
       /\ named' = [named EXCEPT ![c] = t]
       /\ origin' = [origin EXCEPT ![c] = {d}]
  /\ UNCHANGED <<config, edits>>

Next ==
  \/ \E t \in Targets : Configure(t)
  \/ \E p \in Procs : Restart(p)
  \/ \E c \in Calls : Write(c) \/ Replay(c)

Spec == Init /\ [][Next]_vars

-----------------------------------------------------------------------------
\* "undo apply replays against the target the original write ran on ... An
\* explicitly named target still wins" (CHANGELOG.md): a replay whose caller
\* names no target goes where the original went.
ReplayGoesHome ==
  \A c \in Calls : \A d \in origin[c] : named[c] = None => ran[c] = ran[d]

\* What is left of it: a replay goes to the target its caller names; when none is
\* named it goes where the original went, if the token remembers a target or init
\* has not run (undo_apply, connect).
ReplayGoesHomeUnlessMoved ==
  \A c \in Calls : \A d \in origin[c] :
    /\ named[c] # None => ran[c] = named[c]
    /\ named[c] = None /\ (params[d] # None \/ edits = 0) => ran[c] = ran[d]
=============================================================================
