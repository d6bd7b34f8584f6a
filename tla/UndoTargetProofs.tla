---------------------------- MODULE UndoTargetProofs ----------------------------
(***************************************************************************)
(* Theorems about the target that an undo reaches.                         *)
(***************************************************************************)
EXTENDS UndoTarget, TLAPS

\* A call that was sent went where its target says; while init has not run every
\* process goes by the one list there is, so one without a target to its first.
Addressed ==
  /\ ran \in [Calls -> Given] /\ params \in [Calls -> Given] /\ named \in [Calls -> Given]
  /\ origin \in [Calls -> SUBSET Calls] /\ loaded = [p \in Procs |-> loaded[p]]
  /\ edits \in Nat
  /\ \A c \in Calls : ran[c] # None /\ params[c] # None => ran[c] = params[c]
  /\ edits = 0 =>
       /\ \A p \in Procs : loaded[p] \in {None, config}
       /\ \A c \in Calls : ran[c] # None /\ params[c] = None => ran[c] = Head(config)

\* A replay and its original have both been sent, and its target is the one its
\* caller named, or else its original's.
Paired ==
  \A c \in Calls : \A d \in origin[c] :
    ran[c] # None /\ ran[d] # None /\ params[c] = IF named[c] # None THEN named[c] ELSE params[d]

Inductive == Addressed /\ Paired

\* One call is sent, and nothing about the others changes.
LEMMA SendKeeps ==
  ASSUME None \notin Targets,
         Inductive, NEW c \in Calls, NEW p \in Procs, NEW t \in Given, Send(c, p, t),
         NEW n \in Given, named' = [named EXCEPT ![c] = n],
         NEW o \in SUBSET Calls, origin' = [origin EXCEPT ![c] = o],
         \A d \in o : ran[d] # None /\ t = Chosen(d, n),
         UNCHANGED <<config, edits>>
  PROVE  Inductive'
<1>1. PICK s \in Targets : /\ ran' = [ran EXCEPT ![c] = s]
                           /\ t # None => s = t
                           /\ t = None => s = Head(Known(p))
  BY DEF Send, Reaches
<1>2. s # None /\ s \in Given BY DEF Given
<1>3. ran[c] = None /\ params' = [params EXCEPT ![c] = t] /\ loaded' = [loaded EXCEPT ![p] = Known(p)]
  BY DEF Send
<1>4. Addressed'
  <2>1. edits = 0 => Known(p) = config BY DEF Inductive, Addressed, Known
  <2>2. /\ ran' \in [Calls -> Given] /\ params' \in [Calls -> Given] /\ named' \in [Calls -> Given]
        /\ origin' \in [Calls -> SUBSET Calls] /\ loaded' = [q \in Procs |-> loaded'[q]]
    BY <1>1, <1>2, <1>3 DEF Inductive, Addressed
  <2>3. \A d \in Calls : ran'[d] # None /\ params'[d] # None => ran'[d] = params'[d]
    BY <1>1, <1>3 DEF Inductive, Addressed
  <2>4. edits = 0 => \A q \in Procs : loaded'[q] \in {None, config}
    BY <1>3, <2>1 DEF Inductive, Addressed
  <2>5. edits = 0 => \A d \in Calls : ran'[d] # None /\ params'[d] = None => ran'[d] = Head(config)
    BY <1>1, <1>3, <2>1 DEF Inductive, Addressed
  <2>. QED BY <2>2, <2>3, <2>4, <2>5 DEF Inductive, Addressed
<1>5. Paired'
  <2> SUFFICES ASSUME NEW e \in Calls, NEW d \in origin'[e]
               PROVE  ran'[e] # None /\ ran'[d] # None /\ params'[e] = IF named'[e] # None THEN named'[e] ELSE params'[d]
    BY DEF Paired
  <2>1. d \in Calls BY DEF Inductive, Addressed
  <2>2. CASE e = c
    <3>1. d \in o BY <2>2 DEF Inductive, Addressed
    <3>2. ran[d] # None /\ d # c BY <1>3, <3>1
    <3>. QED BY <1>1, <1>2, <1>3, <2>1, <2>2, <3>1, <3>2 DEF Inductive, Addressed, Chosen
  <2>3. CASE e # c
    <3>1. d \in origin[e] BY <2>3 DEF Inductive, Addressed
    <3>2. ran[e] # None /\ ran[d] # None /\ params[e] = IF named[e] # None THEN named[e] ELSE params[d] BY <3>1 DEF Inductive, Paired
    <3>3. d # c BY <1>3, <3>2
    <3>. QED BY <1>1, <1>3, <2>1, <2>3, <3>2, <3>3 DEF Inductive, Addressed, Chosen
  <2>. QED BY <2>2, <2>3
<1>. QED BY <1>4, <1>5 DEF Inductive

LEMMA TargetStep == None \notin Targets /\ Inductive /\ [Next]_vars => Inductive'
<1> SUFFICES ASSUME None \notin Targets, Inductive, [Next]_vars PROVE Inductive' OBVIOUS
<1>1. ASSUME NEW t \in Targets, Configure(t) PROVE Inductive'
  BY <1>1 DEF Inductive, Addressed, Paired, Configure, Chosen
<1>2. ASSUME NEW p \in Procs, Restart(p) PROVE Inductive'
  BY <1>2 DEF Inductive, Addressed, Paired, Restart, Chosen
<1>3. ASSUME NEW c \in Calls, Write(c) PROVE Inductive'
  <2>1. PICK p \in Procs, t \in Given : Send(c, p, t) /\ named' = [named EXCEPT ![c] = t]
    BY <1>3 DEF Write
  <2>2. origin[c] = {}
    BY <2>1 DEF Send, Inductive, Addressed, Paired
  <2>3. origin' = [origin EXCEPT ![c] = {}] /\ UNCHANGED <<config, edits>>
    BY <1>3, <2>2 DEF Write, Inductive, Addressed
  <2>. QED BY <2>1, <2>3, SendKeeps
<1>4. ASSUME NEW c \in Calls, Replay(c) PROVE Inductive'
  <2>1. PICK d \in Calls, p \in Procs, t \in Given :
          /\ ran[d] # None /\ Send(c, p, Chosen(d, t))
          /\ named' = [named EXCEPT ![c] = t] /\ origin' = [origin EXCEPT ![c] = {d}]
    BY <1>4 DEF Replay
  <2>2. Chosen(d, t) \in Given BY DEF Chosen, Inductive, Addressed
  <2>3. UNCHANGED <<config, edits>> BY <1>4 DEF Replay
  <2>. QED BY <2>1, <2>2, <2>3, SendKeeps
<1>5. CASE UNCHANGED vars
  BY <1>5 DEF vars, Inductive, Addressed, Paired, Chosen
<1>. QED BY <1>1, <1>2, <1>3, <1>4, <1>5 DEF Next

\* For any targets, processes and calls, replays of replays included: a replay
\* goes to the target its caller names, and without one to its original's if the
\* token remembers a target or init has not run (undo_apply, connect).
THEOREM ReplaysGoHomeUnlessMoved == None \notin Targets => (Spec => []ReplayGoesHomeUnlessMoved)
<1> SUFFICES ASSUME None \notin Targets PROVE Spec => []ReplayGoesHomeUnlessMoved OBVIOUS
<1>1. Init => Inductive
  BY DEF Init, Inductive, Addressed, Paired, Given
<1>2. Inductive => ReplayGoesHomeUnlessMoved
  <2> SUFFICES ASSUME Inductive, NEW c \in Calls, NEW d \in origin[c]
               PROVE  /\ named[c] # None => ran[c] = named[c]
                      /\ named[c] = None /\ (params[d] # None \/ edits = 0) => ran[c] = ran[d]
    BY DEF ReplayGoesHomeUnlessMoved
  <2>1. d \in Calls /\ ran[c] # None /\ ran[d] # None /\ params[c] = IF named[c] # None THEN named[c] ELSE params[d]
    BY DEF Inductive, Addressed, Paired
  <2>. QED BY <2>1 DEF Inductive, Addressed, Chosen
<1>3. Inductive /\ [Next]_vars => Inductive' BY TargetStep
<1>. QED BY <1>1, <1>2, <1>3, PTL DEF Spec
=============================================================================
