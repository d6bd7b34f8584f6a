------------------------------ MODULE PoolGuards ------------------------------
(***************************************************************************)
(* set_pool_size and pool_delete with their self-lockout guards            *)
(* (ops/pool.py, mcp_server/tools/pool.py).  The tool runs the guard, then *)
(* returns a preview or calls the operation, which runs the guard again,   *)
(* reads the prior state and writes.  Every read is a request of its own,  *)
(* and the pool may change between any two of them.                        *)
(***************************************************************************)
EXTENDS Integers, FiniteSets

CONSTANTS
  Calls,     \* calls of the two tools and replays, each made once
  MaxSize,   \* replica counts are 1 .. MaxSize
  MaxOthers  \* bound on what others do to the pool

ASSUME BoundsArePositive == MaxSize \in Nat \ {0} /\ MaxOthers \in Nat

Sizes == 1 .. MaxSize
Absent == 0
Stages == {"idle", "app", "size", "prior", "write"}
Ends == {"preview", "lockout", "error", "ok", "lost"}

VARIABLES
  named,   \* the pool is .mgr or .rgw.root, protected by its name
  mgr,     \* its application_metadata marks it mgr-owned
  size,    \* its replica count, Absent when there is no pool
  pc,      \* pc[c]: the request c makes next, or how it ended
  want,    \* want[c]: the size it is to set, Absent to delete the pool
  dry,     \* dry[c]: its dry_run
  inner,   \* calls that are past the tool's own guard
  prior,   \* prior[c]: the size it has read as its prior state, or Absent
  token,   \* calls that have recorded an inverse
  origin,  \* origin[c]: the call whose token it replays, as a set
  blind,   \* calls whose reads of the application have all failed (history)
  stale,   \* calls since whose last answered guard the pool changed (history)
  clean,   \* calls that have seen one state of the pool only (history)
  epoch,   \* epoch[c]: the version of the pool when it began (history)
  version, \* how often the pool has changed
  others   \* how often others have changed it

vars == <<named, mgr, size, pc, want, dry, inner, prior, token, origin, blind,
          stale, clean, epoch, version, others>>
pool == <<named, mgr, size, version, others>>
request == <<want, dry, origin, epoch>>

TypeOK ==
  /\ named \in BOOLEAN /\ mgr \in BOOLEAN
  /\ size \in Sizes \cup {Absent}
  /\ pc \in [Calls -> Stages \cup Ends]
  /\ want \in [Calls -> Sizes \cup {Absent}]
  /\ dry \in [Calls -> BOOLEAN]
  /\ prior \in [Calls -> Sizes \cup {Absent}]
  /\ origin \in [Calls -> SUBSET Calls]
  /\ \A calls \in {inner, token, blind, stale, clean} : calls \subseteq Calls
  /\ epoch \in [Calls -> Nat] /\ version \in Nat
  /\ others \in 0 .. MaxOthers

Init ==
  /\ named \in BOOLEAN /\ mgr \in BOOLEAN
  /\ size \in Sizes
  /\ pc = [c \in Calls |-> "idle"]
  /\ want = [c \in Calls |-> Absent]
  /\ dry = [c \in Calls |-> FALSE]
  /\ prior = [c \in Calls |-> Absent]
  /\ origin = [c \in Calls |-> {}]
  /\ inner = {} /\ token = {} /\ blind = {} /\ stale = {} /\ clean = {}
  /\ epoch = [c \in Calls |-> 0]
  /\ version = 0 /\ others = 0

Goto(c, stage) == pc' = [pc EXCEPT ![c] = stage]
Running == {c \in Calls : pc[c] \in Stages \ {"idle"}}

-----------------------------------------------------------------------------
\* Seeded fault: a preview returns ahead of the guard.
BeginUnguarded(c, n, preview, from) ==
  /\ pc[c] = "idle"
  /\ Goto(c, IF preview THEN "preview" ELSE "app")
  /\ want' = [want EXCEPT ![c] = n]
  /\ dry' = [dry EXCEPT ![c] = preview]
  /\ origin' = [origin EXCEPT ![c] = from]
  /\ epoch' = [epoch EXCEPT ![c] = version]
  /\ blind' = blind \cup {c}
  /\ clean' = clean \cup {c}
  /\ UNCHANGED <<pool, inner, prior, token, stale>>

Begin(c, n, preview, from) ==
  /\ pc[c] = "idle"
  /\ Goto(c, "app")
  /\ want' = [want EXCEPT ![c] = n]
  /\ dry' = [dry EXCEPT ![c] = preview]
  /\ origin' = [origin EXCEPT ![c] = from]
  /\ epoch' = [epoch EXCEPT ![c] = version]
  /\ blind' = blind \cup {c}
  /\ clean' = clean \cup {c}
  /\ UNCHANGED <<pool, inner, prior, token, stale>>

Start(c) ==
  \E n \in Sizes \cup {Absent}, preview \in BOOLEAN : Begin(c, n, preview, {})

\* undo_apply of a set_pool_size.
Replay(c) ==
  \E d \in token :
    /\ \A e \in Calls : d \notin origin[e]
    /\ Begin(c, prior[d], FALSE, {d})

\* The guard lets the call go on: a preview ends here, the tool's own guard is
\* followed by the operation's, and that by the write.
Passed(c) ==
  \/ c \in inner /\ Goto(c, "prior") /\ UNCHANGED inner
  \/ c \notin inner /\ dry[c] /\ Goto(c, "preview") /\ UNCHANGED inner
  \/ c \notin inner /\ ~dry[c] /\ Goto(c, "app") /\ inner' = inner \cup {c}

\* What a guarding read tells the history variables.
Looked(c, answered) ==
  /\ clean' = IF answered THEN clean ELSE clean \ {c}
  /\ stale' = IF answered THEN stale \ {c} ELSE stale

\* Seeded fault: the list of protected names is not looked at.
GuardByApplication(c) ==
  \E answered \in BOOLEAN :
    LET protected == answered /\ size # Absent /\ mgr IN
    /\ pc[c] = "app"
    /\ \/ ~protected /\ Passed(c)
       \/ protected /\ want[c] = Absent /\ Goto(c, "lockout") /\ UNCHANGED inner
       \/ protected /\ want[c] # Absent /\ Goto(c, "size") /\ UNCHANGED inner
    /\ blind' = IF answered THEN blind \ {c} ELSE blind
    /\ Looked(c, answered)
    /\ UNCHANGED <<pool, request, prior, token>>

\* _protection_reason: the name, else the application_metadata; a pool that
\* cannot be read, or is answered without a usable body, counts as not
\* protected.  A protected name needs no request.
GuardProtection(c) ==
  \E answered \in BOOLEAN :
    LET protected == named \/ (answered /\ size # Absent /\ mgr) IN
    /\ pc[c] = "app" /\ (named => answered)
    /\ \/ ~protected /\ Passed(c)
       \/ protected /\ want[c] = Absent /\ Goto(c, "lockout") /\ UNCHANGED inner
       \/ protected /\ want[c] # Absent /\ Goto(c, "size") /\ UNCHANGED inner
    /\ blind' = IF answered THEN blind \ {c} ELSE blind
    /\ Looked(c, answered)
    /\ UNCHANGED <<pool, request, prior, token>>

\* Seeded fault: a size that cannot be read is let through.
GuardDirectionFailsOpen(c) ==
  \E answered \in BOOLEAN :
    /\ pc[c] = "size"
    /\ IF answered => size # Absent /\ want[c] >= size
         THEN Passed(c)
         ELSE Goto(c, "lockout") /\ UNCHANGED inner
    /\ Looked(c, answered)
    /\ UNCHANGED <<pool, request, prior, token, blind>>

\* _current_pool_size: a protected pool whose size cannot be read, or is not in
\* the answer, is not resized, nor is one that would shrink.
GuardDirection(c) ==
  \E answered \in BOOLEAN :
    /\ pc[c] = "size"
    /\ IF answered /\ size # Absent /\ want[c] >= size
         THEN Passed(c)
         ELSE Goto(c, "lockout") /\ UNCHANGED inner
    /\ Looked(c, answered)
    /\ UNCHANGED <<pool, request, prior, token, blind>>

\* Seeded fault: a size that is not in the answer is filed as -1.
ReadPriorSentinel(c) ==
  /\ pc[c] = "prior"
  /\ \/ /\ size # Absent /\ Goto(c, "write")
        /\ \E found \in {size, -1} : prior' = [prior EXCEPT ![c] = found]
     \/ Goto(c, "error") /\ UNCHANGED prior
  /\ UNCHANGED <<pool, request, inner, token, blind, stale, clean>>

\* A 2xx answer without a usable body is {}: the write goes on without a prior.
ReadPrior(c) ==
  /\ pc[c] = "prior"
  /\ \/ /\ size # Absent /\ Goto(c, "write")
        /\ \E found \in {size, Absent} : prior' = [prior EXCEPT ![c] = found]
     \/ Goto(c, "error") /\ UNCHANGED prior
  /\ UNCHANGED <<pool, request, inner, token, blind, stale, clean>>

\* The pool is set to size n; whoever is looking at it is overtaken.
Change(n, app, by) ==
  /\ size' = n
  /\ mgr' = app
  /\ version' = version + 1
  /\ stale' = stale \cup (Running \ by)
  /\ clean' = clean \ (Running \ by)

Write(c) ==
  /\ pc[c] = "write" /\ size # Absent
  /\ Change(want[c], mgr, {c})
  /\ Goto(c, "ok")
  /\ token' \in IF Absent \in {want[c], prior[c]} THEN {token} ELSE {token, token \cup {c}}
  /\ UNCHANGED <<named, others, request, inner, prior, blind>>

WriteRefused(c) ==
  /\ pc[c] = "write"
  /\ Goto(c, "error")
  /\ UNCHANGED <<pool, request, inner, prior, token, blind, stale, clean>>

WriteLost(c) ==
  /\ pc[c] = "write" /\ size # Absent
  /\ \/ Change(want[c], mgr, {c})
     \/ UNCHANGED <<size, mgr, version, stale, clean>>
  /\ Goto(c, "lost")
  /\ UNCHANGED <<named, others, request, inner, prior, token, blind>>

\* Others resize, delete or create the pool, or give it to another application.
Other ==
  /\ others < MaxOthers
  /\ others' = others + 1
  /\ \E n \in Sizes \cup {Absent}, app \in BOOLEAN :
        <<n, app>> # <<size, mgr>> /\ Change(n, app, {})
  /\ UNCHANGED <<named, pc, request, inner, prior, token, blind>>

Next ==
  \/ Other
  \/ \E c \in Calls :
       \/ Start(c) \/ Replay(c)
       \/ GuardProtection(c) \/ GuardDirection(c) \/ ReadPrior(c)
       \/ Write(c) \/ WriteRefused(c) \/ WriteLost(c)

Spec == Init /\ [][Next]_vars

-----------------------------------------------------------------------------
Writes(c) == pc[c] = "write" /\ pc'[c] \in {"ok", "lost"} /\ version' # version
Protected == named \/ mgr

\* A pool protected by its name is never deleted, and one that is mgr-owned is
\* deleted only by a call that could not read it or that it changed under: the
\* guard fails open on a read error, and on nothing else.
DeletionIsGuarded ==
  [][\A c \in Calls : Writes(c) /\ want[c] = Absent =>
       ~named /\ (mgr => c \in blind \/ c \in stale)]_vars

\* A protected pool shrinks only under a call whose guard looked before somebody
\* else's change, or that never saw it was mgr-owned.
ReductionNeedsARace ==
  [][\A c \in Calls : Writes(c) /\ Protected /\ want[c] < size =>
       c \in stale \/ (~named /\ c \in blind)]_vars

\* A preview and the real call agree as long as their reads are answered and
\* the pool is the same: what is locked out for one is locked out for the other
\* (pool.py:324: "the preview and the real call can never disagree").
PreviewAgrees ==
  \A c, d \in clean :
    dry[c] /\ ~dry[d] /\ want[c] = want[d] /\ epoch[c] = epoch[d]
      => /\ ~(pc[c] = "preview" /\ pc[d] = "lockout")
         /\ ~(pc[c] = "lockout" /\ pc[d] = "ok")
=============================================================================
