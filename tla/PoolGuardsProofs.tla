--------------------------- MODULE PoolGuardsProofs ---------------------------
(***************************************************************************)
(* Theorems about PoolGuards, for any calls, any replica counts and any    *)
(* number of changes by others.                                            *)
(***************************************************************************)
EXTENDS PoolGuards, TLAPS

LEMMA TypeStep == TypeOK /\ [Next]_vars => TypeOK'
<1> SUFFICES ASSUME TypeOK, [Next]_vars PROVE TypeOK'
  OBVIOUS
<1> USE BoundsArePositive DEF TypeOK, Goto, Stages, Ends, pool, request
<1>1. ASSUME NEW n \in Sizes \cup {Absent}, NEW app \in BOOLEAN, NEW by, Change(n, app, by)
      PROVE  /\ size' \in Sizes \cup {Absent} /\ mgr' \in BOOLEAN /\ version' \in Nat
             /\ stale' \subseteq Calls /\ clean' \subseteq Calls
  BY <1>1 DEF Change, Running
<1>2. CASE Other
  <2>1. PICK n \in Sizes \cup {Absent}, app \in BOOLEAN : Change(n, app, {})
    BY <1>2 DEF Other
  <2>. QED BY <1>1, <1>2, <2>1 DEF Other
<1>3. ASSUME NEW c \in Calls, Start(c) \/ Replay(c) PROVE TypeOK'
  <2>1. PICK n \in Sizes \cup {Absent}, preview \in BOOLEAN : \E from \in SUBSET Calls : Begin(c, n, preview, from)
    BY <1>3 DEF Start, Replay
  <2>. QED BY <2>1 DEF Begin
<1>4. ASSUME NEW c \in Calls, GuardProtection(c) PROVE TypeOK'
  BY <1>4 DEF GuardProtection, Passed, Looked
<1>5. ASSUME NEW c \in Calls, GuardDirection(c) PROVE TypeOK'
  BY <1>5 DEF GuardDirection, Passed, Looked
<1>6. ASSUME NEW c \in Calls, ReadPrior(c) \/ WriteRefused(c) PROVE TypeOK'
  <2>1. prior' \in [Calls -> Sizes \cup {Absent}]
    BY <1>6 DEF ReadPrior, WriteRefused
  <2>. QED BY <1>6, <2>1 DEF ReadPrior, WriteRefused
<1>7. ASSUME NEW c \in Calls, Write(c) \/ WriteLost(c) PROVE TypeOK'
  <2>1. token' \subseteq token \cup {c}
    BY <1>7 DEF Write, WriteLost
  <2>2. /\ size' \in Sizes \cup {Absent} /\ mgr' \in BOOLEAN /\ version' \in Nat
        /\ stale' \subseteq Calls /\ clean' \subseteq Calls
    BY <1>1, <1>7 DEF Write, WriteLost
  <2>3. /\ UNCHANGED <<named, others, request, inner, prior, blind>>
        /\ pc' \in [Calls -> Stages \cup Ends]
    BY <1>7 DEF Write, WriteLost
  <2>. QED BY <2>1, <2>2, <2>3
<1>8. CASE UNCHANGED vars
  BY <1>8 DEF vars
<1>. QED BY <1>2, <1>3, <1>4, <1>5, <1>6, <1>7, <1>8 DEF Next

\* The variables keep their types.
THEOREM PoolTypeCorrect == Spec => []TypeOK
<1>1. Init => TypeOK
  BY BoundsArePositive DEF Init, TypeOK, Stages, Sizes
<1>. QED BY <1>1, TypeStep, PTL DEF Spec

-----------------------------------------------------------------------------
\* What a guard that has been passed says of the pool as it was then.
Cleared(c) == size # Absent /\ (named \/ mgr) => want[c] >= size

\* Calls that a guard has let through.
Past(c) == pc[c] \in {"prior", "write"} \/ (pc[c] = "app" /\ c \in inner)

(***************************************************************************)
(* The inductive invariant.  A call that got past a guard fits the pool,   *)
(* unless the pool has changed since or none of its looks at the           *)
(* application was answered; and none gets past to delete a pool whose     *)
(* name protects it.                                                       *)
(***************************************************************************)
Vetted(c) ==
  /\ pc[c] = "idle" => c \notin inner
  /\ pc[c] = "app" /\ c \notin inner => c \in blind
  /\ named /\ want[c] = Absent => pc[c] \notin {"size", "prior", "write"}
  /\ Past(c) /\ c \notin stale /\ (named \/ c \notin blind) => Cleared(c)

AllVetted == TypeOK /\ \A c \in Calls : Vetted(c)

LEMMA VettedStep ==
  ASSUME TypeOK, \A c \in Calls : Vetted(c), [Next]_vars
  PROVE  \A c \in Calls : Vetted(c)'
<1> USE DEF TypeOK, pool, request
\* What one call does to the others: nothing, or it changes the pool under them.
<1>1. ASSUME NEW c \in Calls, UNCHANGED <<named, pc[c], want[c]>>,
             c \in inner <=> c \in inner', c \in blind <=> c \in blind',
             \/ UNCHANGED <<size, mgr>> /\ (c \in stale => c \in stale')
             \/ c \in Running => c \in stale'
      PROVE  Vetted(c)'
  <2>1. Vetted(c)
    OBVIOUS
  <2>. QED BY <1>1, <2>1 DEF Vetted, Past, Cleared, Running, Stages
<1> USE DEF Goto
<1>2. ASSUME NEW c \in Calls, Vetted(c)', UNCHANGED named,
             \A d \in Calls \ {c} :
               /\ UNCHANGED <<pc[d], want[d]>>
               /\ d \in inner <=> d \in inner'
               /\ d \in blind <=> d \in blind'
               /\ \/ UNCHANGED <<size, mgr>> /\ (d \in stale => d \in stale')
                  \/ d \in Running => d \in stale'
      PROVE  \A d \in Calls : Vetted(d)'
  BY <1>1, <1>2
<1>3. CASE Other
  BY <1>1, <1>3 DEF Other, Change
<1>4. ASSUME NEW c \in Calls, Start(c) \/ Replay(c) PROVE \A d \in Calls : Vetted(d)'
  <2>1. PICK n, preview, from : Begin(c, n, preview, from)
    BY <1>4 DEF Start, Replay
  <2>2. Vetted(c)'
    BY <2>1 DEF Begin, Vetted, Past
  <2>. QED BY <1>2, <2>1, <2>2 DEF Begin
<1>5. ASSUME NEW c \in Calls, GuardProtection(c) PROVE \A d \in Calls : Vetted(d)'
  <2>1. Vetted(c)
    OBVIOUS
  <2>2. Vetted(c)'
    BY <1>5, <2>1 DEF GuardProtection, Passed, Looked, Vetted, Past, Cleared
  <2>. QED BY <1>2, <1>5, <2>2 DEF GuardProtection, Passed, Looked
<1>6. ASSUME NEW c \in Calls, GuardDirection(c) PROVE \A d \in Calls : Vetted(d)'
  <2>1. Vetted(c)
    OBVIOUS
  <2>2. Vetted(c)'
    BY <1>6, <2>1 DEF GuardDirection, Passed, Looked, Vetted, Past, Cleared
  <2>. QED BY <1>2, <1>6, <2>2 DEF GuardDirection, Passed, Looked
<1>7. ASSUME NEW c \in Calls, ReadPrior(c) \/ WriteRefused(c) PROVE \A d \in Calls : Vetted(d)'
  <2>1. Vetted(c)
    OBVIOUS
  <2>2. Vetted(c)'
    BY <1>7, <2>1 DEF ReadPrior, WriteRefused, Vetted, Past, Cleared
  <2>. QED BY <1>2, <1>7, <2>2 DEF ReadPrior, WriteRefused
<1>8. ASSUME NEW c \in Calls, Write(c) \/ WriteLost(c) PROVE \A d \in Calls : Vetted(d)'
  <2>1. Vetted(c)'
    BY <1>8 DEF Write, WriteLost, Vetted, Past
  <2>. QED BY <1>2, <1>8, <2>1 DEF Write, WriteLost, Change
<1>9. CASE UNCHANGED vars
  BY <1>1, <1>9 DEF vars
<1>. QED BY <1>3, <1>4, <1>5, <1>6, <1>7, <1>8, <1>9 DEF Next

LEMMA AlwaysVetted == Spec => []AllVetted
<1>1. Init => AllVetted
  <2>1. Init => TypeOK
    BY BoundsArePositive DEF Init, TypeOK, Stages, Sizes
  <2>. QED BY <2>1 DEF AllVetted, Init, Vetted, Past
<1>2. AllVetted /\ [Next]_vars => AllVetted'
  BY TypeStep, VettedStep DEF AllVetted
<1>. QED BY <1>1, <1>2, PTL DEF Spec

LEMMA WritesNeedAPool ==
  ASSUME TypeOK, [Next]_vars, NEW c \in Calls, Writes(c)
  PROVE  size \in Sizes
<1> USE DEF TypeOK, Goto, Writes
<1>1. Write(c) \/ WriteLost(c)
  BY DEF Next, Other, Start, Replay, Begin, GuardProtection, GuardDirection, Passed, ReadPrior, Write,
     WriteRefused, WriteLost, vars, pool
<1>. QED BY <1>1 DEF Write, WriteLost

\* A pool protected by its name is never deleted, and a mgr-owned one only past
\* a guard that could not read it or that it changed under.
THEOREM DeletionGuard == Spec => DeletionIsGuarded
<1> DEFINE Guarded == \A c \in Calls : Writes(c) /\ want[c] = Absent =>
                        ~named /\ (mgr => c \in blind \/ c \in stale)
<1>1. ASSUME AllVetted, [Next]_vars PROVE Guarded
  <2> SUFFICES ASSUME NEW c \in Calls, Writes(c), want[c] = Absent
               PROVE  ~named /\ (mgr => c \in blind \/ c \in stale)
    OBVIOUS
  <2>1. size \in Sizes /\ pc[c] = "write"
    BY <1>1, WritesNeedAPool DEF Writes, AllVetted
  <2>2. size # Absent /\ ~(want[c] >= size)
    BY <2>1, BoundsArePositive DEF Sizes, Absent
  <2>. QED BY <1>1, <2>1, <2>2 DEF AllVetted, Vetted, Past, Cleared
<1>2. AllVetted /\ [Next]_vars => [Guarded]_vars
  BY <1>1
<1>. QED BY <1>2, AlwaysVetted, PTL DEF Spec, DeletionIsGuarded

\* A protected pool shrinks only under a call that was overtaken or never saw
\* that it was protected.
THEOREM ReductionGuard == Spec => ReductionNeedsARace
<1> DEFINE Raced == \A c \in Calls : Writes(c) /\ Protected /\ want[c] < size =>
                      c \in stale \/ (~named /\ c \in blind)
<1>1. ASSUME AllVetted, [Next]_vars PROVE Raced
  <2> SUFFICES ASSUME NEW c \in Calls, Writes(c), Protected, want[c] < size
               PROVE  c \in stale \/ (~named /\ c \in blind)
    OBVIOUS
  <2>1. size \in Sizes /\ pc[c] = "write"
    BY <1>1, WritesNeedAPool DEF Writes, AllVetted
  <2>2. size # Absent /\ ~(want[c] >= size)
    BY <1>1, <2>1, BoundsArePositive DEF AllVetted, TypeOK, Sizes, Absent
  <2>. QED BY <1>1, <2>1, <2>2 DEF AllVetted, Vetted, Past, Cleared, Protected
<1>2. AllVetted /\ [Next]_vars => [Raced]_vars
  BY <1>1
<1>. QED BY <1>2, AlwaysVetted, PTL DEF Spec, ReductionNeedsARace

-----------------------------------------------------------------------------
\* What the guard makes of a pool with size s that is mgr-owned or not.
Locked(app, s, w) ==
  /\ named \/ (s # Absent /\ app)
  /\ w = Absent \/ s = Absent \/ ~(w >= s)

\* A call that has seen one version of the pool only ends as that one wants it.
Says(c, app, s) ==
  /\ pc[c] # "idle" /\ epoch[c] <= version
  /\ c \in Running => epoch[c] = version
  /\ pc[c] = "size" => want[c] # Absent /\ (named \/ (s # Absent /\ app))
  /\ pc[c] \in {"prior", "write", "preview", "ok"} => ~Locked(app, s, want[c])
  /\ pc[c] = "lockout" => Locked(app, s, want[c])

\* owned and sizes are the pool's past, version by version.
Told(owned, sizes) ==
  /\ owned[version] = mgr /\ sizes[version] = size
  /\ \A c \in clean : Says(c, owned[epoch[c]], sizes[epoch[c]])

Pasts == [Nat -> BOOLEAN] \X [Nat -> Sizes \cup {Absent}]

Consistent == TypeOK /\ \E past \in Pasts : Told(past[1], past[2])

LEMMA ToldStays ==
  ASSUME TypeOK, NEW owned, NEW sizes, Told(owned, sizes),
         UNCHANGED <<named, mgr, size, version>>, NEW c \in Calls,
         clean' \subseteq clean \cup {c},
         c \in clean' => Says(c, owned[epoch[c]], sizes[epoch[c]])',
         \A d \in Calls \ {c} : UNCHANGED <<pc[d], want[d], epoch[d]>>
  PROVE  Told(owned, sizes)'
BY DEF Told, Says, Running, Locked, TypeOK

\* The pool's next version is added to its past.
LEMMA ToldGrows ==
  ASSUME TypeOK, NEW past \in Pasts, Told(past[1], past[2]),
         NEW n \in Sizes \cup {Absent}, NEW app \in BOOLEAN, NEW by \in SUBSET Calls, Change(n, app, by),
         UNCHANGED <<named, want, epoch>>,
         \A c \in by : pc[c] = "write" /\ pc'[c] \in {"ok", "lost"},
         \A c \in Calls \ by : pc'[c] = pc[c]
  PROVE  \E later \in Pasts : Told(later[1], later[2])'
<1> PICK v \in Nat : v = version
  BY DEF TypeOK
<1> DEFINE owned == [past[1] EXCEPT ![v + 1] = app]
           sizes == [past[2] EXCEPT ![v + 1] = n]
<1>1. /\ owned \in [Nat -> BOOLEAN] /\ sizes \in [Nat -> Sizes \cup {Absent}]
      /\ owned[v + 1] = app /\ sizes[v + 1] = n
      /\ \A e \in 0 .. v : owned[e] = past[1][e] /\ sizes[e] = past[2][e]
  BY DEF Pasts
<1>2. version' = v + 1 /\ mgr' = app /\ size' = n /\ clean' = clean \ (Running \ by)
  BY DEF Change
<1> HIDE DEF owned, sizes
<1>3. ASSUME NEW c \in clean' PROVE Says(c, owned[epoch[c]], sizes[epoch[c]])'
  <2>1. c \in Calls /\ c \in clean /\ Says(c, past[1][epoch[c]], past[2][epoch[c]])
    BY <1>2 DEF Told, TypeOK
  <2>2. epoch[c] \in 0 .. v /\ epoch'[c] = epoch[c] /\ want'[c] = want[c]
    BY <2>1 DEF Says, TypeOK
  <2>3. owned[epoch[c]] = past[1][epoch[c]] /\ sizes[epoch[c]] = past[2][epoch[c]]
    BY <1>1, <2>2
  <2>4. CASE c \in by
    BY <1>2, <2>1, <2>2, <2>3, <2>4 DEF Says, Locked, Running, Stages
  <2>5. CASE c \notin by
    <3>1. c \notin Running /\ pc'[c] = pc[c]
      BY <1>2, <2>1, <2>5
    <3>. QED BY <1>2, <2>1, <2>2, <2>3, <3>1 DEF Says, Locked, Running
  <2>. QED BY <2>4, <2>5
<1>4. Told(owned, sizes)'
  BY <1>1, <1>2, <1>3 DEF Told
<1>5. <<owned, sizes>> \in Pasts
  BY <1>1 DEF Pasts
<1>. QED BY <1>4, <1>5

LEMMA ConsistentStep == Consistent /\ [Next]_vars => Consistent'
<1> SUFFICES ASSUME Consistent, [Next]_vars PROVE Consistent'
  OBVIOUS
<1>0. TypeOK /\ TypeOK'
  BY TypeStep DEF Consistent
<1> PICK past \in Pasts : Told(past[1], past[2])
  BY DEF Consistent
<1> PICK owned, sizes : owned = past[1] /\ sizes = past[2]
  OBVIOUS
<1>1. ASSUME Told(owned, sizes)' PROVE Consistent'
  BY <1>0, <1>1 DEF Consistent
<1>2. ASSUME NEW c \in clean
      PROVE  /\ c \in Calls /\ Says(c, owned[epoch[c]], sizes[epoch[c]])
             /\ c \in Running => owned[epoch[c]] = mgr /\ sizes[epoch[c]] = size
  BY <1>0 DEF Told, Says, TypeOK
<1> USE DEF Goto, pool, request
<1>3. CASE Other
  <2>1. PICK n \in Sizes \cup {Absent}, app \in BOOLEAN : Change(n, app, {})
    BY <1>3 DEF Other
  <2>. QED BY <1>0, <1>3, <2>1, ToldGrows DEF Other, Consistent
<1>4. ASSUME NEW c \in Calls, Start(c) \/ Replay(c) PROVE Consistent'
  <2>1. PICK n, preview, from : Begin(c, n, preview, from)
    BY <1>4 DEF Start, Replay
  <2>2. Says(c, owned[epoch[c]], sizes[epoch[c]])'
    BY <1>0, <2>1 DEF Begin, Says, TypeOK
  <2>3. clean' = clean \cup {c} /\ \A d \in Calls \ {c} : UNCHANGED <<pc[d], want[d], epoch[d]>>
    BY <1>0, <2>1 DEF Begin, TypeOK
  <2>. QED BY <1>0, <1>1, <2>1, <2>2, <2>3, ToldStays DEF Begin
<1>5. ASSUME NEW c \in Calls, GuardProtection(c) \/ GuardDirection(c) \/ ReadPrior(c) \/ WriteRefused(c)
      PROVE  Consistent'
  <2>1. /\ UNCHANGED <<pool, want, epoch>> /\ clean' \subseteq clean
        /\ \A d \in Calls \ {c} : pc'[d] = pc[d]
    BY <1>0, <1>5 DEF GuardProtection, GuardDirection, ReadPrior, WriteRefused, Passed, Looked, TypeOK
  <2>2. ASSUME c \in clean' PROVE Says(c, owned[epoch[c]], sizes[epoch[c]])'
    <3>1. /\ c \in clean /\ Says(c, owned[epoch[c]], sizes[epoch[c]])
          /\ epoch'[c] = epoch[c] /\ want'[c] = want[c] /\ version' = version /\ named' = named
      BY <1>2, <2>1, <2>2
    <3>2. pc[c] \in {"app", "size", "prior", "write"} /\ c \in Running
      BY <1>5 DEF GuardProtection, GuardDirection, ReadPrior, WriteRefused, Running, Stages
    <3>3. owned[epoch[c]] = mgr /\ sizes[epoch[c]] = size /\ epoch[c] = version /\ version \in Nat
      BY <1>0, <1>2, <3>1, <3>2 DEF Says, TypeOK
    <3>4. /\ pc'[c] \in {"app", "size", "prior", "write", "preview", "lockout", "error"}
          /\ pc'[c] = "size" => want[c] # Absent /\ (named \/ (size # Absent /\ mgr))
          /\ pc'[c] \in {"prior", "write", "preview"} => ~Locked(mgr, size, want[c])
          /\ pc'[c] = "lockout" => Locked(mgr, size, want[c])
      <4>1. CASE GuardProtection(c)
        BY <1>0, <2>2, <3>1, <4>1 DEF GuardProtection, Passed, Looked, Locked, TypeOK
      <4>2. CASE GuardDirection(c)
        BY <1>0, <2>2, <3>1, <3>3, <4>2 DEF GuardDirection, Passed, Looked, Locked, TypeOK, Says
      <4>3. CASE ReadPrior(c)
        BY <1>0, <3>1, <3>3, <4>3 DEF ReadPrior, TypeOK, Says
      <4>4. CASE WriteRefused(c)
        BY <1>0, <4>4 DEF WriteRefused, TypeOK
      <4>. QED BY <1>5, <4>1, <4>2, <4>3, <4>4
    <3>. QED BY <3>1, <3>3, <3>4 DEF Says, Locked
  <2>3. clean' \subseteq clean \cup {c} /\ \A d \in Calls \ {c} : UNCHANGED <<pc[d], want[d], epoch[d]>>
    BY <2>1
  <2>4. UNCHANGED <<named, mgr, size, version>>
    BY <2>1
  <2>. QED BY <1>0, <1>1, <2>2, <2>3, <2>4, ToldStays
<1>6. ASSUME NEW c \in Calls, Write(c) \/ WriteLost(c) PROVE Consistent'
  <2>1. CASE Change(want[c], mgr, {c})
    <3>1. PICK n \in Sizes \cup {Absent}, app \in BOOLEAN : n = want[c] /\ app = mgr
      BY <1>0 DEF TypeOK
    <3>2. Change(n, app, {c})
      BY <2>1, <3>1
    <3>3. /\ UNCHANGED <<named, want, epoch>> /\ pc[c] = "write" /\ pc'[c] \in {"ok", "lost"}
          /\ \A d \in Calls \ {c} : pc'[d] = pc[d]
      BY <1>0, <1>6 DEF Write, WriteLost, TypeOK
    <3>. QED BY <1>0, <3>2, <3>3, ToldGrows DEF Consistent
  <2>2. CASE ~Change(want[c], mgr, {c})
    <3>1. /\ UNCHANGED <<named, size, mgr, version, clean, want, epoch>>
          /\ pc[c] = "write" /\ pc' = [pc EXCEPT ![c] = "lost"]
      BY <1>6, <2>2 DEF Write, WriteLost
    <3>2. pc'[c] = "lost" /\ \A d \in Calls \ {c} : UNCHANGED <<pc[d], want[d], epoch[d]>>
      BY <1>0, <3>1 DEF TypeOK
    <3>3. c \in clean => Says(c, owned[epoch[c]], sizes[epoch[c]])'
      BY <1>2, <3>1, <3>2 DEF Says, Running, Stages
    <3>. QED BY <1>0, <1>1, <3>1, <3>2, <3>3, ToldStays
  <2>. QED BY <2>1, <2>2
<1>7. CASE UNCHANGED vars
  <2>1. Told(owned, sizes)'
    BY <1>7 DEF vars, Told, Says, Running, Locked
  <2>. QED BY <1>1, <2>1
<1>. QED BY <1>3, <1>4, <1>5, <1>6, <1>7 DEF Next

\* A preview and the call it previews agree while the pool stays as it is and
\* answers, for any pool and any number of calls (guard_pool_size,
\* guard_delete_pool, each run by the tool and by the operation).
THEOREM PreviewsAgree == Spec => []PreviewAgrees
<1>1. Init => Consistent
  <2> SUFFICES ASSUME Init PROVE Consistent OBVIOUS
  <2>1. TypeOK
    BY BoundsArePositive DEF Init, TypeOK, Stages, Sizes
  <2> PICK app \in BOOLEAN, n \in Sizes \cup {Absent} : app = mgr /\ n = size
    BY <2>1 DEF TypeOK
  <2>2. <<[v \in Nat |-> app], [v \in Nat |-> n]>> \in Pasts
    BY DEF Pasts
  <2>3. Told([v \in Nat |-> app], [v \in Nat |-> n])
    BY DEF Told, Init
  <2>. QED BY <2>1, <2>2, <2>3 DEF Consistent
<1>2. Consistent => PreviewAgrees
  BY DEF Consistent, Told, Says, PreviewAgrees
<1>. QED BY <1>1, <1>2, ConsistentStep, PTL DEF Spec
=============================================================================
