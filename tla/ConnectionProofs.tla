--------------------------- MODULE ConnectionProofs ---------------------------
(***************************************************************************)
(* Theorems about SecretStore and Connection, for any commands, requests,  *)
(* targets and passwords, however many run at once.                        *)
(***************************************************************************)
EXTENDS Connection, FiniteSetTheorems, TLAPS

\* What a command holds in memory while it runs.
Holds ==
  /\ \A c \in Busy : view[c] \in Stores
  /\ \A c \in Commands : kind[c] = "init" => todo[c] \subseteq Names

StoreTyped == StoreTypeOK /\ Holds

\* A change makes a store of a store, and touches one name or the key only.
LEMMA ChangedIsStore ==
  ASSUME NEW c \in Commands, view[c] \in Stores, NEW n \in Changes, NEW s \in Changed(c, n)
  PROVE  /\ s \in Stores
         /\ n # "key" => s.key = view[c].key
         /\ \A m \in Names \ {n} : s.data[m] = view[c].data[m]
<1>1. CASE n = "key"
  BY <1>1, NoneIsNothing DEF Changed, Stores, Secrets
<1>2. CASE n # "key"
  <2>1. n \in Names
    BY <1>2 DEF Changes
  <2>2. PICK v : s = [view[c] EXCEPT !.data[n] = v] /\ v \in Values \cup {None}
    BY <1>2, <2>1, LegacyIsEnv DEF Changed
  <2>. QED BY <2>1, <2>2 DEF Stores, Secrets
<1>. QED BY <1>1, <1>2

LEMMA StoreTypeStep ==
  ASSUME StoreTyped, NEW c \in Commands,
         \/ \E k \in Kinds, pw \in Passwords, t \in SUBSET Changes : Unlock(c, k, pw, t)
         \/ CommandStep(c)
  PROVE  StoreTyped'
<1> USE DEF StoreTyped, StoreTypeOK, Holds, Busy
<1>1. ASSUME NEW k \in Kinds, NEW pw \in Passwords, NEW t \in SUBSET Changes, Unlock(c, k, pw, t)
      PROVE  StoreTyped'
  <2>1. Unlocked(pw) \in Stores
    BY DEF Unlocked, Stores, Secrets, NoSecrets
  <2>2. k = "init" => t \subseteq Names
    BY <1>1 DEF Unlock
  <2>. QED BY <1>1, <2>1, <2>2, KindsAreKnown DEF Unlock, LoadTargets, files, Overlap
<1>2. ASSUME Open(c) PROVE StoreTyped'
  <2>1. PICK n \in todo[c] : 
             /\ view' \in {[view EXCEPT ![c] = s] : s \in Changed(c, n)}
             /\ todo' = [todo EXCEPT ![c] = @ \ {n}]
             /\ own' = [own EXCEPT ![c] = @ \cup {n}]
             /\ targets' = [targets EXCEPT ![c] = IF kind[c] = "init" THEN @ \cup {n} ELSE @]
    BY <1>2 DEF Open
  <2>2. PICK s \in Changed(c, n) : view' = [view EXCEPT ![c] = s]
    BY <2>1
  <2>3. s \in Stores
    BY <1>2, <2>1, ChangedIsStore DEF Open
  <2>4. kind[c] = "init" => n \in Names
    BY <2>1
  <2>. QED BY <1>2, <2>1, <2>2, <2>3, <2>4 DEF Open, OpenTmp
<1>3. ASSUME NEW d, d \in Stores \cup {None, Empty, Torn}, Observe(d)
      PROVE  /\ good' \in Stores \cup {None} /\ imported' \subseteq Names
             /\ moved' \in [Commands -> SUBSET Changes]
  BY <1>3 DEF Observe, Imported
<1>4. ASSUME NEW p \in {"ready", "written", "listing", "truncated", "leaving", "done", "stopped"},
             Becomes(c, p), c \in Busy, UNCHANGED kind
      PROVE  /\ pc' \in [Commands -> {"idle", "ready", "open", "written", "listing", "truncated",
                                      "leaving", "done", "stopped"}]
             /\ view' \in [Commands -> Stores \cup {None}]
             /\ todo' \in [Commands -> SUBSET Changes]
             /\ targets' \in [Commands -> SUBSET Names]
             /\ Holds'
  BY <1>4 DEF Becomes
<1>5. ASSUME NEW b \in BOOLEAN, Put(c, b)
      PROVE  /\ disk' \in Stores \cup {None, Empty, Torn} /\ tmp' \in Stores \cup {None, Empty, Torn}
             /\ fd' \in [Commands -> {"none", "tmp", "disk", "gone"}]
  BY <1>5 DEF Put, Written
<1>6. ASSUME Write(c) PROVE StoreTyped'
  BY <1>3, <1>4, <1>5, <1>6 DEF Write, Put
<1>7. ASSUME WriteStops(c) PROVE StoreTyped'
  BY <1>3, <1>4, <1>5, <1>7 DEF WriteStops, Put, Marred
<1>8. ASSUME Replace(c) PROVE StoreTyped'
  <2>1. After(c) \in {"listing", "ready", "leaving", "done"}
    BY DEF After
  <2>2. fd' \in [Commands -> {"none", "tmp", "disk", "gone"}]
    BY <1>8 DEF Replace
  <2>3. c \in Busy
    BY <1>8 DEF Replace
  <2>. QED BY <1>3, <1>4, <1>8, <2>1, <2>2, <2>3 DEF Replace
<1>9. ASSUME List(c) PROVE StoreTyped'
  BY <1>4, <1>9 DEF List, past
<1>10. ASSUME ListEnds(c) PROVE StoreTyped'
  BY <1>4, <1>10 DEF ListEnds
<1>11. ASSUME Leave(c) PROVE StoreTyped'
  BY <1>4, <1>11 DEF Leave, past
<1>12. ASSUME Stop(c) PROVE StoreTyped'
  BY <1>4, <1>12 DEF Stop, files, Marred
<1>. QED BY <1>1, <1>2, <1>6, <1>7, <1>8, <1>9, <1>10, <1>11, <1>12 DEF CommandStep

-----------------------------------------------------------------------------
(***************************************************************************)
(* The files.  As long as no two commands save at once, the temporary file *)
(* belongs to the one that saves, from its truncation to its rename.       *)
(***************************************************************************)
Alone ==
  "files" \notin marred =>
    /\ disk \in Stores \cup {None}
    /\ \A c, d \in Saving : c = d
    /\ \A c \in Commands : pc[c] = "open" => fd[c] = "tmp" /\ tmp = Empty
    /\ \A c \in Commands : pc[c] = "written" => tmp = view[c]
    /\ \A c \in Commands : fd[c] # "none" => pc[c] = "open"

\* config.yaml, as long as no two inits overlap and none stops while it writes.
Listing ==
  "config" \notin marred =>
    /\ \A c, d \in Busy : kind[c] = "init" /\ kind[d] = "init" => c = d
    /\ \A c \in Busy : kind[c] = "init" => listed \subseteq targets[c]
    /\ \A c \in Commands : pc[c] \in {"listing", "truncated"} => kind[c] = "init"
    /\ (\A c \in Commands : pc[c] # "truncated") => config = listed

LEMMA AloneStep ==
  ASSUME StoreTyped, Alone, NEW c \in Commands,
         \/ \E k \in Kinds, pw \in Passwords, t \in SUBSET Changes : Unlock(c, k, pw, t)
         \/ CommandStep(c)
  PROVE  Alone'
<1> USE DEF StoreTyped, StoreTypeOK, Holds
<1> SUFFICES ASSUME "files" \notin marred' PROVE Alone'
  BY DEF Alone
<1>1. ASSUME NEW k \in Kinds, NEW pw \in Passwords, NEW t \in SUBSET Changes, Unlock(c, k, pw, t)
      PROVE  Alone'
  BY <1>1 DEF Unlock, files, Alone, Saving, Overlap
<1>2. ASSUME Open(c) PROVE Alone'
  <2>1. Saving = {} /\ UNCHANGED <<disk, marred>>
    BY <1>2 DEF Open, OpenTmp
  <2>2. /\ pc' = [pc EXCEPT ![c] = "open"] /\ fd' = [fd EXCEPT ![c] = "tmp"]
        /\ tmp' = Empty
    BY <1>2 DEF Open, OpenTmp
  <2>. QED BY <2>1, <2>2 DEF Alone, Saving
<1>3. ASSUME NEW b \in BOOLEAN, NEW p, Put(c, b), Becomes(c, p), "files" \notin marred,
             IF b THEN p = "written" ELSE p = "stopped"
      PROVE  Alone'
  <2>1. pc[c] = "open" /\ fd[c] = "tmp" /\ tmp = Empty
    BY <1>3 DEF Put, Alone
  <2>2. UNCHANGED disk /\ tmp' \in Written(c, b, tmp) /\ fd' = [fd EXCEPT ![c] = "none"]
    BY <1>3, <2>1 DEF Put
  <2>3. pc' = [pc EXCEPT ![c] = p] /\ (b => UNCHANGED view)
    BY <1>3 DEF Becomes
  <2>4. b => tmp' = view[c]
    BY <2>1, <2>2 DEF Written
  <2>. QED BY <1>3, <2>1, <2>2, <2>3, <2>4 DEF Alone, Saving
<1>4. ASSUME Write(c) PROVE Alone'
  BY <1>3, <1>4 DEF Write
<1>5. ASSUME WriteStops(c) PROVE Alone'
  BY <1>3, <1>5 DEF WriteStops
<1>6. ASSUME Replace(c) PROVE Alone'
  <2>1. pc[c] = "written" /\ disk' = tmp /\ "files" \notin marred
    BY <1>6 DEF Replace
  <2>2. tmp \in Stores
    BY <2>1 DEF Alone, Busy
  <2>3. \A d \in Commands : fd[d] = "none" /\ pc[d] # "open"
    BY <2>1 DEF Alone, Saving
  <2>4. fd' = fd
    BY <1>6, <2>3 DEF Replace
  <2>5. pc' = [pc EXCEPT ![c] = After(c)] /\ After(c) \notin {"open", "written"}
    BY <1>6 DEF Replace, Becomes, After
  <2>. QED BY <2>1, <2>2, <2>3, <2>4, <2>5 DEF Alone, Saving
<1>7. ASSUME NEW p \in {"truncated", "ready", "done", "stopped"}, Becomes(c, p), UNCHANGED <<disk, tmp>>,
             "files" \notin marred, UNCHANGED fd \/ fd' = [fd EXCEPT ![c] = "none"],
             pc[c] # "open" \/ fd'[c] = "none"
      PROVE  Alone'
  BY <1>7 DEF Becomes, Alone, Saving
<1>8. ASSUME List(c) \/ ListEnds(c) \/ Leave(c) PROVE Alone'
  BY <1>7, <1>8 DEF List, ListEnds, Leave, past
<1>9. ASSUME Stop(c) PROVE Alone'
  BY <1>7, <1>9 DEF Stop, files
<1>. QED BY <1>1, <1>2, <1>4, <1>5, <1>6, <1>8, <1>9 DEF CommandStep

LEMMA ListingStep ==
  ASSUME StoreTyped, Listing, NEW c \in Commands,
         \/ \E k \in Kinds, pw \in Passwords, t \in SUBSET Changes : Unlock(c, k, pw, t)
         \/ CommandStep(c)
  PROVE  Listing'
<1> USE DEF StoreTyped, StoreTypeOK, Holds
<1> SUFFICES ASSUME "config" \notin marred' PROVE Listing'
  BY DEF Listing
<1>1. ASSUME NEW k \in Kinds, NEW pw \in Passwords, NEW t \in SUBSET Changes, Unlock(c, k, pw, t)
      PROVE  Listing'
  <2>1. /\ "config" \notin marred /\ UNCHANGED <<config, listed>>
        /\ kind' = [kind EXCEPT ![c] = k] /\ pc' = [pc EXCEPT ![c] = "ready"] /\ pc[c] = "idle"
        /\ targets' = [targets EXCEPT ![c] = IF k = "init" THEN config ELSE {}]
    BY <1>1 DEF Unlock, files, LoadTargets, Overlap
  <2>2. k = "init" => \A d \in Busy : kind[d] # "init"
    BY <1>1 DEF Unlock, Overlap
  <2>3. k = "init" => config = listed
    BY <2>1, <2>2 DEF Listing, Busy
  <2>. QED BY <2>1, <2>2, <2>3 DEF Listing, Busy
<1>2. ASSUME Open(c) PROVE Listing'
  <2>1. /\ "config" \notin marred /\ UNCHANGED <<config, listed, kind>>
        /\ pc[c] = "ready" /\ pc' = [pc EXCEPT ![c] = "open"]
    BY <1>2 DEF Open
  <2>2. /\ targets[c] \subseteq targets'[c]
        /\ \A d \in Commands \ {c} : targets'[d] = targets[d]
    BY <1>2 DEF Open
  <2>. QED BY <2>1, <2>2 DEF Listing, Busy
<1>3. ASSUME NEW p \in {"written", "listing", "ready", "leaving", "done", "stopped"}, Becomes(c, p),
             UNCHANGED <<config, listed, kind>>, "config" \notin marred, c \in Busy,
             pc[c] # "truncated", p = "listing" => kind[c] = "init"
      PROVE  Listing'
  <2>1. pc' = [pc EXCEPT ![c] = p]
    BY <1>3 DEF Becomes
  <2>2. \A d \in Commands : targets'[d] = targets[d] \/ (d = c /\ p \in {"done", "stopped"})
    BY <1>3 DEF Becomes
  <2>. QED BY <1>3, <2>1, <2>2 DEF Listing, Busy
<1>4. ASSUME Write(c) PROVE Listing'
  BY <1>3, <1>4 DEF Write, Put, Busy
<1>5. ASSUME WriteStops(c) PROVE Listing'
  BY <1>3, <1>5 DEF WriteStops, Put, Busy
<1>6. ASSUME Replace(c) PROVE Listing'
  <2>1. After(c) \in {"listing", "ready", "leaving", "done"} /\ (After(c) = "listing" => kind[c] = "init")
    BY DEF After
  <2>. QED BY <1>3, <1>6, <2>1 DEF Replace, Busy
<1>7. ASSUME List(c) PROVE Listing'
  <2>1. /\ pc[c] = "listing" /\ pc' = [pc EXCEPT ![c] = "truncated"]
        /\ UNCHANGED <<listed, kind, targets, marred>>
    BY <1>7 DEF List, Becomes, past
  <2>. QED BY <2>1 DEF Listing, Busy
<1>8. ASSUME ListEnds(c) PROVE Listing'
  <2>1. /\ pc[c] = "truncated" /\ config' = targets[c] /\ listed' = listed \cup targets[c]
        /\ UNCHANGED <<kind, marred>>
    BY <1>8 DEF ListEnds
  <2>2. PICK p \in {"done", "ready"} : Becomes(c, p)
    BY <1>8 DEF ListEnds
  <2>3. kind[c] = "init" /\ listed \subseteq targets[c]
    BY <2>1 DEF Listing, Busy
  <2>4. config' = listed' /\ (p = "ready" => listed' = targets[c])
    BY <2>1, <2>3
  <2>5. \A d \in Commands : d # c => pc[d] # "truncated" /\ (d \in Busy => kind[d] # "init")
    BY <2>1, <2>3 DEF Listing, Busy
  <2>6. pc' = [pc EXCEPT ![c] = p] /\ (p = "ready" => UNCHANGED targets)
    BY <2>2 DEF Becomes
  <2>. QED BY <2>1, <2>3, <2>4, <2>5, <2>6 DEF Listing, Busy
<1>9. ASSUME Leave(c) PROVE Listing'
  BY <1>3, <1>9 DEF Leave, past, Busy
<1>10. ASSUME Stop(c) PROVE Listing'
  BY <1>3, <1>10 DEF Stop, files, Marred
<1>. QED BY <1>1, <1>2, <1>4, <1>5, <1>6, <1>7, <1>8, <1>9, <1>10 DEF CommandStep

\* A command's store differs from the last readable one only in what it or
\* somebody since has changed.
Accounted(c) ==
  \A n \in Changes : Differs(view[c], n) =>
    n \in own[c] \cup moved[c] \/ (good = None /\ n = "key")

Account == "files" \notin marred => disk = good /\ \A c \in Busy : Accounted(c)

\* WritesAreOwn, as long as no two commands have saved at once.
SavesAreOwn ==
  "files" \notin marred /\ disk' # disk =>
    \E c \in Commands :
      /\ pc[c] = "written"
      /\ \A n \in Changes : Differs(disk', n) => n \in own[c] \cup moved[c] \/ (good = None /\ n = "key")

LEMMA AccountedStays ==
  ASSUME NEW c \in Commands, Accounted(c), UNCHANGED <<good, view[c], own[c], moved[c]>>
  PROVE  Accounted(c)'
BY DEF Accounted, Differs

LEMMA AccountStep ==
  ASSUME StoreTyped, Alone, Account, NEW c \in Commands,
         \/ \E k \in Kinds, pw \in Passwords, t \in SUBSET Changes : Unlock(c, k, pw, t)
         \/ CommandStep(c)
  PROVE  Account' /\ SavesAreOwn
<1> USE DEF StoreTyped, StoreTypeOK, Holds
<1> marred \subseteq marred'
  BY DEF Unlock, CommandStep, Open, Write, WriteStops, Replace, List, ListEnds, Leave, Stop, past
<1> Busy \subseteq Commands /\ Busy' \subseteq Commands
  BY DEF Busy
<1> CASE "files" \in marred
  BY DEF Account, SavesAreOwn
<1> CASE "files" \notin marred
  <2>1. ASSUME UNCHANGED <<disk, good>>,
               \A d \in Commands : d \in Busy' => d \in Busy /\ UNCHANGED <<view[d], own[d], moved[d]>>
        PROVE  Account' /\ SavesAreOwn
    BY <2>1, AccountedStays DEF Account, SavesAreOwn
  <2>2. ASSUME NEW k \in Kinds, NEW pw \in Passwords, NEW t \in SUBSET Changes, Unlock(c, k, pw, t)
        PROVE  Account' /\ SavesAreOwn
    <3>1. UNCHANGED <<disk, good, own, moved>> /\ view' = [view EXCEPT ![c] = Unlocked(pw)]
      BY <2>2 DEF Unlock, files
    <3>2. \A d \in Commands \ {c} : d \in Busy' => d \in Busy
      BY <2>2 DEF Unlock, Busy
    <3>3. disk = good /\ (disk \in Stores \/ disk = None)
      BY DEF Account, Alone
    <3>4. None \notin Stores
      BY FilesDiffer
    <3>5. \A n \in Changes : Differs(Unlocked(pw), n) => good = None /\ n = "key"
      BY <3>3, <3>4, NoneIsNothing DEF Differs, Unlocked, NoSecrets, Changes
    <3>6. Accounted(c)'
      BY <3>1, <3>5 DEF Accounted, Differs
    <3>7. \A d \in Busy : d # c => Accounted(d)'
      BY <3>1 DEF Account, Accounted, Differs
    <3>. QED BY <3>1, <3>2, <3>6, <3>7 DEF Account, SavesAreOwn
  <2>3. ASSUME Open(c) PROVE Account' /\ SavesAreOwn
    <3>1. UNCHANGED <<disk, good, moved>> /\ c \in Busy /\ Busy' = Busy
      BY <2>3 DEF Open, OpenTmp, Busy
    <3>2. PICK n \in todo[c] :
             /\ view' \in {[view EXCEPT ![c] = s] : s \in Changed(c, n)}
             /\ own' = [own EXCEPT ![c] = @ \cup {n}]
      BY <2>3 DEF Open
    <3>3. PICK s \in Changed(c, n) : view' = [view EXCEPT ![c] = s]
      BY <3>2
    <3>4. /\ n # "key" => s.key = view[c].key
          /\ \A m \in Names \ {n} : s.data[m] = view[c].data[m]
      BY <3>1, ChangedIsStore
    <3>5. \A m \in Changes \ {n} : Differs(s, m) => Differs(view[c], m)
      BY <3>4, NoneIsNothing DEF Differs, Changes
    <3>6. Accounted(c)'
      BY <3>1, <3>2, <3>3, <3>5 DEF Account, Accounted, Differs
    <3>7. \A d \in Busy : d # c => Accounted(d)'
      BY <3>1, <3>2, <3>3 DEF Account, Accounted, Differs
    <3>. QED BY <3>1, <3>6, <3>7 DEF Account, SavesAreOwn
  <2>4. ASSUME NEW b \in BOOLEAN, Put(c, b), NEW p, Becomes(c, p), p \in {"written", "stopped"}
        PROVE  Account' /\ SavesAreOwn
    <3>1. UNCHANGED <<disk, own>> /\ pc[c] = "open" /\ Observe(disk)
      BY <2>4 DEF Put, Alone
    <3>2. \A n \in Changes : disk \in Stores => ~Differs(disk, n)
      BY FilesDiffer DEF Account, Differs
    <3>3. UNCHANGED good /\ moved' = moved
      <4>1. CASE disk \in Stores
        <5>1. {n \in Changes : Differs(disk, n)} = {}
          BY <3>2, <4>1
        <5>2. moved' = [d \in Commands |->
                IF d \in Busy THEN moved[d] \cup {n \in Changes : Differs(disk, n)} ELSE moved[d]]
          BY <3>1, <4>1 DEF Observe
        <5>. QED BY <3>1, <4>1, <5>1, <5>2 DEF Observe, Account
      <4>2. CASE disk \notin Stores
        BY <3>1, <4>2 DEF Observe
      <4>. QED BY <4>1, <4>2
    <3>4. \A d \in Commands : d \in Busy' => d \in Busy /\ UNCHANGED view[d]
      BY <2>4, <3>1 DEF Becomes, Busy
    <3>. QED BY <2>1, <3>1, <3>3, <3>4
  <2>5. ASSUME Replace(c) PROVE Account' /\ SavesAreOwn
    <3>1. pc[c] = "written" /\ disk' = view[c] /\ view[c] \in Stores /\ UNCHANGED own
      BY <2>5 DEF Replace, Alone, Busy
    <3>2. /\ good' = view[c]
          /\ moved' = [d \in Commands |->
               IF d \in Busy THEN moved[d] \cup {n \in Changes : Differs(view[c], n)} ELSE moved[d]]
      BY <2>5, <3>1 DEF Replace, Observe
    <3>3. SavesAreOwn
      BY <3>1 DEF SavesAreOwn, Account, Accounted, Busy
    <3>4. \A d \in Commands : d \in Busy' => d \in Busy /\ UNCHANGED view[d]
      <4>1. Becomes(c, After(c))
        BY <2>5 DEF Replace
      <4>2. After(c) = "done" \/ After(c) # "stopped"
        BY DEF After
      <4>. QED BY <3>1, <4>1 DEF Becomes, Busy
    <3>5. ASSUME NEW d \in Busy, NEW n \in Changes, UNCHANGED view[d], Differs(view[d], n)'
          PROVE  n \in own[d] \cup moved'[d]
      <4>1. CASE Differs(view[c], n)
        BY <3>2, <4>1
      <4>2. CASE ~Differs(view[c], n)
        <5>1. Differs(view[d], n)
          BY <3>1, <3>2, <3>5, <4>2, FilesDiffer DEF Differs
        <5>2. ~(good = None /\ n = "key")
          BY <4>2 DEF Differs
        <5>. QED BY <3>2, <5>1, <5>2 DEF Account, Accounted
      <4>. QED BY <4>1, <4>2
    <3>. QED BY <3>1, <3>2, <3>3, <3>4, <3>5 DEF Account, Accounted
  <2>6. ASSUME NEW p \in {"truncated", "ready", "done", "stopped"}, Becomes(c, p), c \in Busy,
               UNCHANGED <<disk, own, moved, good>>
        PROVE  Account' /\ SavesAreOwn
    <3>1. \A d \in Commands : d \in Busy' => d \in Busy /\ UNCHANGED view[d]
      BY <2>6 DEF Becomes, Busy
    <3>. QED BY <2>1, <2>6, <3>1
  <2>7. ASSUME List(c) \/ ListEnds(c) \/ Leave(c) \/ Stop(c) PROVE Account' /\ SavesAreOwn
    BY <2>6, <2>7 DEF List, ListEnds, Leave, Stop, past, files, Busy
  <2>8. ASSUME Write(c) \/ WriteStops(c) PROVE Account' /\ SavesAreOwn
    BY <2>4, <2>8 DEF Write, WriteStops
  <2>. QED BY <2>2, <2>3, <2>5, <2>7, <2>8 DEF CommandStep
<1>. QED OBVIOUS

-----------------------------------------------------------------------------
(***************************************************************************)
(* Migrations.  A command that migrates has imported what it has changed,  *)
(* and has the rest of the .env left; as long as none has stopped or met   *)
(* another, there is one while the .env is there, and what it has brought  *)
(* to disk is still there or was changed under it.                         *)
(***************************************************************************)
Importing(c) ==
  /\ pc[c] = "idle" => own[c] = {}
  /\ pc[c] \in {"listing", "truncated"} => kind[c] = "init"
  /\ pc[c] = "leaving" => kind[c] = "migrate" /\ todo[c] = {}
  /\ kind[c] = "migrate" /\ c \in Busy =>
       todo[c] \cup own[c] = Imported /\ \A n \in own[c] : view[c].data[n] = Legacy[n]
  /\ "files" \notin marred /\ kind[c] = "migrate" /\ pc[c] \in {"ready", "leaving"} => own[c] \subseteq imported

Migrants == {c \in Commands : kind[c] = "migrate"}

Once ==
  "env" \notin marred =>
    /\ \A c \in Migrants : c \in Busy \/ ~env
    /\ \A c, d \in Migrants \cap Busy : c = d
    /\ \A n \in imported : \E c \in Migrants : n \in own[c]
    /\ \A c \in Migrants \cap Busy, n \in imported :
         n \in moved[c] \/ (good \in Stores /\ good.data[n] = Legacy[n])

Migrating == (\A c \in Commands : Importing(c)) /\ Once

\* A step of another command does not reach what a migration knows.
LEMMA ImportingBeside ==
  ASSUME NEW c \in Commands, Importing(c),
         UNCHANGED <<kind[c], pc[c], view[c], todo[c], own[c]>>,
         imported \subseteq imported', marred \subseteq marred'
  PROVE  Importing(c)'
BY DEF Importing, Busy

LEMMA ObserveImports ==
  ASSUME NEW d, Observe(d)
  PROVE  imported \subseteq imported'
BY DEF Observe

LEMMA ImportingStep ==
  ASSUME StoreTyped, Alone, \A d \in Commands : Importing(d), NEW c \in Commands,
         \/ \E k \in Kinds, pw \in Passwords, t \in SUBSET Changes : Unlock(c, k, pw, t)
         \/ CommandStep(c)
  PROVE  \A d \in Commands : Importing(d)'
<1> USE DEF StoreTyped, StoreTypeOK, Holds
<1>1. marred \subseteq marred'
  BY DEF Unlock, CommandStep, Open, Write, WriteStops, Replace, List, ListEnds, Leave, Stop, past
<1>2. imported \subseteq imported'
  BY ObserveImports
  DEF Unlock, CommandStep, Open, Write, WriteStops, Put, Replace, List, ListEnds, Leave, Stop, past
<1>3. \A d \in Commands \ {c} : UNCHANGED <<kind[d], pc[d], view[d], todo[d], own[d]>>
  <2>1. CASE \E k \in Kinds, pw \in Passwords, t \in SUBSET Changes : Unlock(c, k, pw, t)
    BY <2>1 DEF Unlock
  <2>2. CASE Open(c)
    <3>1. PICK n \in todo[c] :
             /\ view' \in {[view EXCEPT ![c] = s] : s \in Changed(c, n)}
             /\ todo' = [todo EXCEPT ![c] = @ \ {n}]
             /\ own' = [own EXCEPT ![c] = @ \cup {n}]
      BY <2>2 DEF Open
    <3>2. PICK s : view' = [view EXCEPT ![c] = s]
      BY <3>1
    <3>. QED BY <2>2, <3>1, <3>2 DEF Open
  <2>3. CASE Write(c) \/ WriteStops(c) \/ Replace(c) \/ List(c) \/ ListEnds(c) \/ Leave(c) \/ Stop(c)
    <3>1. ASSUME NEW p, Becomes(c, p)
          PROVE  \A d \in Commands \ {c} : UNCHANGED <<pc[d], view[d], todo[d]>>
      BY <3>1 DEF Becomes
    <3>2. UNCHANGED <<kind, own>> /\ \E p : Becomes(c, p)
      BY <2>3 DEF Write, WriteStops, Put, Replace, List, ListEnds, Leave, Stop, past
    <3>. QED BY <3>1, <3>2
  <2>. QED BY <2>1, <2>2, <2>3 DEF CommandStep
<1>4. SUFFICES Importing(c)'
  BY <1>1, <1>2, <1>3, ImportingBeside
<1>5. ASSUME NEW k \in Kinds, NEW pw \in Passwords, NEW t \in SUBSET Changes, Unlock(c, k, pw, t)
      PROVE  Importing(c)'
  BY <1>5 DEF Unlock, Importing, Busy
<1>6. CASE Open(c)
  <2>1. PICK n \in todo[c] :
           /\ view' \in {[view EXCEPT ![c] = s] : s \in Changed(c, n)}
           /\ todo' = [todo EXCEPT ![c] = @ \ {n}]
           /\ own' = [own EXCEPT ![c] = @ \cup {n}]
    BY <1>6 DEF Open
  <2>2. PICK s \in Changed(c, n) : view' = [view EXCEPT ![c] = s]
    BY <2>1
  <2>3. /\ pc[c] = "ready" /\ pc' = [pc EXCEPT ![c] = "open"] /\ UNCHANGED kind /\ c \in Busy
    BY <1>6 DEF Open, Busy
  <2>4. ASSUME kind[c] = "migrate"
        PROVE  todo'[c] \cup own'[c] = Imported /\ \A m \in own'[c] : s.data[m] = Legacy[m]
    <3>1. todo[c] \cup own[c] = Imported /\ \A m \in own[c] : view[c].data[m] = Legacy[m]
      BY <2>3, <2>4 DEF Importing
    <3>2. n \in Names /\ n # "key"
      BY <3>1, NoneIsNothing DEF Imported
    <3>3. s = [view[c] EXCEPT !.data[n] = Legacy[n]]
      BY <2>4, <3>2 DEF Changed
    <3>4. s.data[n] = Legacy[n]
      BY <2>3, <3>2, <3>3 DEF Stores, Secrets
    <3>5. \A m \in Names \ {n} : s.data[m] = view[c].data[m]
      BY <2>3, ChangedIsStore
    <3>6. own[c] \subseteq Names
      BY <3>1 DEF Imported
    <3>. QED BY <2>1, <3>1, <3>4, <3>5, <3>6
  <2>. QED BY <2>1, <2>2, <2>3, <2>4 DEF Importing, Busy, Imported
<1>7. CASE Write(c)
  BY <1>7 DEF Write, Put, Becomes, Importing, Busy, Imported
<1>8. CASE WriteStops(c) \/ Stop(c)
  <2>1. pc' = [pc EXCEPT ![c] = "stopped"]
    BY <1>8 DEF WriteStops, Stop, Becomes
  <2>. QED BY <2>1 DEF Importing, Busy
<1>9. CASE Replace(c)
  <2>1. /\ pc[c] = "written" /\ Becomes(c, After(c)) /\ UNCHANGED <<kind, own, marred>>
        /\ Observe(disk') /\ disk' = tmp
    BY <1>9 DEF Replace
  <2>2. CASE kind[c] # "migrate"
    BY <2>1, <2>2 DEF After, Becomes, Importing
  <2>3. CASE kind[c] = "migrate"
    <3>1. /\ After(c) = IF todo[c] = {} THEN "leaving" ELSE "ready"
      BY <2>3 DEF After
    <3>2. /\ todo[c] \cup own[c] = Imported
          /\ \A n \in own[c] : view[c].data[n] = Legacy[n]
      BY <2>1, <2>3 DEF Importing, Busy
    <3>3. UNCHANGED <<view, todo>> /\ pc'[c] = After(c)
      BY <2>1, <3>1 DEF Becomes
    <3>4. "files" \notin marred => own[c] \subseteq imported'
      <4>1. "files" \notin marred => disk' = view[c] /\ view[c] \in Stores
        BY <2>1 DEF Alone, Busy
      <4>. QED BY <2>1, <2>3, <3>2, <4>1 DEF Observe
    <3>. QED BY <2>1, <2>3, <3>1, <3>2, <3>3, <3>4 DEF Importing, Busy, Imported
  <2>. QED BY <2>2, <2>3
<1>10. CASE List(c)
  BY <1>10 DEF List, Becomes, Importing, Busy, past
<1>11. CASE ListEnds(c)
  <2>1. kind[c] = "init"
    BY <1>11 DEF ListEnds, Importing
  <2>. QED BY <1>11, <2>1 DEF ListEnds, Becomes, Importing
<1>12. CASE Leave(c)
  BY <1>12 DEF Leave, Becomes, Importing, Busy, past
<1>. QED BY <1>5, <1>6, <1>7, <1>8, <1>9, <1>10, <1>11, <1>12 DEF CommandStep

\* What an observed store leaves of the bookkeeping.
LEMMA OnceObserved ==
  ASSUME StoreTyped, Once, "env" \notin marred, NEW d, Observe(d)
  PROVE  /\ \A n \in imported' : \E c \in Migrants : n \in own[c]
         /\ \A c \in Migrants \cap Busy, n \in imported' :
              n \in moved'[c] \/ (good' \in Stores /\ good'.data[n] = Legacy[n])
<1> USE DEF StoreTyped, StoreTypeOK
<1>1. CASE d \notin Stores
  BY <1>1 DEF Observe, Once
<1>2. CASE d \in Stores
  <2>1. /\ good' = d
        /\ moved' = [c \in Commands |->
             IF c \in Busy THEN moved[c] \cup {n \in Changes : Differs(d, n)} ELSE moved[c]]
        /\ imported' = imported \cup
             {n \in Imported : d.data[n] = Legacy[n] /\ \E c \in Commands : kind[c] = "migrate" /\ n \in own[c]}
    BY <1>2 DEF Observe
  <2>2. \A n \in imported' : \E c \in Migrants : n \in own[c]
    BY <2>1 DEF Once, Migrants
  <2>3. ASSUME NEW c \in Migrants \cap Busy, NEW n \in imported', n \notin moved'[c]
        PROVE  d.data[n] = Legacy[n]
    <3>1. CASE n \notin imported
      BY <2>1, <3>1
    <3>2. CASE n \in imported
      <4>1. n \in Names /\ n # "key" /\ n \in Changes
        BY <3>2, NoneIsNothing DEF Changes
      <4>2. ~Differs(d, n) /\ n \notin moved[c]
        BY <2>1, <2>3, <4>1 DEF Migrants
      <4>3. good \in Stores /\ good.data[n] = Legacy[n]
        BY <3>2, <4>2 DEF Once
      <4>4. good # None
        BY <4>3, FilesDiffer
      <4>. QED BY <4>1, <4>2, <4>3, <4>4 DEF Differs
    <3>. QED BY <3>1, <3>2
  <2>. QED BY <1>2, <2>1, <2>2, <2>3
<1>. QED BY <1>1, <1>2

LEMMA OnceStep ==
  ASSUME StoreTyped, Migrating, NEW c \in Commands,
         \/ \E k \in Kinds, pw \in Passwords, t \in SUBSET Changes : Unlock(c, k, pw, t)
         \/ CommandStep(c)
  PROVE  Once'
<1> USE DEF StoreTyped, StoreTypeOK
<1> SUFFICES ASSUME "env" \notin marred' PROVE Once'
  BY DEF Once
<1> Once /\ Importing(c)
  BY DEF Migrating
<1>1. ASSUME NEW k \in Kinds, NEW pw \in Passwords, NEW t \in SUBSET Changes, Unlock(c, k, pw, t)
      PROVE  Once'
  <2>1. /\ "env" \notin marred /\ UNCHANGED <<env, own, moved, good, imported>>
        /\ kind' = [kind EXCEPT ![c] = k] /\ pc[c] = "idle" /\ pc' = [pc EXCEPT ![c] = "ready"]
        /\ own[c] = {} /\ (k = "migrate" => env /\ \A d \in Busy : kind[d] # "migrate")
    BY <1>1 DEF Unlock, files, Overlap, Importing
  <2>2. k = "migrate" => Migrants = {} /\ imported = {}
    BY <2>1 DEF Once, Migrants, Busy
  <2>3. CASE k = "migrate"
    <3>1. Migrants' = {c} /\ c \in Busy' /\ imported' = {}
      BY <2>1, <2>2, <2>3 DEF Migrants, Busy
    <3>. QED BY <3>1 DEF Once
  <2>4. CASE k # "migrate"
    <3>1. Migrants' = Migrants \ {c} /\ Migrants' \cap Busy' = (Migrants \ {c}) \cap Busy
      BY <2>1, <2>4 DEF Migrants, Busy
    <3>2. \A d \in Migrants' : d \in Busy => d \in Busy'
      BY <2>1 DEF Busy
    <3>3. \A n \in imported : \E d \in Migrants' : n \in own[d]
      BY <2>1, <3>1 DEF Once
    <3>. QED BY <2>1, <3>1, <3>2, <3>3 DEF Once
  <2>. QED BY <2>3, <2>4
\* A step that does not end a migration, unless it gives up the .env.
<1>2. ASSUME "env" \notin marred, UNCHANGED kind, env' => env,
             \A d \in Commands : own[d] \subseteq own'[d],
             Busy' \subseteq Busy, \A d \in Migrants \cap Busy : d \in Busy' \/ ~env',
             \/ UNCHANGED <<good, moved, imported>>
             \/ Observe(disk')
      PROVE  Once'
  <2>1. Migrants' = Migrants
    BY <1>2 DEF Migrants
  <2>2. /\ \A n \in imported' : \E d \in Migrants : n \in own[d]
        /\ \A d \in Migrants \cap Busy, n \in imported' :
             n \in moved'[d] \/ (good' \in Stores /\ good'.data[n] = Legacy[n])
    BY <1>2, OnceObserved DEF Once
  <2>3. \A n \in imported' : \E d \in Migrants : n \in own'[d]
    BY <1>2, <2>2 DEF Migrants
  <2>4. \A d \in Migrants : d \in Busy' \/ ~env'
    BY <1>2 DEF Once
  <2>5. \A d, e \in Migrants \cap Busy' : d = e
    BY <1>2 DEF Once
  <2>. QED BY <1>2, <2>1, <2>2, <2>3, <2>4, <2>5 DEF Once
<1>3. CASE Open(c)
  <2>1. /\ UNCHANGED <<kind, env, good, moved, imported>> /\ Busy' = Busy
        /\ \A d \in Commands : own[d] \subseteq own'[d]
    BY <1>3 DEF Open, Busy
  <2>2. "env" \notin marred
    BY <1>3 DEF Open
  <2>. QED BY <1>2, <2>1, <2>2
<1>4. ASSUME NEW p \in {"written", "listing", "ready", "leaving", "truncated"}, Becomes(c, p), c \in Busy
      PROVE  Busy' = Busy
  BY <1>4 DEF Becomes, Busy
<1>5. ASSUME NEW p \in {"done", "stopped"}, Becomes(c, p), c \in Busy, kind[c] # "migrate"
      PROVE  Busy' \subseteq Busy /\ \A d \in Migrants \cap Busy : d \in Busy'
  BY <1>5 DEF Becomes, Busy, Migrants
<1>6. CASE Write(c)
  <2>1. Busy' = Busy
    BY <1>4, <1>6 DEF Write, Put, Busy
  <2>. QED BY <1>2, <1>6, <2>1 DEF Write, Put
<1>7. CASE WriteStops(c)
  <2>1. Busy' \subseteq Busy /\ \A d \in Migrants \cap Busy : d \in Busy'
    BY <1>5, <1>7 DEF WriteStops, Put, Busy, Marred
  <2>. QED BY <1>2, <1>7, <2>1 DEF WriteStops, Put
<1>8. CASE Replace(c)
  <2>1. pc[c] = "written" /\ Becomes(c, After(c)) /\ c \in Busy
    BY <1>8 DEF Replace, Busy
  <2>2. After(c) \in {"listing", "ready", "leaving"} \/ (After(c) = "done" /\ kind[c] # "migrate")
    BY DEF After
  <2>3. Busy' \subseteq Busy /\ \A d \in Migrants \cap Busy : d \in Busy'
    BY <1>4, <1>5, <2>1, <2>2
  <2>. QED BY <1>2, <1>8, <2>3 DEF Replace
<1>9. CASE List(c)
  <2>1. Busy' = Busy
    BY <1>4, <1>9 DEF List, Busy
  <2>. QED BY <1>2, <1>9, <2>1 DEF List, past
<1>10. CASE ListEnds(c)
  <2>1. kind[c] # "migrate" /\ c \in Busy
    BY <1>10 DEF ListEnds, Importing, Busy
  <2>2. Busy' \subseteq Busy /\ \A d \in Migrants \cap Busy : d \in Busy'
    BY <1>4, <1>5, <1>10, <2>1 DEF ListEnds
  <2>. QED BY <1>2, <1>10, <2>2 DEF ListEnds
<1>11. CASE Leave(c)
  <2>1. ~env' /\ UNCHANGED <<kind, past>> /\ Busy' \subseteq Busy
    BY <1>11 DEF Leave, Becomes, Busy
  <2>. QED BY <1>2, <2>1 DEF past
<1>12. CASE Stop(c)
  <2>1. Busy' \subseteq Busy /\ \A d \in Migrants \cap Busy : d \in Busy'
    BY <1>5, <1>12 DEF Stop, Marred
  <2>. QED BY <1>2, <1>12, <2>1 DEF Stop, files
<1>. QED BY <1>1, <1>3, <1>6, <1>7, <1>8, <1>9, <1>10, <1>11, <1>12 DEF CommandStep

-----------------------------------------------------------------------------
(***************************************************************************)
(* Every store that a command could make the one on disk differs from the  *)
(* last readable one only in what some command has changed: this holds     *)
(* however many save at once.                                              *)
(***************************************************************************)
Touched == UNION {own[c] \cup moved[c] : c \in Commands}

Unlike(s, g, n) ==
  IF n = "key" THEN g = None \/ s.key # g.key
  ELSE s.data[n] # (IF g = None THEN None ELSE g.data[n])

Explains(s, g, t) ==
  \A n \in Changes : Unlike(s, g, n) => n \in t \/ (g = None /\ n = "key")

Known ==
  /\ disk = None => good = None
  /\ disk \in Stores => Explains(disk, good, Touched)
  /\ tmp \in Stores => Explains(tmp, good, Touched)
  /\ \A c \in Busy : Explains(view[c], good, Touched)

\* WritesAreOwn, however many save at once.
SavesAreTouched ==
  disk' # disk /\ disk' \in Stores =>
    \A n \in Changes : Differs(disk', n) => n \in Touched \/ (good = None /\ n = "key")

LEMMA ExplainsMore ==
  ASSUME NEW s, NEW g, NEW t, NEW u, t \subseteq u, Explains(s, g, t)
  PROVE  Explains(s, g, u)
BY DEF Explains

\* Another store on disk explains as much, with what it differs in itself.
LEMMA ExplainsAnew ==
  ASSUME NEW s \in Stores, NEW g \in Stores \cup {None}, NEW h \in Stores, NEW t, NEW u, t \subseteq u,
         Explains(s, g, t), {n \in Changes : Unlike(h, g, n)} \subseteq u
  PROVE  Explains(s, h, u)
<1>1. h # None
  BY FilesDiffer
<1>2. ASSUME NEW n \in Changes, Unlike(s, h, n) PROVE n \in u
  <2>1. CASE Unlike(h, g, n)
    BY <1>2, <2>1
  <2>2. CASE ~Unlike(h, g, n)
    <3>1. Unlike(s, g, n)
      BY <1>1, <1>2, <2>2 DEF Unlike
    <3>2. ~(g = None /\ n = "key")
      BY <2>2 DEF Unlike
    <3>. QED BY <3>1, <3>2 DEF Explains
  <2>. QED BY <2>1, <2>2
<1>. QED BY <1>2 DEF Explains

LEMMA KnownStep ==
  ASSUME StoreTyped, Known, NEW c \in Commands,
         \/ \E k \in Kinds, pw \in Passwords, t \in SUBSET Changes : Unlock(c, k, pw, t)
         \/ CommandStep(c)
  PROVE  Known' /\ SavesAreTouched
<1> USE DEF StoreTyped, StoreTypeOK, Holds
<1>1. ASSUME NEW s \in Stores, Explains(s, good, Touched), c \in Busy,
             \A d \in Commands : own[d] \subseteq own'[d],
             UNCHANGED <<good, moved>> \/ Observe(disk')
      PROVE  Explains(s, good', Touched')
  <2>1. CASE UNCHANGED <<good, moved>>
    <3>1. Touched \subseteq Touched'
      BY <1>1, <2>1 DEF Touched
    <3>. QED BY <1>1, <2>1, <3>1, ExplainsMore
  <2>2. CASE Observe(disk') /\ disk' \in Stores
    <3>1. /\ good' = disk'
          /\ moved' = [d \in Commands |->
               IF d \in Busy THEN moved[d] \cup {n \in Changes : Differs(disk', n)} ELSE moved[d]]
      BY <2>2 DEF Observe
    <3>2. \A n : Differs(disk', n) <=> Unlike(disk', good, n)
      BY DEF Differs, Unlike
    <3>3. Touched \subseteq Touched'
      BY <1>1, <3>1 DEF Touched
    <3>4. {n \in Changes : Unlike(disk', good, n)} \subseteq moved'[c]
      BY <1>1, <3>1, <3>2
    <3>5. moved'[c] \subseteq Touched'
      BY DEF Touched
    <3>. QED BY <1>1, <2>2, <3>1, <3>3, <3>4, <3>5, ExplainsAnew
  <2>. QED BY <1>1, <2>1, <2>2 DEF Observe
\* A step that only moves stores about.
<1>2. ASSUME c \in Busy, \A d \in Commands : own[d] \subseteq own'[d],
             UNCHANGED <<good, moved>> \/ Observe(disk'),
             disk' \in {disk, view[c], Torn} \/ (disk' = tmp /\ tmp # None),
             tmp' \in {tmp, view[c], Torn, Empty, None},
             \A d \in Commands : d \in Busy' => d \in Busy /\ UNCHANGED view[d]
      PROVE  Known' /\ SavesAreTouched
  <2>1. disk' \in Stores => Explains(disk', good, Touched)
    BY <1>2, FilesDiffer DEF Known
  <2>2. tmp' \in Stores => Explains(tmp', good, Touched)
    BY <1>2, FilesDiffer DEF Known
  <2>3. \A d \in Busy' : view'[d] \in Stores /\ Explains(view'[d], good, Touched)
    BY <1>2 DEF Known, Busy
  <2>4. /\ disk' \in Stores => Explains(disk', good', Touched')
        /\ tmp' \in Stores => Explains(tmp', good', Touched')
        /\ \A d \in Busy' : Explains(view'[d], good', Touched')
    BY <1>1, <1>2, <2>1, <2>2, <2>3
  <2>5. disk' = None => good' = None
    <3>1. disk' = None => disk = None
      BY <1>2, FilesDiffer DEF Busy
    <3>. QED BY <1>2, <3>1, FilesDiffer DEF Known, Observe
  <2>6. SavesAreTouched
    BY <2>1 DEF SavesAreTouched, Explains, Unlike, Differs
  <2>. QED BY <2>4, <2>5, <2>6 DEF Known
<1>3. ASSUME NEW k \in Kinds, NEW pw \in Passwords, NEW t \in SUBSET Changes, Unlock(c, k, pw, t)
      PROVE  Known' /\ SavesAreTouched
  <2>1. /\ UNCHANGED <<disk, tmp, good, own, moved>> /\ view' = [view EXCEPT ![c] = Unlocked(pw)]
        /\ disk = None \/ disk \in Stores
    BY <1>3 DEF Unlock, files, Opens
  <2>2. Touched' = Touched
    BY <2>1 DEF Touched
  <2>3. Explains(Unlocked(pw), good, Touched)
    <3>1. CASE disk \in Stores
      BY <3>1 DEF Unlocked, Known
    <3>2. CASE disk \notin Stores
      <4>1. good = None /\ Unlocked(pw) = [key |-> pw, data |-> NoSecrets]
        BY <2>1, <3>2 DEF Unlocked, Known
      <4>. QED BY <4>1, NoneIsNothing DEF Explains, Unlike, NoSecrets, Changes
    <3>. QED BY <3>1, <3>2
  <2>4. \A d \in Commands : d # c /\ d \in Busy' => d \in Busy /\ view'[d] = view[d]
    BY <1>3, <2>1 DEF Unlock, Busy
  <2>5. \A d \in Busy' : Explains(view'[d], good, Touched)
    BY <2>1, <2>3, <2>4 DEF Known, Busy
  <2>. QED BY <2>1, <2>2, <2>5 DEF Known, SavesAreTouched
<1>4. CASE Open(c)
  <2>1. UNCHANGED <<disk, good, moved>> /\ tmp' = Empty /\ c \in Busy /\ Busy' = Busy
    BY <1>4 DEF Open, OpenTmp, Busy
  <2>2. PICK n \in todo[c] :
           /\ view' \in {[view EXCEPT ![c] = s] : s \in Changed(c, n)}
           /\ own' = [own EXCEPT ![c] = @ \cup {n}]
    BY <1>4 DEF Open
  <2>3. PICK s \in Changed(c, n) : view' = [view EXCEPT ![c] = s]
    BY <2>2
  <2>4. /\ n # "key" => s.key = view[c].key
        /\ \A m \in Names \ {n} : s.data[m] = view[c].data[m]
    BY <2>1, ChangedIsStore
  <2>5. \A m \in Changes \ {n} : Unlike(s, good, m) => Unlike(view[c], good, m)
    BY <2>4, NoneIsNothing DEF Unlike, Changes
  <2>6. Touched \subseteq Touched' /\ n \in Touched'
    BY <2>1, <2>2 DEF Touched
  <2>7. Explains(s, good, Touched')
    BY <2>1, <2>5, <2>6 DEF Known, Explains
  <2>8. \A d \in Busy' : Explains(view'[d], good, Touched')
    BY <2>1, <2>3, <2>6, <2>7, ExplainsMore DEF Known, Busy
  <2>9. disk \in Stores => Explains(disk, good, Touched')
    BY <2>6, ExplainsMore DEF Known
  <2>. QED BY <2>1, <2>8, <2>9, FilesDiffer DEF Known, SavesAreTouched
<1>5. ASSUME NEW b \in BOOLEAN, Put(c, b), NEW p \in {"written", "stopped"}, Becomes(c, p)
      PROVE  Known' /\ SavesAreTouched
  <2>1. /\ c \in Busy /\ UNCHANGED own /\ Observe(disk')
        /\ disk' \in {disk, view[c], Torn} /\ tmp' \in {tmp, view[c], Torn}
    BY <1>5 DEF Put, Written, Busy
  <2>2. \A d \in Commands : d \in Busy' => d \in Busy /\ UNCHANGED view[d]
    BY <1>5, <2>1 DEF Becomes, Busy
  <2>. QED BY <1>2, <2>1, <2>2
<1>6. CASE Replace(c)
  <2>1. /\ c \in Busy /\ UNCHANGED own /\ Observe(disk') /\ disk' = tmp /\ tmp # None /\ tmp' = None
        /\ Becomes(c, After(c))
    BY <1>6 DEF Replace, Busy
  <2>2. After(c) # "stopped"
    BY DEF After
  <2>3. \A d \in Commands : d \in Busy' => d \in Busy /\ UNCHANGED view[d]
    BY <2>1, <2>2 DEF Becomes, Busy
  <2>. QED BY <1>2, <2>1, <2>3
<1>7. ASSUME NEW p \in {"truncated", "ready", "done", "stopped"}, Becomes(c, p), c \in Busy,
             UNCHANGED <<disk, tmp, own, moved, good>>
      PROVE  Known' /\ SavesAreTouched
  <2>1. \A d \in Commands : d \in Busy' => d \in Busy /\ UNCHANGED view[d]
    BY <1>7 DEF Becomes, Busy
  <2>. QED BY <1>2, <1>7, <2>1
<1>8. CASE List(c) \/ ListEnds(c) \/ Leave(c) \/ Stop(c)
  BY <1>7, <1>8 DEF List, ListEnds, Leave, Stop, past, files, Busy
<1>9. CASE Write(c) \/ WriteStops(c)
  BY <1>5, <1>9 DEF Write, WriteStops
<1>. QED BY <1>3, <1>4, <1>6, <1>8, <1>9 DEF CommandStep

-----------------------------------------------------------------------------
Safe == StoreTyped /\ Alone /\ Listing /\ Account /\ Migrating /\ Known

\* What is shown of every step.
Saves == SavesAreOwn /\ SavesAreTouched

LEMMA SafeInit == StoreInit => Safe
<1> SUFFICES ASSUME StoreInit PROVE Safe
  OBVIOUS
<1>1. StoreTyped /\ Alone /\ Listing /\ Account
  BY LegacyIsEnv, FilesDiffer, NoneIsNothing
  DEF StoreInit, StoreTyped, StoreTypeOK, Holds, Busy, Alone, Saving, Listing, Account, Accounted
<1>2. Migrating
  BY DEF StoreInit, Migrating, Importing, Once, Migrants, Busy
<1>3. Known
  <2>1. Busy = {} /\ tmp \notin Stores
    BY FilesDiffer DEF StoreInit, Busy
  <2>2. disk = None => good = None
    BY FilesDiffer DEF StoreInit
  <2>3. disk \in Stores => Explains(disk, good, Touched)
    BY FilesDiffer DEF StoreInit, Explains, Unlike
  <2>. QED BY <2>1, <2>2, <2>3 DEF Known
<1>. QED BY <1>1, <1>2, <1>3 DEF Safe

LEMMA SafeStutter == Safe /\ UNCHANGED storeVars => Safe' /\ Saves
<1> SUFFICES ASSUME Safe, UNCHANGED storeVars PROVE Safe' /\ Saves
  OBVIOUS
<1> USE DEF storeVars, files, local, past
<1>1. StoreTyped'
  BY DEF Safe, StoreTyped, StoreTypeOK, Holds, Busy
<1>2. Alone' /\ Listing'
  BY DEF Safe, Alone, Listing, Saving, Busy
<1>3. Account' /\ Saves
  BY DEF Safe, Account, Accounted, Differs, Busy, Saves, SavesAreOwn, SavesAreTouched
<1>4. Migrating'
  <2>1. (\A c \in Commands : Importing(c))'
    BY DEF Safe, Migrating, Importing, Busy
  <2>2. Once'
    BY DEF Safe, Migrating, Once, Migrants, Busy
  <2>. QED BY <2>1, <2>2 DEF Migrating
<1>5. Known'
  BY DEF Safe, Known, Touched, Busy
<1>. QED BY <1>1, <1>2, <1>3, <1>4, <1>5 DEF Safe

LEMMA SafeStep ==
  ASSUME Safe, NEW limit, StoreStep(limit)
  PROVE  Safe' /\ Saves
<1> PICK c \in Commands :
         \/ \E k \in Kinds, pw \in Passwords, t \in SUBSET Changes : Unlock(c, k, pw, t)
         \/ CommandStep(c)
  BY DEF StoreStep
<1>1. StoreTyped' /\ Alone' /\ Listing'
  BY StoreTypeStep, AloneStep, ListingStep DEF Safe
<1>2. Account' /\ SavesAreOwn /\ Known' /\ SavesAreTouched
  BY AccountStep, KnownStep DEF Safe
<1>3. Migrating'
  BY ImportingStep, OnceStep DEF Safe, Migrating
<1>. QED BY <1>1, <1>2, <1>3 DEF Safe, Saves

LEMMA SafeBeside == Safe /\ [ConnectionNext]_allVars => Safe' /\ Saves
<1> SUFFICES ASSUME Safe, [ConnectionNext]_allVars PROVE Safe' /\ Saves
  OBVIOUS
<1>1. CASE StoreStep(Alongside)
  BY <1>1, SafeStep
<1>2. CASE UNCHANGED storeVars
  BY <1>2, SafeStutter
<1>3. StoreStep(Alongside) \/ UNCHANGED storeVars
  BY DEF ConnectionNext, allVars, Wake, Expire, ChangeAccount, Request, Connect, Create, Header,
     Password, PasswordRead, Login, LoginBlank, LoginEnds, LoginFails, Send, Serve, Retry
<1>. QED BY <1>1, <1>2, <1>3

LEMMA AlwaysSafe == ConnectionSpec => []Safe
<1>1. ConnectionInit => Safe
  BY SafeInit DEF ConnectionInit
<1>2. Safe /\ [ConnectionNext]_allVars => Safe'
  BY SafeBeside
<1>. QED BY <1>1, <1>2, PTL DEF ConnectionSpec

\* The server reads the store and never writes it: with its requests and threads
\* beside them, the commands still take only their own steps (_get_store, connect).
THEOREM ServerLeavesTheStore == ConnectionSpec => StoreSpec
<1>1. ConnectionInit => StoreInit
  BY DEF ConnectionInit
<1>2. Asked \in Nat /\ Started \in Nat
  BY RequestsAreFinite, CommandsAreFinite, FS_Subset, FS_CardinalityType DEF Asked, Started
<1>3. [ConnectionNext]_allVars => [StoreNext]_storeVars
  <2> SUFFICES ASSUME [ConnectionNext]_allVars PROVE [StoreNext]_storeVars
    OBVIOUS
  <2>1. CASE StoreStep(Alongside)
    <3>1. Started < Alongside => Started < MaxActors
      BY <1>2, NoneIsNothing DEF Alongside
    <3>. QED BY <2>1, <3>1 DEF StoreStep, StoreNext
  <2>2. StoreStep(Alongside) \/ UNCHANGED storeVars
    BY DEF ConnectionNext, allVars, Wake, Expire, ChangeAccount, Request, Connect, Create, Header,
       Password, PasswordRead, Login, LoginBlank, LoginEnds, LoginFails, Send, Serve, Retry
  <2>. QED BY <2>1, <2>2
<1>. QED BY <1>1, <1>3, PTL DEF ConnectionSpec, StoreSpec

\* The store becomes unreadable only if two commands were saving at once.
THEOREM DamageTakesTwo == ConnectionSpec => []DamageNeedsCollision
<1>1. Safe => DamageNeedsCollision
  BY FilesDiffer DEF Safe, Alone, DamageNeedsCollision
<1>. QED BY <1>1, AlwaysSafe, PTL

\* config.yaml keeps the targets it has listed.
THEOREM TargetsStay == ConnectionSpec => []TargetsAreKept
<1>1. Safe => TargetsAreKept
  BY DEF Safe, Listing, TargetsAreKept
<1>. QED BY <1>1, AlwaysSafe, PTL

\* A readable store differs from the last one only in what the command that
\* saves it, or somebody since its unlock, has changed; after a collision, in
\* what any command has changed.
THEOREM LostUpdateTakesTwo == ConnectionSpec => WritesAreOwn
<1>1. ASSUME Safe, Saves
      PROVE  disk' # disk /\ disk' \in Stores =>
               {n \in Changes : Differs(disk', n)}
                 \subseteq (IF good = None THEN {"key"} ELSE {}) \cup UNION {own[c] \cup moved[c] : c \in Savers}
  <2>1. CASE "files" \in marred
    BY <1>1, <2>1 DEF Saves, SavesAreTouched, Touched, Savers
  <2>2. CASE "files" \notin marred
    BY <1>1, <2>2 DEF Saves, SavesAreOwn, Savers
  <2>. QED BY <2>1, <2>2
<1>2. Safe /\ [ConnectionNext]_allVars =>
        [disk' # disk /\ disk' \in Stores =>
           {n \in Changes : Differs(disk', n)}
             \subseteq (IF good = None THEN {"key"} ELSE {}) \cup UNION {own[c] \cup moved[c] : c \in Savers}]_storeVars
  BY <1>1, SafeBeside
<1>. QED BY <1>2, AlwaysSafe, PTL DEF ConnectionSpec, WritesAreOwn

\* The .env goes only after its passwords have come, and comes back over no
\* later one.
THEOREM MigrationImportsOnce == ConnectionSpec => MigrationIsOnce
<1>1. ASSUME Safe, StoreStep(Alongside), env, ~env', "files" \notin marred
      PROVE  Imported \subseteq imported
  <2>1. PICK c \in Commands : Leave(c)
    <3>1. PICK c \in Commands :
             \/ \E k \in Kinds, pw \in Passwords, t \in SUBSET Changes : Unlock(c, k, pw, t)
             \/ CommandStep(c)
      BY <1>1 DEF StoreStep
    <3>2. ~Open(c) /\ \A k, pw, t : ~Unlock(c, k, pw, t)
      BY <1>1 DEF Unlock, Open, files
    <3>3. ~Write(c) /\ ~WriteStops(c) /\ ~Replace(c)
      BY <1>1 DEF Write, WriteStops, Put, Replace
    <3>4. ~List(c) /\ ~ListEnds(c) /\ ~Stop(c)
      BY <1>1 DEF List, ListEnds, Stop, files
    <3>. QED BY <3>1, <3>2, <3>3, <3>4 DEF CommandStep
  <2>2. Importing(c) /\ pc[c] = "leaving" /\ c \in Busy
    BY <1>1, <2>1 DEF Safe, Migrating, Leave, Busy
  <2>. QED BY <1>1, <2>2 DEF Importing
<1>2. ASSUME Safe, SavesAreOwn, {"files", "env"} \cap marred = {}, NEW n \in imported,
             disk' # disk, disk' \in Stores, Differs(disk', n), disk'.data[n] = Legacy[n]
      PROVE  \E c \in Savers : n \in moved[c] \/ (kind[c] # "migrate" /\ n \in own[c])
  <2>1. n \in Names /\ n # "key" /\ n \in Changes
    BY <1>2, NoneIsNothing DEF Safe, StoreTyped, StoreTypeOK, Changes
  <2>2. PICK c \in Commands : pc[c] = "written" /\ n \in own[c] \cup moved[c]
    BY <1>2, <2>1 DEF SavesAreOwn
  <2>3. c \in Savers /\ c \in Busy
    BY <1>2, <2>2 DEF Savers, Busy
  <2>4. kind[c] = "migrate" => n \in moved[c]
    <3>1. ASSUME kind[c] = "migrate", n \notin moved[c] PROVE FALSE
      <4>1. good \in Stores /\ good.data[n] = Legacy[n]
        BY <1>2, <2>3, <3>1 DEF Safe, Migrating, Once, Migrants
      <4>2. good # None
        BY <4>1, FilesDiffer
      <4>. QED BY <1>2, <2>1, <4>1, <4>2 DEF Differs
    <3>. QED BY <3>1
  <2>. QED BY <2>2, <2>3, <2>4
<1>3. Safe /\ [ConnectionNext]_allVars =>
        [/\ env /\ ~env' /\ "files" \notin marred => Imported \subseteq imported
         /\ {"files", "env"} \cap marred = {} =>
              \A n \in imported :
                disk' # disk /\ disk' \in Stores /\ Differs(disk', n) /\ disk'.data[n] = Legacy[n]
                  => \E c \in Savers : n \in moved[c] \/ (kind[c] # "migrate" /\ n \in own[c])]_storeVars
  <2> SUFFICES ASSUME Safe, [ConnectionNext]_allVars, storeVars' # storeVars
      PROVE  /\ env /\ ~env' /\ "files" \notin marred => Imported \subseteq imported
             /\ {"files", "env"} \cap marred = {} =>
                  \A n \in imported :
                    disk' # disk /\ disk' \in Stores /\ Differs(disk', n) /\ disk'.data[n] = Legacy[n]
                      => \E c \in Savers : n \in moved[c] \/ (kind[c] # "migrate" /\ n \in own[c])
    OBVIOUS
  <2>1. StoreStep(Alongside)
    BY DEF ConnectionNext, allVars, Wake, Expire, ChangeAccount, Request, Connect, Create, Header,
       Password, PasswordRead, Login, LoginBlank, LoginEnds, LoginFails, Send, Serve, Retry
  <2>2. SavesAreOwn
    BY SafeBeside DEF Saves
  <2>. QED BY <1>1, <1>2, <2>1, <2>2
<1>. QED BY <1>3, AlwaysSafe, PTL DEF ConnectionSpec, MigrationIsOnce

-----------------------------------------------------------------------------
(***************************************************************************)
(* The requests.                                                           *)
(***************************************************************************)
Steps == {"idle", "create", "header", "password", "login", "issued", "send", "sent", "again", "done"}
OnConnection == {"header", "password", "login", "issued", "send", "sent", "again"}

RequestTyped ==
  /\ up \in BOOLEAN /\ account \in Values \cup {None} /\ cached \in Stores \cup {None}
  /\ up => account \in Values /\ target \in Names
  /\ tokens \in Nat /\ EmptyToken \notin valid
  /\ table \in Conns \cup {None} /\ token \in [Conns -> Nat \cup {None}]
  /\ conn \in [Requests -> Conns \cup {None}] /\ rpc \in [Requests -> Steps]
  /\ header \in [Requests -> Nat \cup {None}]
  /\ retry \in [Requests -> BOOLEAN] /\ secret \in [Requests -> Values \cup {None}]
  /\ outcome \in [Requests -> Outcomes] /\ landed \in [Requests -> Nat]
  /\ upset \subseteq Requests /\ stale \subseteq Requests
  /\ \A r \in Requests : rpc[r] \in OnConnection => conn[r] \in Conns
  /\ \A r \in Requests : rpc[r] # "idle" => up

\* Nothing has happened before the end, and the end says what did.
Landing(r) ==
  /\ rpc[r] # "done" => landed[r] = 0 /\ outcome[r] = "none"
  /\ landed[r] <= 1
  /\ outcome[r] = "ok" => landed[r] = 1
  /\ outcome[r] \notin {"ok", "lost"} => landed[r] = 0

\* An undisturbed second attempt goes out with a token that is accepted, and
\* the token that a login has brought is there.
Undisturbed(r) ==
  r \notin upset =>
    /\ ~retry[r] /\ rpc[r] \in OnConnection \ {"again"} => token[conn[r]] \in valid \cup {None}
    /\ ~retry[r] /\ rpc[r] = "send" => token[conn[r]] \in valid
    /\ ~retry[r] /\ rpc[r] = "sent" => header[r] \in valid
    /\ rpc[r] = "issued" => token[conn[r]] \notin {None, EmptyToken}
    /\ outcome[r] \notin {"unauthorized", "no token"}

\* Who logs in with another password than the account's knows an older one.
Informed(r) ==
  r \notin stale =>
    /\ rpc[r] = "login" => secret[r] = account
    /\ outcome[r] # "refused"

Sound(r) ==
  /\ Landing(r) /\ Undisturbed(r) /\ Informed(r)
  /\ rpc[r] \in {"idle", "create", "again"} => retry[r]

Requesting == RequestTyped /\ \A r \in Requests : Sound(r)

\* What the others do to a request: they log in anew, or clear or spoil its
\* token, but then it is upset; they never change what is its own.
Beside(r) ==
  /\ UNCHANGED <<rpc[r], conn[r], header[r], retry[r], secret[r], outcome[r], landed[r], account>>
  /\ r \in upset => r \in upset'
  /\ r \in stale => r \in stale'
  /\ r \in upset' \/ valid \subseteq valid' \/ retry[r]
  /\ \/ r \in upset' \/ conn[r] \notin Conns
     \/ token'[conn[r]] = token[conn[r]]
     \/ token'[conn[r]] \in valid' \ {None, EmptyToken}
     \/ retry[r] /\ rpc[r] # "issued"

LEMMA SoundBeside ==
  ASSUME NEW r \in Requests, conn[r] \in Conns \/ rpc[r] \notin OnConnection, Sound(r), Beside(r)
  PROVE  Sound(r)'
BY DEF Beside, Sound, Landing, Undisturbed, Informed, OnConnection

LEMMA ResolvedPassword ==
  ASSUME NEW read, disk \in Stores, StoreOpened(read) = {disk}, disk.data[target] = account, account \in Values
  PROVE  ~NoPassword(read) /\ Resolve(read) = account
<1>1. disk # None /\ account # None
  BY FilesDiffer, NoneIsNothing
<1>2. (CHOOSE s \in StoreOpened(read) : TRUE) = disk
  OBVIOUS
<1>3. Resolve(read) = account
  BY <1>1, <1>2 DEF Resolve
<1>4. ~WrongMaster(read)
  BY FilesDiffer DEF WrongMaster, StoreOpened
<1>. QED BY <1>1, <1>3, <1>4 DEF NoPassword

LEMMA Resolvable ==
  ASSUME NEW read, target \in Names, cached \in Stores \cup {None}
  PROVE  /\ Resolve(read) \in Values \cup {None}
         /\ StoreOpened(read) # {} => (CHOOSE s \in StoreOpened(read) : TRUE) \in Stores
<1>1. StoreOpened(read) \subseteq Stores
  BY DEF StoreOpened
<1>2. StoreOpened(read) # {} => (CHOOSE s \in StoreOpened(read) : TRUE) \in StoreOpened(read)
  OBVIOUS
<1>. QED BY <1>1, <1>2, PlainIsValue DEF Resolve, Stores, Secrets

LEMMA RequestTypedStep ==
  ASSUME Requesting, [ConnectionNext]_allVars
  PROVE  RequestTyped'
<1> USE DEF Requesting, RequestTyped, Goto, End, Drop, server, dashboard, shared, thread
<1>1. CASE UNCHANGED connVars
  BY <1>1 DEF connVars
<1>2. CASE Wake
  <2>1. PICK v \in Values \cup {None} :
             cached' \in {None, [key |-> master', data |-> [n \in Names |-> v]]}
    BY <1>2 DEF Wake
  <2>2. cached' \in Stores \cup {None}
    <3>1. master' \in Passwords /\ [n \in Names |-> v] \in Secrets
      BY <1>2 DEF Wake, Secrets
    <3>2. [key |-> master', data |-> [n \in Names |-> v]] \in Stores
      BY <3>1 DEF Stores
    <3>. QED BY <2>1, <3>2
  <2>. QED BY <1>2, <2>2 DEF Wake, Conns, EmptyToken
<1>3. CASE Expire
  BY <1>3 DEF Expire
<1>4. CASE ChangeAccount
  BY <1>4 DEF ChangeAccount
<1> USE DEF Steps, OnConnection
<1>5. ASSUME NEW r \in Requests, Connect(r) PROVE RequestTyped'
  BY <1>5 DEF Connect, Lookup
<1>6. ASSUME NEW r \in Requests, Create(r) PROVE RequestTyped'
  BY <1>6 DEF Create, Conns
<1>7. ASSUME NEW r \in Requests, Header(r) PROVE RequestTyped'
  BY <1>7 DEF Header
<1>8. ASSUME NEW r \in Requests, Password(r) PROVE RequestTyped'
  <2>0. PICK read \in BOOLEAN : PasswordRead(r, read)
    BY <1>8 DEF Password
  <2>1. Resolve(read) \in Values \cup {None} /\ cached' \in Stores \cup {None}
    BY <2>0, Resolvable DEF PasswordRead
  <2>2. CASE NoPassword(read)
    BY <2>0, <2>1, <2>2 DEF PasswordRead, Outcomes
  <2>3. CASE ~NoPassword(read)
    BY <2>0, <2>1, <2>3 DEF PasswordRead
  <2>. QED BY <2>2, <2>3
<1>9. ASSUME NEW r \in Requests, Login(r) PROVE RequestTyped'
  BY <1>9 DEF Login, EmptyToken
<1>15. ASSUME NEW r \in Requests, LoginBlank(r) PROVE RequestTyped'
  <2>1. PICK t \in {None, EmptyToken, token[conn[r]]} : token' = [token EXCEPT ![conn[r]] = t]
    BY <1>15 DEF LoginBlank
  <2>2. token' \in [Conns -> Nat \cup {None}] /\ conn[r] \in Conns
    BY <1>15, <2>1 DEF LoginBlank, EmptyToken
  <2>. QED BY <1>15, <2>2 DEF LoginBlank, Outcomes, Robbed
<1>10. ASSUME NEW r \in Requests, LoginEnds(r) PROVE RequestTyped'
  BY <1>10 DEF LoginEnds, Outcomes
<1>11. ASSUME NEW r \in Requests, LoginFails(r) PROVE RequestTyped'
  BY <1>11 DEF LoginFails, Outcomes
<1>12. ASSUME NEW r \in Requests, Send(r) PROVE RequestTyped'
  BY <1>12 DEF Send
<1>13. ASSUME NEW r \in Requests, Serve(r) PROVE RequestTyped'
  <2>1. PICK a \in {"ok", "lost", "error", "401"} : Answer(r, {a})
    BY <1>13 DEF Serve, Answer
  <2>2. /\ \E l \in {"again", "done"} : rpc' = [rpc EXCEPT ![r] = l]
        /\ \/ UNCHANGED outcome
           \/ \E o \in Outcomes : outcome' = [outcome EXCEPT ![r] = o]
    BY <2>1 DEF Answer, Outcomes
  <2>3. landed' \in [Requests -> Nat] /\ header' = [header EXCEPT ![r] = None] /\ rpc[r] = "sent"
    BY <1>13 DEF Serve
  <2>4. rpc' \in [Requests -> Steps] /\ outcome' \in [Requests -> Outcomes]
    BY <2>2
  <2>5. header' \in [Requests -> Nat \cup {None}]
    BY <2>3
  <2>6. /\ UNCHANGED <<up, target, account, cached, tokens, valid, table, token, conn, retry, secret, upset, stale>>
        /\ \A q \in Requests : rpc'[q] \in OnConnection => rpc[q] \in OnConnection
        /\ \A q \in Requests : rpc'[q] # "idle" => rpc[q] # "idle"
    BY <1>13, <2>2, <2>3 DEF Serve
  <2>. QED BY <2>3, <2>4, <2>5, <2>6
<1>14. ASSUME NEW r \in Requests, Retry(r) PROVE RequestTyped'
  BY <1>14 DEF Retry, ClearToken, Robbed
<1>. QED
  BY <1>1, <1>2, <1>3, <1>4, <1>5, <1>6, <1>7, <1>8, <1>9, <1>10, <1>11, <1>12, <1>13, <1>14, <1>15
  DEF ConnectionNext, Request, allVars, connVars

LEMMA SoundStep ==
  ASSUME Requesting, [ConnectionNext]_allVars
  PROVE  \A r \in Requests : Sound(r)'
<1> RequestTyped /\ RequestTyped'
  BY RequestTypedStep DEF Requesting
<1>0. \A r \in Requests : Sound(r) /\ (conn[r] \in Conns \/ rpc[r] \notin OnConnection)
  BY DEF Requesting, RequestTyped
<1> USE DEF RequestTyped, server, dashboard, shared, thread
<1>1. CASE UNCHANGED connVars
  <2>1. ASSUME NEW r \in Requests PROVE Sound(r)'
    <3>1. Sound(r) /\ UNCHANGED <<thread, account, valid, token>>
      BY <1>1 DEF Requesting, connVars
    <3>2. Beside(r)
      BY <3>1 DEF Beside
    <3>. QED BY <1>0, <3>2, SoundBeside
  <2>. QED BY <2>1
<1>2. CASE Wake
  <2>1. \A r \in Requests : rpc[r] = "idle"
    BY <1>2 DEF Wake
  <2>2. UNCHANGED thread
    BY <1>2 DEF Wake
  <2>. QED BY <2>1, <2>2 DEF Requesting, Sound, Landing, Undisturbed, Informed, OnConnection
<1>3. CASE Expire
  <2>1. ASSUME NEW r \in Requests PROVE r \in upset' \/ retry[r]
    BY <1>3 DEF Expire, Requesting, Sound
  <2>2. UNCHANGED <<conn, rpc, header, retry, secret, outcome, landed, stale, account, token>>
    BY <1>3 DEF Expire
  <2>3. ASSUME NEW r \in Requests PROVE Sound(r)'
    <3>1. Sound(r) /\ (r \in upset => r \in upset')
      BY <1>3 DEF Requesting, Expire
    <3>2. Beside(r)
      BY <2>1, <2>2, <3>1 DEF Beside
    <3>. QED BY <1>0, <3>2, SoundBeside
  <2>. QED BY <2>3
<1>4. CASE ChangeAccount
  BY <1>4 DEF ChangeAccount, Requesting, Sound, Landing, Undisturbed, Informed
<1> USE DEF Goto, End, Drop
\* Of the steps of a request, only logins and a retry reach the others.
<1>5. ASSUME NEW r \in Requests, UNCHANGED <<account, valid, token>>, Sound(r)',
             \A q \in Requests \ {r} :
               /\ UNCHANGED <<rpc[q], conn[q], header[q], retry[q], secret[q], outcome[q], landed[q]>>
               /\ (q \in upset <=> q \in upset') /\ (q \in stale <=> q \in stale')
      PROVE  \A q \in Requests : Sound(q)'
  <2>1. ASSUME NEW q \in Requests, q # r PROVE Sound(q)'
    <3>1. Beside(q)
      BY <1>5, <2>1 DEF Beside
    <3>. QED BY <1>0, <3>1, SoundBeside
  <2>. QED BY <1>5, <2>1
<1>6. ASSUME NEW r \in Requests,
             Connect(r) \/ Create(r) \/ Header(r) \/ LoginEnds(r) \/ LoginFails(r) \/ Send(r)
      PROVE  \A q \in Requests : Sound(q)'
  <2>1. Sound(r)
    BY DEF Requesting
  <2>2. /\ UNCHANGED <<account, valid, token, stale, upset>>
        /\ \A q \in Requests \ {r} :
             UNCHANGED <<rpc[q], conn[q], header[q], retry[q], secret[q], outcome[q], landed[q]>>
    BY <1>6 DEF Connect, Create, Header, LoginEnds, LoginFails, Send
  <2>3. SUFFICES Sound(r)'
    BY <1>5, <2>2
  <2> USE DEF Sound, Landing, Undisturbed, Informed, OnConnection
  <2>4. CASE Connect(r)
    BY <2>1, <2>4 DEF Connect, Lookup
  <2>5. CASE Create(r)
    BY <2>1, <2>5 DEF Create
  <2>6. CASE Header(r)
    BY <2>1, <2>6 DEF Header
  <2>7. CASE LoginEnds(r)
    <3>1. CASE token[conn[r]] \in {None, EmptyToken}
      BY <2>1, <2>7, <3>1 DEF LoginEnds
    <3>2. CASE token[conn[r]] \notin {None, EmptyToken}
      BY <2>1, <2>7, <3>2 DEF LoginEnds
    <3>. QED BY <3>1, <3>2
  <2>8. CASE LoginFails(r)
    BY <2>1, <2>8 DEF LoginFails
  <2>9. CASE Send(r)
    BY <2>1, <2>9 DEF Send
  <2>. QED BY <1>6, <2>4, <2>5, <2>6, <2>7, <2>8, <2>9
<1>7. ASSUME NEW r \in Requests, Password(r) PROVE \A q \in Requests : Sound(q)'
  <2>0. PICK read \in BOOLEAN : PasswordRead(r, read)
    BY <1>7 DEF Password
  <2>1. /\ UNCHANGED <<account, valid, token, conn, header, retry, landed, upset>>
        /\ rpc[r] = "password" /\ Sound(r)
    BY <2>0 DEF PasswordRead, Requesting
  <2>2. \A q \in Requests \ {r} :
          /\ UNCHANGED <<rpc[q], secret[q], outcome[q]>>
          /\ q \in stale <=> q \in stale'
    BY <2>0 DEF PasswordRead
  <2>3. CASE NoPassword(read)
    <3>1. rpc'[r] = "done" /\ outcome'[r] = "no password" /\ UNCHANGED <<secret, stale>>
      BY <2>0, <2>3 DEF PasswordRead
    <3>. QED BY <1>5, <2>1, <2>2, <3>1 DEF Sound, Landing, Undisturbed, Informed, OnConnection
  <2>4. CASE ~NoPassword(read)
    <3>1. rpc'[r] = "login" /\ secret'[r] = Resolve(read) /\ UNCHANGED outcome
      BY <2>0, <2>4 DEF PasswordRead
    <3>2. r \notin stale' => Resolve(read) = account
      BY <2>0, <2>1, <2>4, ResolvedPassword DEF PasswordRead
    <3>. QED BY <1>5, <2>1, <2>2, <3>1, <3>2 DEF Sound, Landing, Undisturbed, Informed, OnConnection
  <2>. QED BY <2>3, <2>4
<1>8. ASSUME NEW r \in Requests, Login(r) PROVE \A q \in Requests : Sound(q)'
  <2>1. /\ UNCHANGED <<account, conn, header, retry, outcome, landed, upset, stale>>
        /\ valid \subseteq valid'
        /\ \A x \in Conns : token'[x] = token[x] \/ token'[x] \in valid' \ {None, EmptyToken}
    BY <1>8, NoneIsNothing DEF Login, EmptyToken
  <2>2. Sound(r)'
    <3>1. rpc[r] = "login" /\ rpc'[r] = "issued" /\ Sound(r) /\ conn[r] \in Conns
      BY <1>8 DEF Login, Requesting, OnConnection
    <3>2. token'[conn[r]] \in valid' \ {None, EmptyToken}
      BY <1>8, <3>1, NoneIsNothing DEF Login, EmptyToken
    <3>. QED BY <2>1, <3>1, <3>2 DEF Sound, Landing, Undisturbed, Informed, OnConnection
  <2>3. ASSUME NEW q \in Requests, q # r PROVE Sound(q)'
    <3>1. Sound(q) /\ UNCHANGED <<rpc[q], secret[q]>>
      BY <1>8, <2>3 DEF Login, Requesting
    <3>2. conn[q] \notin Conns \/ token'[conn[q]] = token[conn[q]] \/ token'[conn[q]] \in valid' \ {None, EmptyToken}
      BY <2>1
    <3>3. Beside(q)
      BY <2>1, <3>1, <3>2 DEF Beside
    <3>. QED BY <1>0, <3>3, SoundBeside
  <2>. QED BY <2>2, <2>3
<1>9. ASSUME NEW r \in Requests, Serve(r) PROVE \A q \in Requests : Sound(q)'
  <2>1. /\ UNCHANGED <<account, valid, token, conn, retry, secret, upset, stale>>
        /\ rpc[r] = "sent" /\ Sound(r)
        /\ \A q \in Requests \ {r} : UNCHANGED <<rpc[q], header[q], outcome[q], landed[q]>>
    BY <1>9 DEF Serve, Answer, Requesting
  <2>2. PICK a \in {"ok", "lost", "error", "401"} :
             /\ Answer(r, {a})
             /\ a = "ok" => landed'[r] = landed[r] + 1
             /\ a = "lost" => landed'[r] \in {landed[r], landed[r] + 1}
             /\ a \in {"error", "401"} => landed'[r] = landed[r]
             /\ a = "401" => header[r] \notin valid
    BY <1>9 DEF Serve, Answer
  <2>3. \/ a = "401" /\ retry[r] /\ rpc'[r] = "again" /\ UNCHANGED outcome
        \/ a = "401" /\ ~retry[r] /\ rpc'[r] = "done" /\ outcome'[r] = "unauthorized"
        \/ a # "401" /\ rpc'[r] = "done" /\ outcome'[r] = a
    BY <2>2 DEF Answer, Retries
  <2>4. Landing(r)'
    BY <2>1, <2>2, <2>3 DEF Sound, Landing
  <2>5. Undisturbed(r)' /\ Informed(r)'
    BY <2>1, <2>2, <2>3 DEF Sound, Undisturbed, Informed, OnConnection
  <2>6. Sound(r)'
    BY <2>1, <2>3, <2>4, <2>5 DEF Sound
  <2>. QED BY <1>5, <2>1, <2>6
<1>10. ASSUME NEW r \in Requests, Retry(r) PROVE \A q \in Requests : Sound(q)'
  <2>1. /\ UNCHANGED <<account, valid, conn, header, secret, outcome, landed, stale>>
        /\ token' = [token EXCEPT ![conn[r]] = None]
        /\ rpc[r] = "again" /\ rpc'[r] = "header" /\ ~retry'[r] /\ conn[r] \in Conns /\ Sound(r)
    BY <1>10 DEF Retry, ClearToken, Requesting, OnConnection
  <2>2. Sound(r)'
    BY <2>1 DEF Sound, Landing, Undisturbed, Informed, OnConnection
  <2>3. ASSUME NEW q \in Requests, q # r PROVE Sound(q)'
    <3>1. Sound(q) /\ UNCHANGED <<rpc[q], retry[q]>>
      BY <1>10, <2>3 DEF Retry, Requesting
    <3>2. /\ q \in upset => q \in upset'
          /\ conn[q] = conn[r] /\ (~retry[q] \/ rpc[q] = "issued") => q \in upset'
      BY <1>10, <2>3 DEF Retry, Robbed
    <3>3. conn[q] # conn[r] /\ conn[q] \in Conns => token'[conn[q]] = token[conn[q]]
      BY <2>1
    <3>4. Beside(q)
      BY <2>1, <3>1, <3>2, <3>3 DEF Beside
    <3>. QED BY <1>0, <3>4, SoundBeside
  <2>. QED BY <2>2, <2>3
<1>11. ASSUME NEW r \in Requests, LoginBlank(r) PROVE \A q \in Requests : Sound(q)'
  <2>1. /\ UNCHANGED <<account, valid, conn, header, retry, landed, stale>>
        /\ rpc[r] = "login" /\ rpc'[r] = "done" /\ outcome'[r] = "tokenless" /\ Sound(r)
        /\ upset \subseteq upset'
    BY <1>11 DEF LoginBlank, Requesting
  <2>2. Sound(r)'
    BY <2>1 DEF Sound, Landing, Undisturbed, Informed, OnConnection
  <2>3. ASSUME NEW q \in Requests, q # r PROVE Sound(q)'
    <3>1. Sound(q) /\ UNCHANGED <<rpc[q], secret[q], outcome[q]>>
      BY <1>11, <2>3 DEF LoginBlank, Requesting
    <3>2. conn[q] = conn[r] /\ (~retry[q] \/ rpc[q] = "issued") => q \in upset'
      BY <1>11, <2>3 DEF LoginBlank, Robbed
    <3>3. conn[q] # conn[r] /\ conn[q] \in Conns => token'[conn[q]] = token[conn[q]]
      BY <1>11 DEF LoginBlank
    <3>4. Beside(q)
      BY <2>1, <3>1, <3>2, <3>3 DEF Beside
    <3>. QED BY <1>0, <3>4, SoundBeside
  <2>. QED BY <2>2, <2>3
<1>. QED
  BY <1>1, <1>2, <1>3, <1>4, <1>6, <1>7, <1>8, <1>9, <1>10, <1>11
  DEF ConnectionNext, Request, allVars, connVars

LEMMA AlwaysRequesting == ConnectionSpec => []Requesting
<1>1. ConnectionInit => Requesting
  <2>1. ConnectionInit => RequestTyped
    <3> SUFFICES ASSUME ConnectionInit PROVE RequestTyped
      OBVIOUS
    <3>1. /\ rpc \in [Requests -> Steps] /\ outcome \in [Requests -> Outcomes]
          /\ \A r \in Requests : rpc[r] = "idle"
      BY DEF ConnectionInit, Steps, Outcomes
    <3>2. /\ token \in [Conns -> Nat \cup {None}] /\ landed \in [Requests -> Nat]
          /\ header \in [Requests -> Nat \cup {None}]
      BY DEF ConnectionInit
    <3>3. /\ conn \in [Requests -> Conns \cup {None}] /\ retry \in [Requests -> BOOLEAN]
          /\ secret \in [Requests -> Values \cup {None}]
      BY DEF ConnectionInit
    <3>4. /\ up = FALSE /\ account = None /\ cached = None /\ table = None /\ tokens = 0
          /\ upset = {} /\ stale = {}
      BY DEF ConnectionInit
    <3>5. valid = {}
      BY DEF ConnectionInit
    <3>. QED BY <3>1, <3>2, <3>3, <3>4, <3>5 DEF RequestTyped, OnConnection
  <2>2. ConnectionInit => \A r \in Requests : Sound(r)
    BY DEF ConnectionInit, Sound, Landing, Undisturbed, Informed, OnConnection
  <2>. QED BY <2>1, <2>2 DEF Requesting
<1>2. Requesting /\ [ConnectionNext]_allVars => Requesting'
  BY RequestTypedStep, SoundStep DEF Requesting
<1>. QED BY <1>1, <1>2, PTL DEF ConnectionSpec

\* A request takes effect at most once, and its outcome says what it can.
THEOREM RequestsLandOnce == ConnectionSpec => []RequestLandsOnce
<1>1. Requesting => RequestLandsOnce
  BY DEF Requesting, RequestTyped, Sound, Landing, RequestLandsOnce
<1>. QED BY <1>1, AlwaysRequesting, PTL

\* A request is unauthorized, or its login without a token, only if another
\* thread or an expiry came between.
THEOREM UnauthorizedMeansUpset == ConnectionSpec => []UnauthorizedIsEarned
<1>1. Requesting => UnauthorizedIsEarned
  BY DEF Requesting, Sound, Undisturbed, UnauthorizedIsEarned
<1>. QED BY <1>1, AlwaysRequesting, PTL

\* A login is refused only with a password that was stale: the store lacked the
\* account's, could not be read, or was opened earlier, or the account's has
\* changed since (_resolve_secret, open_store, unlock).
THEOREM RefusedMeansStale == ConnectionSpec => []RefusalIsStale
<1>1. Requesting => RefusalIsStale
  BY DEF Requesting, Sound, Informed, RefusalIsStale
<1>. QED BY <1>1, AlwaysRequesting, PTL
-----------------------------------------------------------------------------
(***************************************************************************)
(* Types.  The tokens have a bound: each request logs in once before its   *)
(* retry and once after it.                                                *)
(***************************************************************************)
\* Who has had a token by a login, and who has had two: a request logs in at
\* most once before its retry and once after it.
LoggedIn == {r \in Requests : ~retry[r] \/ rpc[r] \in {"issued", "send", "sent", "again", "done"}}
LoggedInAgain == {r \in Requests : ~retry[r] /\ rpc[r] \in {"issued", "send", "sent", "done"}}

\* The rest of the type: the tokens are no more than the logins and the one the
\* server may have held before.
Numbered ==
  /\ master \in Passwords \cup {None} /\ target \in Names \cup {None}
  /\ events \in 0 .. MaxEvents
  /\ tokens <= 1 + Cardinality(LoggedIn) + Cardinality(LoggedInAgain)
  /\ valid \subseteq Tokens /\ token \in [Conns -> Tokens \cup {None}]
  /\ header \in [Requests -> Tokens \cup {None}]
  /\ \A r \in Requests : rpc[r] = "login" => secret[r] \in Values

Attempts == 1 + Cardinality(LoggedIn) + Cardinality(LoggedInAgain)

\* Both sets are finite, and grow with the requests that log in.
LEMMA LoginsAreCounted ==
  /\ Cardinality(Requests) \in Nat
  /\ \A S \in SUBSET Requests :
       /\ IsFiniteSet(S) /\ Cardinality(S) \in 0 .. Cardinality(Requests)
       /\ \A T \in SUBSET S : Cardinality(T) <= Cardinality(S)
       /\ \A r \in Requests \ S : Cardinality(S \cup {r}) = Cardinality(S) + 1
<1>1. IsFiniteSet(Requests) /\ Cardinality(Requests) \in Nat
  BY RequestsAreFinite, FS_CardinalityType
<1>2. ASSUME NEW S \in SUBSET Requests PROVE IsFiniteSet(S) /\ Cardinality(S) \in 0 .. Cardinality(Requests)
  <2>1. IsFiniteSet(S) /\ Cardinality(S) <= Cardinality(Requests)
    BY <1>1, FS_Subset
  <2>2. Cardinality(S) \in Nat
    BY <2>1, FS_CardinalityType
  <2>. QED BY <1>1, <2>1, <2>2
<1>3. ASSUME NEW S \in SUBSET Requests, NEW T \in SUBSET S PROVE Cardinality(T) <= Cardinality(S)
  BY <1>2, FS_Subset
<1>4. ASSUME NEW S \in SUBSET Requests, NEW r \in Requests \ S PROVE Cardinality(S \cup {r}) = Cardinality(S) + 1
  BY <1>2, FS_AddElement
<1>. QED BY <1>1, <1>2, <1>3, <1>4

\* So the tokens stay within their bound.
LEMMA AttemptsAreBounded == Attempts \in 1 .. 1 + Cardinality(Requests) * 2
<1>1. /\ Cardinality(LoggedIn) \in 0 .. Cardinality(Requests)
      /\ Cardinality(LoggedInAgain) \in 0 .. Cardinality(Requests)
  BY LoginsAreCounted DEF LoggedIn, LoggedInAgain
<1>2. Cardinality(Requests) \in Nat
  BY LoginsAreCounted
<1>. QED BY <1>1, <1>2 DEF Attempts

\* The steps of a request, but for a login, leave the tokens' numbers, and take
\* nobody from those who have logged in.
Numberless ==
  /\ tokens' = tokens /\ valid' \subseteq valid
  /\ \A x \in Conns : token'[x] \in {token[x], None, EmptyToken}
  /\ LoggedIn \subseteq LoggedIn' /\ LoggedInAgain \subseteq LoggedInAgain'

LEMMA NumberedStep ==
  ASSUME Requesting, Numbered, [ConnectionNext]_allVars
  PROVE  Numbered'
<1> RequestTyped'
  BY RequestTypedStep
<1> USE DEF Requesting, RequestTyped, Goto, End, Drop, server, dashboard, shared, thread
<1>1. ASSUME Numberless PROVE tokens' <= Attempts' /\ valid' \subseteq Tokens /\ token' \in [Conns -> Tokens \cup {None}]
  <2>1. tokens' <= Attempts'
    <3>1. /\ LoggedIn' \subseteq Requests /\ LoggedInAgain' \subseteq Requests
      BY DEF LoggedIn, LoggedInAgain
    <3>2. /\ Cardinality(LoggedIn) <= Cardinality(LoggedIn')
          /\ Cardinality(LoggedInAgain) <= Cardinality(LoggedInAgain')
      BY <1>1, <3>1, LoginsAreCounted DEF Numberless
    <3>3. Cardinality(LoggedIn) \in Nat /\ Cardinality(LoggedInAgain) \in Nat
      BY LoginsAreCounted DEF LoggedIn, LoggedInAgain
    <3>4. Cardinality(LoggedIn') \in Nat /\ Cardinality(LoggedInAgain') \in Nat
      BY <3>1, LoginsAreCounted
    <3>. QED BY <1>1, <3>2, <3>3, <3>4 DEF Numbered, Numberless, Attempts
  <2>2. valid' \subseteq Tokens
    BY <1>1 DEF Numbered, Numberless
  <2>3. \A x \in Conns : token'[x] \in Tokens \cup {None}
    <3>1. EmptyToken \in Tokens
      BY LoginsAreCounted DEF EmptyToken, Tokens
    <3>. QED BY <1>1, <3>1 DEF Numbered, Numberless
  <2>. QED BY <2>1, <2>2, <2>3
<1>2. CASE UNCHANGED connVars
  BY <1>2 DEF connVars, Numbered, LoggedIn, LoggedInAgain, Tokens
<1>3. CASE Wake
  <2>1. /\ UNCHANGED <<rpc, retry, header, secret, events>> /\ tokens' \in {tokens, 1}
        /\ master' \in Passwords /\ target' \in Names
    BY <1>3 DEF Wake
  <2>2. Attempts' = Attempts
    BY <2>1 DEF Attempts, LoggedIn, LoggedInAgain
  <2>3. Attempts >= 1 /\ Attempts \in Nat /\ 1 \in Tokens
    BY AttemptsAreBounded, LoginsAreCounted DEF Tokens
  <2>4. tokens' <= Attempts'
    BY <2>1, <2>2, <2>3 DEF Numbered, Attempts
  <2>5. valid' \subseteq Tokens /\ token' \in [Conns -> Tokens \cup {None}]
    BY <1>3, <2>3 DEF Wake, Numbered
  <2>. QED BY <2>1, <2>4, <2>5 DEF Numbered, Attempts, Tokens
<1>4. CASE Expire
  <2>1. Numberless
    BY <1>4 DEF Expire, Numberless, LoggedIn, LoggedInAgain
  <2>2. events' \in 0 .. MaxEvents
    BY <1>4, PlainIsValue DEF Expire, Numbered
  <2>3. UNCHANGED <<master, target, header, rpc, secret>>
    BY <1>4 DEF Expire
  <2>. QED BY <1>1, <2>1, <2>2, <2>3 DEF Numbered, Attempts, Tokens
<1>5. CASE ChangeAccount
  <2>1. Numberless
    BY <1>5 DEF ChangeAccount, Numberless, LoggedIn, LoggedInAgain
  <2>2. events' \in 0 .. MaxEvents
    BY <1>5, PlainIsValue DEF ChangeAccount, Numbered
  <2>3. UNCHANGED <<master, target, header, rpc, secret>>
    BY <1>5 DEF ChangeAccount
  <2>. QED BY <1>1, <2>1, <2>2, <2>3 DEF Numbered, Attempts, Tokens
\* What is left to show of each step of a request.
<1>6. ASSUME UNCHANGED <<master, target, events>>, Numberless,
             header' \in [Requests -> Tokens \cup {None}],
             \A r \in Requests : rpc'[r] = "login" => secret'[r] \in Values
      PROVE  Numbered'
  BY <1>1, <1>6 DEF Numbered, Attempts, Tokens
<1>7. ASSUME NEW r \in Requests, Connect(r) \/ Create(r) \/ Header(r) \/ LoginEnds(r) \/ LoginFails(r)
      PROVE  Numbered'
  <2>1. UNCHANGED <<master, target, events, tokens, valid, token, header, retry>>
    BY <1>7 DEF Connect, Create, Header, LoginEnds, LoginFails
  <2>2. PICK p \in Steps \ {"idle", "login"} :
             /\ rpc' = [rpc EXCEPT ![r] = p]
             /\ rpc[r] \in {"send", "sent", "again", "done"} => FALSE
             /\ rpc[r] = "issued" => p \in {"send", "done"}
    BY <1>7 DEF Connect, Create, Header, LoginEnds, LoginFails, Lookup, Steps
  <2>3. \A q \in Requests : rpc'[q] = "login" => secret'[q] \in Values
    <3>1. \A q \in Requests : rpc'[q] = "login" => secret'[q] = secret[q] /\ rpc[q] = "login"
      BY <1>7, <2>2 DEF Connect, Create, Header, LoginEnds, LoginFails
    <3>. QED BY <3>1 DEF Numbered
  <2>4. LoggedIn \subseteq LoggedIn' /\ LoggedInAgain \subseteq LoggedInAgain'
    BY <2>1, <2>2 DEF LoggedIn, LoggedInAgain
  <2>. QED BY <1>6, <2>1, <2>3, <2>4 DEF Numberless, Numbered
<1>8. ASSUME NEW r \in Requests, Password(r) PROVE Numbered'
  <2>0. PICK read \in BOOLEAN : PasswordRead(r, read)
    BY <1>8 DEF Password
  <2>1. /\ UNCHANGED <<master, target, events, tokens, valid, token, header, retry>>
        /\ rpc[r] = "password" /\ target \in Names /\ cached \in Stores \cup {None}
    BY <2>0 DEF PasswordRead
  <2>2. \E p \in {"login", "done"} : rpc' = [rpc EXCEPT ![r] = p]
    BY <2>0 DEF PasswordRead
  <2>3. rpc'[r] = "login" => secret'[r] \in Values
    <3>1. rpc'[r] = "login" => ~NoPassword(read) /\ secret' = [secret EXCEPT ![r] = Resolve(read)]
      BY <2>0 DEF PasswordRead
    <3>2. ~NoPassword(read) => Resolve(read) \in Values
      BY <2>1, Resolvable DEF NoPassword
    <3>. QED BY <3>1, <3>2
  <2>4. \A q \in Requests \ {r} : secret'[q] = secret[q] /\ rpc'[q] = rpc[q]
    BY <2>0 DEF PasswordRead
  <2>5. \A q \in Requests : rpc'[q] = "login" => secret'[q] \in Values
    BY <2>3, <2>4 DEF Numbered
  <2>6. LoggedIn \subseteq LoggedIn' /\ LoggedInAgain \subseteq LoggedInAgain'
    BY <2>1, <2>2 DEF LoggedIn, LoggedInAgain
  <2>. QED BY <1>6, <2>1, <2>5, <2>6 DEF Numberless, Numbered
<1>9. ASSUME NEW r \in Requests, Login(r) PROVE Numbered'
  <2>1. /\ UNCHANGED <<master, target, events, header, retry>>
        /\ rpc[r] = "login" /\ rpc' = [rpc EXCEPT ![r] = "issued"]
        /\ secret' = [secret EXCEPT ![r] = None]
        /\ tokens' = tokens + 1 /\ valid' = valid \cup {tokens + 1}
        /\ token' = [token EXCEPT ![conn[r]] = tokens + 1]
    BY <1>9 DEF Login
  <2>2. /\ Cardinality(LoggedIn) \in Nat /\ Cardinality(LoggedInAgain) \in Nat
        /\ Cardinality(LoggedIn') \in Nat /\ Cardinality(LoggedInAgain') \in Nat
    <3>1. LoggedIn' \subseteq Requests /\ LoggedInAgain' \subseteq Requests
      BY DEF LoggedIn, LoggedInAgain
    <3>. QED BY <3>1, LoginsAreCounted DEF LoggedIn, LoggedInAgain
  <2>3. Attempts' = Attempts + 1
    <3>1. CASE retry[r]
      <4>1. r \notin LoggedIn /\ LoggedIn' = LoggedIn \cup {r} /\ LoggedInAgain' = LoggedInAgain
        BY <2>1, <3>1 DEF LoggedIn, LoggedInAgain
      <4>2. Cardinality(LoggedIn') = Cardinality(LoggedIn) + 1
        BY <4>1, LoginsAreCounted DEF LoggedIn
      <4>. QED BY <2>2, <4>1, <4>2 DEF Attempts
    <3>2. CASE ~retry[r]
      <4>1. /\ r \notin LoggedInAgain /\ LoggedInAgain' = LoggedInAgain \cup {r}
            /\ LoggedIn' = LoggedIn
        BY <2>1, <3>2 DEF LoggedIn, LoggedInAgain
      <4>2. Cardinality(LoggedInAgain') = Cardinality(LoggedInAgain) + 1
        BY <4>1, LoginsAreCounted DEF LoggedInAgain
      <4>. QED BY <2>2, <4>1, <4>2 DEF Attempts
    <3>. QED BY <3>1, <3>2
  <2>4. tokens' <= Attempts'
    BY <2>1, <2>2, <2>3 DEF Numbered, Attempts
  <2>5. tokens + 1 \in Tokens
    <3>1. Attempts' \in 1 .. 1 + Cardinality(Requests) * 2
      <4>1. /\ Cardinality(LoggedIn') \in 0 .. Cardinality(Requests)
            /\ Cardinality(LoggedInAgain') \in 0 .. Cardinality(Requests)
        <5>1. LoggedIn' \subseteq Requests /\ LoggedInAgain' \subseteq Requests
          BY DEF LoggedIn, LoggedInAgain
        <5>. QED BY <5>1, LoginsAreCounted
      <4>2. Cardinality(Requests) \in Nat
        BY LoginsAreCounted
      <4>. QED BY <4>1, <4>2 DEF Attempts
    <3>2. Cardinality(Requests) \in Nat
      BY LoginsAreCounted
    <3>. QED BY <2>1, <2>4, <3>1, <3>2 DEF Tokens
  <2>6. valid' \subseteq Tokens /\ token' \in [Conns -> Tokens \cup {None}]
    BY <2>1, <2>5 DEF Numbered
  <2>7. \A q \in Requests : rpc'[q] = "login" => secret'[q] \in Values
    BY <2>1 DEF Numbered
  <2>. QED BY <2>1, <2>4, <2>6, <2>7 DEF Numbered, Attempts, Tokens
<1>10. ASSUME NEW r \in Requests, Send(r) PROVE Numbered'
  <2>1. /\ UNCHANGED <<master, target, events, tokens, valid, token, retry, secret>>
        /\ rpc[r] = "send" /\ rpc' = [rpc EXCEPT ![r] = "sent"]
        /\ header' = [header EXCEPT ![r] = token[conn[r]]] /\ conn[r] \in Conns
    BY <1>10 DEF Send, OnConnection
  <2>2. header' \in [Requests -> Tokens \cup {None}]
    BY <2>1 DEF Numbered
  <2>3. LoggedIn \subseteq LoggedIn' /\ LoggedInAgain \subseteq LoggedInAgain'
    BY <2>1 DEF LoggedIn, LoggedInAgain
  <2>. QED BY <1>6, <2>1, <2>2, <2>3 DEF Numberless, Numbered
<1>11. ASSUME NEW r \in Requests, Serve(r) PROVE Numbered'
  <2>1. /\ UNCHANGED <<master, target, events, tokens, valid, token, retry, secret>>
        /\ rpc[r] = "sent" /\ header' = [header EXCEPT ![r] = None]
    BY <1>11 DEF Serve
  <2>2. \E p \in {"again", "done"} : rpc' = [rpc EXCEPT ![r] = p] /\ (p = "again" => retry[r])
    BY <1>11 DEF Serve, Answer, Retries
  <2>3. header' \in [Requests -> Tokens \cup {None}]
    BY <2>1 DEF Numbered
  <2>4. LoggedIn \subseteq LoggedIn' /\ LoggedInAgain \subseteq LoggedInAgain'
    BY <2>1, <2>2 DEF LoggedIn, LoggedInAgain
  <2>. QED BY <1>6, <2>1, <2>2, <2>3, <2>4 DEF Numberless, Numbered
<1>12. ASSUME NEW r \in Requests, Retry(r) PROVE Numbered'
  <2>1. /\ UNCHANGED <<master, target, events, tokens, valid, header, secret>>
        /\ rpc[r] = "again" /\ retry[r] /\ rpc' = [rpc EXCEPT ![r] = "header"]
        /\ retry' = [retry EXCEPT ![r] = FALSE]
        /\ token' = [token EXCEPT ![conn[r]] = None]
    BY <1>12 DEF Retry, ClearToken, Sound
  <2>2. LoggedIn \subseteq LoggedIn' /\ LoggedInAgain \subseteq LoggedInAgain'
    BY <2>1 DEF LoggedIn, LoggedInAgain
  <2>. QED BY <1>6, <2>1, <2>2 DEF Numberless, Numbered
<1>13. ASSUME NEW r \in Requests, LoginBlank(r) PROVE Numbered'
  <2>1. /\ UNCHANGED <<master, target, events, tokens, valid, header, retry>>
        /\ rpc[r] = "login" /\ rpc' = [rpc EXCEPT ![r] = "done"]
        /\ secret' = [secret EXCEPT ![r] = None]
        /\ \A x \in Conns : token'[x] \in {token[x], None, EmptyToken}
    BY <1>13 DEF LoginBlank
  <2>2. LoggedIn \subseteq LoggedIn' /\ LoggedInAgain \subseteq LoggedInAgain'
    BY <2>1 DEF LoggedIn, LoggedInAgain
  <2>3. \A q \in Requests : rpc'[q] = "login" => secret'[q] \in Values
    BY <2>1 DEF Numbered
  <2>. QED BY <1>6, <2>1, <2>2, <2>3 DEF Numberless, Numbered
<1>. QED
  BY <1>2, <1>3, <1>4, <1>5, <1>7, <1>8, <1>9, <1>10, <1>11, <1>12, <1>13
  DEF ConnectionNext, Request, allVars, connVars

\* Every file, number and password is of its kind at all times: what is read
\* back from a table or a store is what the code takes it for, and no more
\* tokens are ever asked for than two by each request.
THEOREM ConnectionTyped == ConnectionSpec => []Typed
<1>1. ConnectionInit => Numbered
  <2> SUFFICES ASSUME ConnectionInit PROVE Numbered
    OBVIOUS
  <2>1. /\ master = None /\ target = None /\ events = 0 /\ tokens = 0 /\ valid = {}
        /\ token = [x \in Conns |-> None] /\ header = [r \in Requests |-> None]
        /\ \A r \in Requests : rpc[r] = "idle"
    BY DEF ConnectionInit
  <2>2. 0 <= Attempts
    BY AttemptsAreBounded, LoginsAreCounted
  <2>. QED BY <2>1, <2>2, PlainIsValue DEF Numbered, Attempts
<1>2. Requesting /\ Numbered /\ [ConnectionNext]_allVars => Numbered'
  BY NumberedStep
<1>3. Safe /\ Requesting /\ Numbered => Typed
  <2> SUFFICES ASSUME Safe, Requesting, Numbered PROVE Typed
    OBVIOUS
  <2>1. StoreTypeOK
    BY DEF Safe, StoreTyped
  <2>2. tokens \in Tokens
    BY AttemptsAreBounded, LoginsAreCounted DEF Requesting, RequestTyped, Numbered, Attempts, Tokens
  <2>. QED BY <2>1, <2>2 DEF Requesting, RequestTyped, Numbered, Typed, Steps, OnConnection
<1>. QED BY <1>1, <1>2, <1>3, AlwaysSafe, AlwaysRequesting, PTL DEF ConnectionSpec
=============================================================================
