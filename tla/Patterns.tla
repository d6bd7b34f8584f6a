------------------------------- MODULE Patterns -------------------------------
(***************************************************************************)
(* The auto-remediation patterns (governance/patterns.py) behind the       *)
(* budget: _pre_check consults the engine for every call the budget        *)
(* admits, _finalize reports how the armed calls ended.  An operator edits *)
(* the pattern files meanwhile.  Files are stamped with the clock, so two  *)
(* edits of one instant carry one mtime.  Every file names the one tool    *)
(* the calls are of; the target of a call is what its fingerprint tells    *)
(* apart.  A reload reads each file after its mtime, and either can fail;  *)
(* that it reads several files one by one is left out, as each is compared *)
(* on its own.                                                             *)
(***************************************************************************)
EXTENDS Budget

CONSTANTS
  Files,             \* pattern files: the numbers from 1, in the order of their paths
  Contents,          \* what a file may say: see PatternRecords
  Absent,            \* no file, or no pattern
  OnDisk,            \* the files at the start
  Hour,              \* the shorter rate window
  Day,               \* the longer one
  Threshold,         \* circuit_threshold of every pattern
  Disable,           \* circuit_disable_seconds of every pattern
  DefaultThreshold,  \* the threshold for a pattern that is no longer loaded
  DefaultDisable,    \* its cooldown
  MaxEvents          \* bound on the calls and the operator's edits together

ASSUME PatternRecords ==
  /\ Files \subseteq Nat
  /\ Absent \notin Contents \cup Nat
  /\ OnDisk \in [Files -> Contents \cup {Absent}]
  /\ \A p \in Contents :
       /\ {"id", "valid", "granted", "expires", "perHour", "perDay"} = DOMAIN p
       /\ p.valid \in BOOLEAN /\ p.granted \in BOOLEAN
       /\ p.expires \in Nat /\ p.perHour \in Nat /\ p.perDay \in Nat
  /\ Hour \in Nat /\ Day \in Nat /\ Hour <= Day
  /\ Threshold \in Nat \ {0} /\ DefaultThreshold \in Nat \ {0}
  /\ Disable \in Nat /\ DefaultDisable \in Nat /\ MaxEvents \in Nat

VARIABLES
  disk,      \* disk[f]: what the file says
  mtime,     \* mtime[f]: when it was last written, if it is there
  edits,     \* edits made
  stamped,   \* stamped[f]: the mtime its last version had (history)
  loaded,    \* _patterns: loaded[f] is the pattern taken from f
  missed,    \* the files that the last reload stamped and could not read (history)
  known,     \* _mtimes
  at,        \* at[c]: where c's consult stands
  snap,      \* snap[c]: what c's reload has read
  pick,      \* pick[c]: the pattern c has chosen
  armedAt,   \* armedAt[c]: when c was armed
  arms,      \* arms[k]: arm_timestamps
  fails,     \* fails[k]: consecutive_failures
  until,     \* until[k]: disabled_until
  log,       \* log[k]: the outcomes reported for k (history)
  blurred    \* two writes of one instant, or reloads that overlapped (history)

engine == <<loaded, missed, known, arms, fails, until>>
consult == <<at, snap, pick, armedAt>>
files == <<disk, mtime, edits, stamped>>
patternVars == <<files, engine, consult, log, blurred>>
allVars == <<vars, patternVars>>

Ids == {p.id : p \in Contents}
Keys == Ids \X Fingerprints
Snapshots ==
  [disk : [Files -> Contents \cup {Absent}], mtime : [Files -> (0 .. MaxTime) \cup {Absent}], missed : SUBSET Files]

Typed ==
  /\ TypeOK
  /\ disk \in [Files -> Contents \cup {Absent}] /\ mtime \in [Files -> (0 .. MaxTime) \cup {Absent}]
  /\ edits \in 0 .. MaxEvents /\ stamped \in [Files -> 0 .. MaxTime]
  /\ loaded \in [Files -> Contents \cup {Absent}] /\ known \in [Files -> (0 .. MaxTime) \cup {Absent}]
  /\ missed \subseteq Files
  /\ at \in [Calls -> {"none", "glance", "install", "settle", "choose", "arm", "armed", "unarmed", "reported"}]
  /\ snap \in [Calls -> Snapshots \cup {Absent}]
  /\ pick \in [Calls -> Contents \cup {Absent}]
  /\ armedAt \in [Calls -> 0 .. MaxTime]
  /\ arms \in [Keys -> Seq(0 .. MaxTime)]
  /\ fails \in [Keys -> Nat] /\ until \in [Keys -> Nat]
  /\ log \in [Keys -> Seq([ok : BOOLEAN, when : 0 .. MaxTime, loaded : BOOLEAN])]
  /\ blurred \in BOOLEAN

-----------------------------------------------------------------------------
Valid(d, f) == d[f] # Absent /\ d[f].valid

\* _load: the valid files, less those that repeat the id of an earlier one.
Load(d) ==
  [f \in Files |->
     IF Valid(d, f) /\ \A g \in Files : g < f /\ Valid(d, g) => d[g].id # d[f].id
       THEN d[f] ELSE Absent]

\* What is left of d, the files' contents or mtimes, without those in gone.
Less(d, gone) == [f \in Files |-> IF f \in gone THEN Absent ELSE d[f]]

\* Signed, approved, low risk, reversible and repeatable, and not expired.
Armable(p) == p.granted /\ now <= p.expires

PatternsInit ==
  /\ Init
  /\ disk = OnDisk /\ mtime = [f \in Files |-> IF OnDisk[f] = Absent THEN Absent ELSE 0]
  /\ edits = 0 /\ stamped = [f \in Files |-> 0]
  /\ \E unseen, unread \in SUBSET {f \in Files : OnDisk[f] # Absent} :
       /\ unseen \cap unread = {}
       /\ loaded = Load(Less(Less(OnDisk, unseen), unread))
       /\ missed = unread /\ known = Less(mtime, unseen)
  /\ at = [c \in Calls |-> "none"]
  /\ snap = [c \in Calls |-> Absent] /\ pick = [c \in Calls |-> Absent]
  /\ armedAt = [c \in Calls |-> 0]
  /\ arms = [k \in Keys |-> <<>>]
  /\ fails = [k \in Keys |-> 0] /\ until = [k \in Keys |-> 0]
  /\ log = [k \in Keys |-> <<>>]
  /\ blurred = FALSE

Key(c) == <<pick[c].id, CHOOSE f \in finger[c] : TRUE>>

Events == edits + Cardinality({c \in Calls : pc[c] # "idle"})

\* The operator writes, replaces or removes a file.
Edit(f) ==
  /\ Events < MaxEvents
  /\ \E p \in (Contents \cup {Absent}) \ {disk[f]} :
       /\ disk' = [disk EXCEPT ![f] = p]
       /\ mtime' = [mtime EXCEPT ![f] = IF p = Absent THEN Absent ELSE now]
  /\ edits' = edits + 1
  /\ stamped' = [stamped EXCEPT ![f] = IF disk'[f] = Absent THEN @ ELSE now]
  /\ blurred' = (blurred \/ (disk'[f] # Absent /\ stamped[f] = now))
  /\ UNCHANGED <<vars, engine, consult, log>>

\* _pre_check: a call that the budget stops never reaches the engine.
Admit(c) ==
  /\ Check(c)
  /\ at' = [at EXCEPT ![c] = IF verdict'[c] = "admitted" THEN "glance" ELSE "unarmed"]
  /\ UNCHANGED <<files, engine, snap, pick, armedAt, log, blurred>>

Reloading == {c \in Calls : at[c] \in {"install", "settle"}}

\* _maybe_reload, outside the lock: a difference starts a reload, and a look
\* that fails leaves memory as it is.  A file that _load cannot stamp is none to
\* it; one it stamps and then cannot read keeps its mtime and yields no pattern.
Glance(c) ==
  /\ at[c] = "glance"
  /\ \/ /\ at' = [at EXCEPT ![c] = "choose"]
        /\ UNCHANGED <<snap, blurred>>
     \/ /\ mtime # known
        /\ \E unseen, unread \in SUBSET {f \in Files : disk[f] # Absent} :
             /\ unseen \cap unread = {}
             /\ snap' = [snap EXCEPT ![c] = [disk |-> Less(disk, unseen), mtime |-> Less(mtime, unseen), missed |-> unread]]
        /\ at' = [at EXCEPT ![c] = "install"]
        /\ blurred' = (blurred \/ Reloading # {})
  /\ UNCHANGED <<vars, files, engine, pick, armedAt, log>>

Install(c) ==
  /\ at[c] = "install"
  /\ loaded' = Load(Less(snap[c].disk, snap[c].missed))
  /\ missed' = snap[c].missed
  /\ at' = [at EXCEPT ![c] = "settle"]
  /\ UNCHANGED <<vars, files, known, arms, fails, until, snap, pick, armedAt, log, blurred>>

\* Seeded fault: the mtimes are taken after the files were read.
SettleLate(c) ==
  /\ at[c] = "settle"
  /\ known' = mtime
  /\ snap' = [snap EXCEPT ![c] = Absent]
  /\ at' = [at EXCEPT ![c] = "choose"]
  /\ UNCHANGED <<vars, files, loaded, missed, arms, fails, until, pick, armedAt, log, blurred>>

Settle(c) ==
  /\ at[c] = "settle"
  /\ known' = snap[c].mtime
  /\ snap' = [snap EXCEPT ![c] = Absent]
  /\ at' = [at EXCEPT ![c] = "choose"]
  /\ UNCHANGED <<vars, files, loaded, missed, arms, fails, until, pick, armedAt, log, blurred>>

\* The first armable pattern, in the order of the files.
Choose(c) ==
  LET armable == {f \in Files : loaded[f] # Absent /\ Armable(loaded[f])} IN
  /\ at[c] = "choose"
  /\ IF armable = {}
       THEN /\ at' = [at EXCEPT ![c] = "unarmed"]
            /\ UNCHANGED pick
       ELSE /\ at' = [at EXCEPT ![c] = "arm"]
            /\ \E f \in armable :
                 /\ \A g \in armable : f <= g
                 /\ pick' = [pick EXCEPT ![c] = loaded[f]]
  /\ UNCHANGED <<vars, files, engine, snap, armedAt, log, blurred>>

\* The timestamps of w that are younger than span, in their order.
Within(w, span) ==
  LET kept[i \in 0 .. Len(w)] ==
        IF i = 0 THEN <<>>
        ELSE IF w[i] + span > now THEN Append(kept[i - 1], w[i]) ELSE kept[i - 1]
  IN  kept[Len(w)]

\* Seeded fault: a window that is closed at its far end where it is counted.
CappedLate(p, w) ==
  \/ p.perHour > 0 /\ Len(Within(w, Hour)) > p.perHour
  \/ p.perDay > 0 /\ Len(w) >= p.perDay

\* A cap of 0 is no cap.
Capped(p, w) ==
  \/ p.perHour > 0 /\ Len(Within(w, Hour)) >= p.perHour
  \/ p.perDay > 0 /\ Len(w) >= p.perDay

\* match, under the lock: the breaker, the two windows, and the arming.
Arm(c) ==
  LET k == Key(c)
      w == IF now < until[k] THEN arms[k] ELSE Within(arms[k], Day)
      granted == now >= until[k] /\ ~Capped(pick[c], w) IN
  /\ at[c] = "arm"
  /\ at' = [at EXCEPT ![c] = IF granted THEN "armed" ELSE "unarmed"]
  /\ arms' = [arms EXCEPT ![k] = IF granted THEN Append(w, now) ELSE w]
  /\ armedAt' = [armedAt EXCEPT ![c] = IF granted THEN now ELSE @]
  /\ UNCHANGED <<vars, files, loaded, missed, known, fails, until, snap, pick, log, blurred>>

\* Seeded fault: the breaker takes one failure more than its threshold.
CountLate(k, ok, threshold, pause) ==
  /\ fails' = [fails EXCEPT ![k] = IF ok THEN 0 ELSE @ + 1]
  /\ until' = [until EXCEPT ![k] = IF ~ok /\ fails'[k] > threshold THEN now + pause ELSE @]

\* report_outcome: a success clears the count and leaves the cooldown alone.
Count(k, ok, threshold, pause) ==
  /\ fails' = [fails EXCEPT ![k] = IF ok THEN 0 ELSE @ + 1]
  /\ until' = [until EXCEPT ![k] = IF ~ok /\ fails'[k] >= threshold THEN now + pause ELSE @]

\* _finalize of a call that is not armed.
Finish(c) ==
  /\ at[c] = "unarmed"
  /\ End(c)
  /\ UNCHANGED patternVars

\* _finalize of an armed call: add_duration and, in a lock of its own over
\* other state, report_outcome; the limits are those of the pattern as it is
\* loaded by then.
Report(c) ==
  LET k == Key(c)
      here == \E f \in Files : loaded[f] # Absent /\ loaded[f].id = k[1] IN
  /\ at[c] = "armed"
  /\ End(c)
  /\ at' = [at EXCEPT ![c] = "reported"]
  /\ \E ok \in BOOLEAN :
       /\ Count(k, ok, IF here THEN Threshold ELSE DefaultThreshold, IF here THEN Disable ELSE DefaultDisable)
       /\ log' = [log EXCEPT ![k] = Append(@, [ok |-> ok, when |-> now, loaded |-> here])]
  /\ UNCHANGED <<files, loaded, missed, known, arms, snap, pick, armedAt, blurred>>

PatternsNext ==
  \/ Tick /\ UNCHANGED patternVars
  \/ \E f \in Files : Edit(f)
  \/ \E c \in Calls :
       \/ Stamp(c) /\ Events < MaxEvents /\ UNCHANGED patternVars
       \/ Admit(c) \/ Glance(c) \/ Install(c) \/ Settle(c) \/ Choose(c) \/ Arm(c)
       \/ Finish(c) \/ Report(c)

PatternsSpec == PatternsInit /\ [][PatternsNext]_allVars

-----------------------------------------------------------------------------
Armed(k) == {c \in Calls : at[c] \in {"armed", "reported"} /\ Key(c) = k}

Sooner(k, c, span) == {d \in Armed(k) : armedAt[d] <= armedAt[c] /\ armedAt[d] + span > armedAt[c]}

\* No window of an hour or a day holds more armed calls of one pattern and one
\* target than the pattern allowed when the last of them was armed, however the
\* calls overlap and whatever is reloaded between them (match's two rate
\* limits).  Of the calls armed at one instant, the last is one that fits.
CapsHold ==
  \A k \in Keys : \A c \in Armed(k) : \E d \in Armed(k) :
    /\ armedAt[d] = armedAt[c]
    /\ pick[d].perHour > 0 => Cardinality(Sooner(k, c, Hour)) <= pick[d].perHour
    /\ pick[d].perDay > 0 => Cardinality(Sooner(k, c, Day)) <= pick[d].perDay

\* The reports up to the i-th that failed in a row would trip the breaker.
Trips(k, i) ==
  LET n == IF log[k][i].loaded THEN Threshold ELSE DefaultThreshold IN
  n <= i /\ \A j \in i - n + 1 .. i : ~log[k][j].ok

\* The breaker is open exactly while the last report that made as many
\* failures in a row as the threshold is not older than the cooldown: a late
\* outcome of a call armed before the trip neither closes it early nor goes
\* uncounted, and the first failure after a cooldown opens it again
\* (report_outcome against match's check of disabled_until).
BreakerIsExact ==
  \A k \in Keys :
    LET trips == {i \in DOMAIN log[k] : Trips(k, i)}
        Pause(i) == IF log[k][i].loaded THEN Disable ELSE DefaultDisable
    IN  now < until[k] <=>
          \E i \in trips : (\A j \in trips : j <= i) /\ log[k][i].when + Pause(i) > now

\* Once the mtimes agree and nobody is reloading, the patterns in memory are
\* those on disk, less the files whose last read failed and that nobody wrote
\* since, so a revoked pattern is no longer armed and a new one is missing only
\* after a failed read; unless two reloads overlapped or a file was written
\* twice in one instant (_load, _maybe_reload).
MemoryIsDisk ==
  ~blurred /\ mtime = known /\ Reloading = {} => loaded = Load(Less(disk, missed))
=============================================================================
