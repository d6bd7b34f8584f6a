-------------------------------- MODULE Budget --------------------------------
(***************************************************************************)
(* The budget and runaway guard of one process (governance/budget.py):     *)
(* check_and_record before a call, add_duration after it, over discrete    *)
(* time.  The calls are those of one or several threads, and a call may    *)
(* run inside another (undo_apply's inverse).  check_and_record takes its  *)
(* timestamp before it waits for the lock, so the two are separate steps.  *)
(***************************************************************************)
EXTENDS Naturals, Sequences, FiniteSets

CONSTANTS
  Calls,         \* calls, each made once
  Fingerprints,  \* (tool, params) pairs
  MaxCalls,      \* CEPH_MAX_TOOL_CALLS, NoCeiling when it is not set
  MaxSeconds,    \* CEPH_MAX_TOOL_SECONDS, NoCeiling when it is not set
  RunawayMax,    \* CEPH_RUNAWAY_MAX, 0 for no guard
  Window,        \* CEPH_RUNAWAY_WINDOW_SEC
  NoCeiling,     \* no ceiling
  MaxTime        \* bound on the clock

ASSUME LimitsAreNumbers ==
  /\ MaxCalls \in Nat \cup {NoCeiling}
  /\ MaxSeconds \in Nat \cup {NoCeiling}
  /\ RunawayMax \in Nat /\ Window \in Nat /\ MaxTime \in Nat
ASSUME CallsAreFinite == IsFiniteSet(Calls)

VARIABLES
  now,      \* the clock
  pc,       \* pc[c]: "idle", "stamped", "open" (its verdict is in) or "ended"
  finger,   \* finger[c]: its fingerprint, as a set
  stamp,    \* stamp[c]: the time it was stamped with
  verdict,  \* verdict[c]: admitted, or the rule that stopped it
  total,    \* total_calls
  seconds,  \* total_seconds
  windows,  \* windows[f]: the timestamps kept for f, in the order of recording
  jumbled   \* calls checked after a later-stamped one of theirs (history)

vars == <<now, pc, finger, stamp, verdict, total, seconds, windows, jumbled>>

Admitted == {c \in Calls : verdict[c] = "admitted"}
Same(c) == {d \in Calls : finger[d] = finger[c]}

TypeOK ==
  /\ now \in 0 .. MaxTime
  /\ pc \in [Calls -> {"idle", "stamped", "open", "ended"}]
  /\ finger \in [Calls -> SUBSET Fingerprints]
  /\ stamp \in [Calls -> 0 .. MaxTime]
  /\ verdict \in [Calls -> {"none", "admitted", "calls", "seconds", "runaway"}]
  /\ total \in Nat /\ seconds \in Nat
  /\ windows \in [Fingerprints -> Seq(0 .. MaxTime)]
  /\ jumbled \subseteq Calls

Init ==
  /\ now = 0
  /\ pc = [c \in Calls |-> "idle"]
  /\ finger = [c \in Calls |-> {}]
  /\ stamp = [c \in Calls |-> 0]
  /\ verdict = [c \in Calls |-> "none"]
  /\ total = 0 /\ seconds = 0
  /\ windows = [f \in Fingerprints |-> <<>>]
  /\ jumbled = {}

-----------------------------------------------------------------------------
Tick ==
  /\ now < MaxTime
  /\ now' = now + 1
  /\ UNCHANGED <<pc, finger, stamp, verdict, total, seconds, windows, jumbled>>

\* The call's start and, just after it, the timestamp of its check.
Stamp(c) ==
  /\ pc[c] = "idle"
  /\ \E f \in Fingerprints : finger' = [finger EXCEPT ![c] = {f}]
  /\ stamp' = [stamp EXCEPT ![c] = now]
  /\ pc' = [pc EXCEPT ![c] = "stamped"]
  /\ UNCHANGED <<now, verdict, total, seconds, windows, jumbled>>

\* Seeded fault: a window that is open at its far end.
KeptHalfOpen(w, t) ==
  LET fresh == {i \in 1 .. Len(w) : w[i] + Window > t} IN
  IF fresh = {} THEN <<>> ELSE SubSeq(w, CHOOSE i \in fresh : \A j \in fresh : i <= j, Len(w))

\* Seeded fault: nothing ever leaves a window.
KeptForEver(w, t) == w

\* What is left of a window at time t: entries are dropped from its head as
\* long as they are older than the window is long.
Kept(w, t) ==
  LET fresh == {i \in 1 .. Len(w) : w[i] + Window >= t} IN
  IF fresh = {} THEN <<>> ELSE SubSeq(w, CHOOSE i \in fresh : \A j \in fresh : i <= j, Len(w))

Guarding == RunawayMax > 0 /\ Window > 0

\* Seeded fault: one call too many.
CallsOverrun == MaxCalls # NoCeiling /\ total > MaxCalls

CallsUsedUp == MaxCalls # NoCeiling /\ total >= MaxCalls
SecondsUsedUp == MaxSeconds # NoCeiling /\ seconds >= MaxSeconds

\* Seeded fault: a call that is stopped is counted.
VerdictCounting(c, f, v, w) ==
  /\ verdict' = [verdict EXCEPT ![c] = v]
  /\ total' = total + 1
  /\ windows' = [windows EXCEPT ![f] = IF v = "admitted" /\ Guarding THEN Append(w, stamp[c]) ELSE w]

\* Only a call that goes ahead is counted and kept in its window.
Verdict(c, f, v, w) ==
  /\ verdict' = [verdict EXCEPT ![c] = v]
  /\ total' = IF v = "admitted" THEN total + 1 ELSE total
  /\ windows' = [windows EXCEPT ![f] = IF v = "admitted" /\ Guarding THEN Append(w, stamp[c]) ELSE w]

\* check_and_record, inside its lock: the ceilings, then the runaway guard.
Check(c) ==
  \E f \in finger[c] :
    LET w == IF Guarding THEN Kept(windows[f], stamp[c]) ELSE windows[f] IN
    /\ pc[c] = "stamped"
    /\ pc' = [pc EXCEPT ![c] = "open"]
    /\ jumbled' = IF \E d \in Same(c) : pc[d] \in {"open", "ended"} /\ stamp[d] > stamp[c]
                    THEN jumbled \cup {c} ELSE jumbled
    /\ \/ CallsUsedUp /\ Verdict(c, f, "calls", windows[f])
       \/ ~CallsUsedUp /\ SecondsUsedUp /\ Verdict(c, f, "seconds", windows[f])
       \/ /\ ~CallsUsedUp /\ ~SecondsUsedUp
          /\ Verdict(c, f, IF Guarding /\ Len(w) >= RunawayMax THEN "runaway" ELSE "admitted", w)
    /\ UNCHANGED <<now, finger, stamp, seconds>>

\* Seeded fault: the difference is taken the wrong way round.
EndReversed(c) ==
  /\ pc[c] = "open"
  /\ pc' = [pc EXCEPT ![c] = "ended"]
  /\ seconds' = seconds + (stamp[c] - now)
  /\ UNCHANGED <<now, finger, stamp, verdict, total, windows, jumbled>>

\* _finalize, which every call reaches, the stopped ones too: add_duration.
End(c) ==
  /\ pc[c] = "open"
  /\ pc' = [pc EXCEPT ![c] = "ended"]
  /\ seconds' = seconds + (now - stamp[c])
  /\ UNCHANGED <<now, finger, stamp, verdict, total, windows, jumbled>>

Next == Tick \/ \E c \in Calls : Stamp(c) \/ Check(c) \/ End(c)

Spec == Init /\ [][Next]_vars

-----------------------------------------------------------------------------
InWindow(c) == {d \in Same(c) \cap Admitted : stamp[d] <= stamp[c] /\ stamp[d] + Window >= stamp[c]}

\* The runaway guard stops neither too late nor too early (check_and_record's
\* window): a call that is admitted in the order of the stamps makes, with its
\* like within the window before it, no more than the guard allows; and a call
\* is stopped only if that many of its like were admitted within the window,
\* so that neither the calls that were stopped nor one that is older prolong
\* the stop.
RunawayIsExact ==
  \A c \in Calls :
    /\ Guarding /\ c \in Admitted \ jumbled => Cardinality(InWindow(c) \ jumbled) <= RunawayMax
    /\ verdict[c] = "runaway" /\ Same(c) \cap jumbled = {} => Cardinality(InWindow(c)) >= RunawayMax

\* The call ceiling counts the calls that went ahead and no others, and holds
\* however many calls are checked at once.
CeilingCountsAdmitted ==
  /\ total = Cardinality(Admitted)
  /\ MaxCalls # NoCeiling => total <= MaxCalls
=============================================================================
