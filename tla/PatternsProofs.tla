---------------------------- MODULE PatternsProofs ----------------------------
(***************************************************************************)
(* Theorems about Budget and Patterns, for any calls, limits, caps, files  *)
(* and clock: the call ceiling and the runaway guard, first of the budget  *)
(* by itself and then of the calls that go on to the pattern engine; the   *)
(* breaker; the reloading; the types; the caps.                            *)
(***************************************************************************)
EXTENDS Patterns, SequenceTheorems, FunctionTheorems, FiniteSetTheorems, TLAPS

\* Induction for a set of numbers, by its complement's least element.
LEMMA NatSetInduction ==
  ASSUME NEW S, 0 \in S, \A n \in Nat : n \in S => n + 1 \in S
  PROVE  Nat \subseteq S
<1> SUFFICES ASSUME Nat \ S # {} PROVE FALSE OBVIOUS
<1>1. PICK x \in Nat \ S : \A y \in Nat \ S : ~(<<y, x>> \in OpToRel(<, Nat))
  <2>1. Nat \ S \subseteq Nat OBVIOUS
  <2>. QED BY <2>1, WFMin, NatLessThanWellFounded, Zenon
<1>2. x # 0 OBVIOUS
<1>3. x - 1 \in Nat /\ x - 1 < x /\ (x - 1) + 1 = x BY <1>2
<1>4. x - 1 \notin S BY <1>3
<1>5. <<x - 1, x>> \in OpToRel(<, Nat) BY <1>3 DEF OpToRel
<1>. QED BY <1>1, <1>3, <1>4, <1>5

\* Where there is a number there is a least one.
LEMMA NatSetHasLeast ==
  ASSUME NEW S, S \subseteq Nat, S # {}
  PROVE  \E i \in S : \A j \in S : i <= j
<1>1. PICK i \in S : \A j \in S : ~(<<j, i>> \in OpToRel(<, Nat))
  BY WFMin, NatLessThanWellFounded, Zenon
<1>2. ASSUME NEW j \in S PROVE i <= j
  <2>1. i \in Nat /\ j \in Nat OBVIOUS
  <2>2. j < i => <<j, i>> \in OpToRel(<, Nat) BY <2>1 DEF OpToRel
  <2>3. ~(j < i) BY <1>1, <2>2, Zenon
  <2>. QED BY <2>1, <2>3
<1>. QED BY <1>2

-----------------------------------------------------------------------------
\* The property and what it rests on: a call has no verdict before its check.
CeilingInv ==
  /\ pc \in [Calls -> {"idle", "stamped", "open", "ended"}]
  /\ verdict \in [Calls -> {"none", "admitted", "calls", "seconds", "runaway"}]
  /\ \A c \in Calls : pc[c] \in {"idle", "stamped"} => verdict[c] = "none"
  /\ CeilingCountsAdmitted

\* An admission adds one call to those that are counted, another verdict none.
LEMMA VerdictCounts ==
  ASSUME CeilingInv, NEW c \in Calls, NEW f, NEW v \in {"admitted", "calls", "seconds", "runaway"},
         NEW w, Verdict(c, f, v, w), pc[c] = "stamped"
  PROVE  /\ total' = Cardinality(Admitted')
         /\ v = "admitted" => total' = total + 1
         /\ v # "admitted" => total' = total
<1>1. IsFiniteSet(Admitted) /\ c \notin Admitted
  <2>1. Admitted \subseteq Calls BY DEF Admitted
  <2>2. verdict[c] = "none" BY DEF CeilingInv
  <2> QED BY <2>1, <2>2, CallsAreFinite, FS_Subset DEF Admitted
<1>2. total = Cardinality(Admitted) BY DEF CeilingInv, CeilingCountsAdmitted
<1>3. verdict' = [verdict EXCEPT ![c] = v] BY DEF Verdict
<1>4. CASE v = "admitted"
  <2>1. Admitted' = Admitted \cup {c}
    BY <1>3, <1>4 DEF Admitted, CeilingInv
  <2>2. Cardinality(Admitted') = Cardinality(Admitted) + 1
    BY <2>1, <1>1, FS_AddElement
  <2> QED BY <2>2, <1>2, <1>4 DEF Verdict
<1>5. CASE v # "admitted"
  <2>1. Admitted' = Admitted
    BY <1>3, <1>5, <1>1 DEF Admitted, CeilingInv
  <2> QED BY <2>1, <1>2, <1>5 DEF Verdict
<1> QED BY <1>4, <1>5

\* What a check does to the call, in each of its cases.
LEMMA CheckPreserves ==
  ASSUME CeilingInv, NEW c \in Calls, Check(c)
  PROVE  CeilingInv'
<1> DEFINE left(f) == IF Guarding THEN Kept(windows[f], stamp[c]) ELSE windows[f]
           rule(f) == IF Guarding /\ Len(left(f)) >= RunawayMax THEN "runaway" ELSE "admitted"
<1>0. PICK f \in finger[c] :
        /\ pc[c] = "stamped" /\ pc' = [pc EXCEPT ![c] = "open"]
        /\ \/ CallsUsedUp /\ Verdict(c, f, "calls", windows[f])
           \/ ~CallsUsedUp /\ SecondsUsedUp /\ Verdict(c, f, "seconds", windows[f])
           \/ ~CallsUsedUp /\ ~SecondsUsedUp /\ Verdict(c, f, rule(f), left(f))
  BY DEF Check
<1>1. PICK v \in {"admitted", "calls", "seconds", "runaway"}, w \in {windows[f], left(f)} :
        Verdict(c, f, v, w) /\ (v = "admitted" => ~CallsUsedUp)
  <2>1. rule(f) \in {"admitted", "runaway"} OBVIOUS
  <2> HIDE DEF rule, left
  <2> QED BY <1>0, <2>1
<1>2. /\ total' = Cardinality(Admitted')
      /\ v = "admitted" => total' = total + 1
      /\ v # "admitted" => total' = total
  BY <1>0, <1>1, VerdictCounts
<1>3. MaxCalls # NoCeiling => total' <= MaxCalls
  <2>1. total \in Nat
    <3>1. IsFiniteSet(Admitted) BY CallsAreFinite, FS_Subset DEF Admitted
    <3> QED BY <3>1, FS_CardinalityType DEF CeilingInv, CeilingCountsAdmitted
  <2>2. MaxCalls # NoCeiling => total <= MaxCalls /\ MaxCalls \in Nat
    BY LimitsAreNumbers DEF CeilingInv, CeilingCountsAdmitted
  <2> QED BY <1>1, <1>2, <2>1, <2>2 DEF CallsUsedUp
<1>4. /\ pc' \in [Calls -> {"idle", "stamped", "open", "ended"}]
      /\ verdict' \in [Calls -> {"none", "admitted", "calls", "seconds", "runaway"}]
      /\ \A d \in Calls : pc'[d] \in {"idle", "stamped"} => verdict'[d] = "none"
  BY <1>0, <1>1 DEF CeilingInv, Verdict
<1> QED BY <1>2, <1>3, <1>4 DEF CeilingInv, CeilingCountsAdmitted

LEMMA CeilingInvHolds == Spec => []CeilingInv
<1>1. Init => CeilingInv
  <2> SUFFICES ASSUME Init PROVE CeilingInv OBVIOUS
  <2>1. Admitted = {} BY DEF Init, Admitted
  <2>2. Cardinality(Admitted) = 0 BY <2>1, FS_EmptySet
  <2> QED BY <2>2, LimitsAreNumbers DEF Init, CeilingInv, CeilingCountsAdmitted
<1>2. CeilingInv /\ [Next]_vars => CeilingInv'
  <2> SUFFICES ASSUME CeilingInv, [Next]_vars PROVE CeilingInv' OBVIOUS
  <2>1. CASE Tick \/ UNCHANGED vars
    BY <2>1 DEF Tick, vars, CeilingInv, CeilingCountsAdmitted, Admitted
  <2>2. ASSUME NEW c \in Calls, Stamp(c) PROVE CeilingInv'
    BY <2>2 DEF Stamp, CeilingInv, CeilingCountsAdmitted, Admitted
  <2>3. ASSUME NEW c \in Calls, Check(c) PROVE CeilingInv'
    BY <2>3, CheckPreserves
  <2>4. ASSUME NEW c \in Calls, End(c) PROVE CeilingInv'
    BY <2>4 DEF End, CeilingInv, CeilingCountsAdmitted, Admitted
  <2> QED BY <2>1, <2>2, <2>3, <2>4 DEF Next
<1> QED BY <1>1, <1>2, PTL DEF Spec

\* The call ceiling counts exactly the calls that went ahead and is never
\* exceeded, however many threads check at it at once (check_and_record).
THEOREM CeilingHolds == Spec => []CeilingCountsAdmitted
<1>1. CeilingInv => CeilingCountsAdmitted BY DEF CeilingInv
<1> QED BY <1>1, CeilingInvHolds, PTL

-----------------------------------------------------------------------------
(***************************************************************************)
(* The types of the budget, and what a check does.                         *)
(***************************************************************************)
\* Types, and what keeps the durations from being negative.
BudgetTyped ==
  /\ TypeOK
  /\ \A c \in Calls : stamp[c] <= now
  /\ \A c \in Calls : pc[c] # "idle" => \E f \in Fingerprints : finger[c] = {f}

\* Dropping entries from the head of a window leaves a window.
LEMMA KeptTyped ==
  ASSUME NEW T, NEW w \in Seq(T), NEW t
  PROVE  Kept(w, t) \in Seq(T)
<1> DEFINE fresh == {i \in 1 .. Len(w) : w[i] + Window >= t}
           first == CHOOSE i \in fresh : \A j \in fresh : i <= j
<1>1. CASE fresh = {}
  <2>1. Kept(w, t) = <<>> BY <1>1, Zenon DEF Kept
  <2>. QED BY <2>1
<1>2. CASE fresh # {}
  <2>1. \E i \in fresh : \A j \in fresh : i <= j
    <3>0. fresh \subseteq Nat OBVIOUS
    <3> HIDE DEF fresh
    <3>. QED BY <1>2, <3>0, NatSetHasLeast
  <2>2. first \in fresh BY <2>1
  <2> HIDE DEF first
  <2>3. SubSeq(w, first, Len(w)) \in Seq(T)
    <3>0. first \in 1 .. Len(w) BY <2>2
    <3>1. first \in Int /\ Len(w) \in Int /\ \A i \in first .. Len(w) : w[i] \in T
      BY <3>0
    <3>. QED BY <3>1, SubSeqProperties
  <2>. QED BY <1>2, <2>3, Zenon DEF Kept, first
<1>. QED BY <1>1, <1>2

\* What a check does: the verdict v, and w, what is left of the window.
Checks(c, f, v, w) ==
  /\ pc[c] = "stamped" /\ pc' = [pc EXCEPT ![c] = "open"]
  /\ verdict' = [verdict EXCEPT ![c] = v]
  /\ total' \in {total, total + 1}
  /\ windows' = [windows EXCEPT ![f] = IF v = "admitted" /\ Guarding THEN Append(w, stamp[c]) ELSE w]
  /\ w = windows[f] \/ (Guarding /\ w = Kept(windows[f], stamp[c]))
  /\ v = "admitted" /\ Guarding => w = Kept(windows[f], stamp[c]) /\ ~(Len(w) >= RunawayMax)
  /\ v = "runaway" => Guarding /\ w = Kept(windows[f], stamp[c]) /\ Len(w) >= RunawayMax
  /\ jumbled' = IF \E d \in Same(c) : pc[d] \in {"open", "ended"} /\ stamp[d] > stamp[c]
                  THEN jumbled \cup {c} ELSE jumbled
  /\ UNCHANGED <<now, finger, stamp, seconds>>

\* Every check is one of these.
LEMMA CheckDoes ==
  ASSUME NEW c \in Calls, Check(c)
  PROVE  \E f \in finger[c], v \in {"admitted", "calls", "seconds", "runaway"} : \E w : Checks(c, f, v, w)
<1> DEFINE left(f) == IF Guarding THEN Kept(windows[f], stamp[c]) ELSE windows[f]
           rule(f) == IF Guarding /\ Len(left(f)) >= RunawayMax THEN "runaway" ELSE "admitted"
<1>1. PICK f \in finger[c] :
        /\ pc[c] = "stamped" /\ pc' = [pc EXCEPT ![c] = "open"]
        /\ \/ Verdict(c, f, "calls", windows[f])
           \/ Verdict(c, f, "seconds", windows[f])
           \/ Verdict(c, f, rule(f), left(f))
        /\ jumbled' = IF \E d \in Same(c) : pc[d] \in {"open", "ended"} /\ stamp[d] > stamp[c]
                        THEN jumbled \cup {c} ELSE jumbled
        /\ UNCHANGED <<now, finger, stamp, seconds>>
  BY DEF Check
<1>2. CASE Verdict(c, f, "calls", windows[f])
  <2>2. /\ verdict' = [verdict EXCEPT ![c] = "calls"] /\ total' = total
        /\ windows' = [windows EXCEPT ![f] = windows[f]]
    BY <1>2 DEF Verdict
  <2>1. Checks(c, f, "calls", windows[f]) BY <1>1, <2>2, Zenon DEF Checks
  <2>. QED BY <2>1
<1>3. CASE Verdict(c, f, "seconds", windows[f])
  <2>1. Checks(c, f, "seconds", windows[f]) BY <1>1, <1>3 DEF Checks, Verdict
  <2>. QED BY <2>1
<1>4. CASE Verdict(c, f, rule(f), left(f))
  <2>1. CASE Guarding /\ Len(left(f)) >= RunawayMax
    <3>1. Checks(c, f, "runaway", left(f)) BY <1>1, <1>4, <2>1 DEF Checks, Verdict
    <3>. QED BY <3>1
  <2>2. CASE ~(Guarding /\ Len(left(f)) >= RunawayMax)
    <3>1. Checks(c, f, "admitted", left(f)) BY <1>1, <1>4, <2>2 DEF Checks, Verdict
    <3>. QED BY <3>1
  <2>. QED BY <2>1, <2>2
<1>. QED BY <1>1, <1>2, <1>3, <1>4

\* The types of the budget at all times.
LEMMA BudgetTypedHolds == Spec => []BudgetTyped
<1>1. Init => BudgetTyped
  <2>. QED BY LimitsAreNumbers DEF Init, BudgetTyped, TypeOK
<1>2. BudgetTyped /\ [Next]_vars => BudgetTyped'
  <2> SUFFICES ASSUME BudgetTyped, [Next]_vars PROVE BudgetTyped' OBVIOUS
  <2> USE LimitsAreNumbers
  <2>1. CASE UNCHANGED vars
    BY <2>1 DEF vars, BudgetTyped, TypeOK
  <2>2. CASE Tick
    BY <2>2 DEF Tick, BudgetTyped, TypeOK
  <2>3. ASSUME NEW c \in Calls, Stamp(c) PROVE BudgetTyped'
    <3>1. PICK f \in Fingerprints : finger' = [finger EXCEPT ![c] = {f}]
      BY <2>3 DEF Stamp
    <3>2. TypeOK' BY <2>3, <3>1 DEF Stamp, BudgetTyped, TypeOK
    <3>3. \A d \in Calls : stamp'[d] <= now' BY <2>3 DEF Stamp, BudgetTyped, TypeOK
    <3>4. \A d \in Calls : pc'[d] # "idle" => \E g \in Fingerprints : finger'[d] = {g}
      BY <2>3, <3>1 DEF Stamp, BudgetTyped, TypeOK
    <3>. QED BY <3>2, <3>3, <3>4 DEF BudgetTyped
  <2>4. ASSUME NEW c \in Calls, Check(c) PROVE BudgetTyped'
    <3>0. PICK f \in finger[c], v \in {"admitted", "calls", "seconds", "runaway"} : \E w : Checks(c, f, v, w)
      BY <2>4, CheckDoes
    <3>1. PICK w : Checks(c, f, v, w) BY <3>0
    <3>2. f \in Fingerprints BY DEF BudgetTyped, TypeOK
    <3>3. w \in Seq(0 .. MaxTime) /\ stamp[c] \in 0 .. MaxTime
      <4>1. windows[f] \in Seq(0 .. MaxTime) BY <3>2 DEF BudgetTyped, TypeOK
      <4>2. Kept(windows[f], stamp[c]) \in Seq(0 .. MaxTime) BY <4>1, KeptTyped
      <4>. QED BY <3>1, <4>1, <4>2 DEF Checks, BudgetTyped, TypeOK
    <3>4. windows' \in [Fingerprints -> Seq(0 .. MaxTime)]
      <4>1. Append(w, stamp[c]) \in Seq(0 .. MaxTime) BY <3>3
      <4>. QED BY <3>1, <3>2, <3>3, <4>1 DEF Checks, BudgetTyped, TypeOK
    <3>5. verdict' \in [Calls -> {"none", "admitted", "calls", "seconds", "runaway"}] /\ total' \in Nat
      BY <3>1 DEF Checks, BudgetTyped, TypeOK
    <3>6. TypeOK' BY <3>1, <3>4, <3>5 DEF Checks, Same, BudgetTyped, TypeOK
    <3>. QED BY <3>1, <3>6 DEF Checks, BudgetTyped, TypeOK
  <2>5. ASSUME NEW c \in Calls, End(c) PROVE BudgetTyped'
    <3>1. now - stamp[c] \in Nat BY DEF BudgetTyped, TypeOK
    <3>. QED BY <2>5, <3>1 DEF End, BudgetTyped, TypeOK
  <2>. QED BY <2>1, <2>2, <2>3, <2>4, <2>5 DEF Next
<1>. QED BY <1>1, <1>2, PTL DEF Spec

-----------------------------------------------------------------------------
(***************************************************************************)
(* The runaway guard.  Each entry of a window is the stamp of one admitted *)
(* call; who is missing was too old for a call that has been checked.      *)
(***************************************************************************)
\* v is w without its first n entries, which are older than the window at t.
Drops(w, v, n, t) ==
  /\ n \in 0 .. Len(w) /\ Len(v) = Len(w) - n
  /\ \A i \in 1 .. Len(v) : v[i] = w[n + i]
  /\ \A i \in 1 .. n : w[i] + Window < t

\* A window loses a head of entries that are all too old, and the next is not.
LEMMA KeptDrops ==
  ASSUME NEW w \in Seq(Nat), NEW t \in Nat
  PROVE  \E n : Drops(w, Kept(w, t), n, t) /\ (n < Len(w) => w[n + 1] + Window >= t)
<1> DEFINE fresh == {i \in 1 .. Len(w) : w[i] + Window >= t}
           first == CHOOSE i \in fresh : \A j \in fresh : i <= j
<1>0. Len(w) \in Nat /\ Window \in Nat /\ \A i \in 1 .. Len(w) : w[i] \in Nat BY LimitsAreNumbers
<1>1. CASE fresh = {}
  <2>1. Kept(w, t) = <<>> BY <1>1, Zenon DEF Kept
  <2>2. ASSUME NEW i \in 1 .. Len(w) PROVE w[i] + Window < t
    <3>1. i \notin fresh BY <1>1
    <3>. QED BY <1>0, <3>1
  <2>3. Drops(w, <<>>, Len(w), t) BY <1>0, <2>2 DEF Drops
  <2>. QED BY <1>0, <2>1, <2>3
<1>2. CASE fresh # {}
  <2>1. \E i \in fresh : \A j \in fresh : i <= j
    <3>1. fresh \subseteq Nat OBVIOUS
    <3> HIDE DEF fresh
    <3>. QED BY <1>2, <3>1, NatSetHasLeast
  <2>2. first \in fresh /\ \A j \in fresh : first <= j BY <2>1
  <2>3. Kept(w, t) = SubSeq(w, first, Len(w)) BY <1>2, Zenon DEF Kept
  <2> HIDE DEF first
  <2>4. first \in 1 .. Len(w) /\ w[first] + Window >= t BY <2>2
  <2>5. /\ Len(Kept(w, t)) = Len(w) - first + 1
        /\ \A i \in 1 .. Len(w) - first + 1 : Kept(w, t)[i] = w[first + i - 1]
    <3>1. first \in Int /\ Len(w) \in Int /\ first <= Len(w) /\ \A i \in first .. Len(w) : w[i] \in Nat
      BY <1>0, <2>4
    <3>. QED BY <2>3, <3>1, SubSeqProperties
  <2>6. \A i \in 1 .. first - 1 : w[i] + Window < t
    <3>1. ASSUME NEW i \in 1 .. first - 1 PROVE w[i] + Window < t
      <4>1. i \in 1 .. Len(w) /\ ~(first <= i) BY <1>0, <2>4
      <4>2. i \notin fresh BY <2>2, <4>1
      <4>. QED BY <1>0, <4>1, <4>2
    <3>. QED BY <3>1
  <2>7. first - 1 \in 0 .. Len(w) /\ (first - 1) + 1 = first /\ Len(w) - first + 1 = Len(w) - (first - 1)
        /\ \A i \in Nat : first + i - 1 = (first - 1) + i
    BY <1>0, <2>4
  <2>8. Drops(w, Kept(w, t), first - 1, t)
    <3>1. Len(Kept(w, t)) = Len(w) - (first - 1) BY <2>5, <2>7
    <3>2. \A i \in 1 .. Len(Kept(w, t)) : Kept(w, t)[i] = w[(first - 1) + i] BY <1>0, <2>4, <2>5, <2>7
    <3>. QED BY <2>6, <2>7, <3>1, <3>2 DEF Drops
  <2>. QED BY <2>4, <2>7, <2>8
<1>. QED BY <1>1, <1>2

\* The admitted calls of a fingerprint, and all calls that have been checked.
Of(f) == {d \in Admitted : finger[d] = {f}}
Checked == {c \in Calls : pc[c] \in {"open", "ended"}}

\* a tells whose stamp each entry of w is.
Entered(f, w, a) ==
  /\ a \in [1 .. Len(w) -> Of(f)]
  /\ \A i, j \in 1 .. Len(w) : a[i] = a[j] => i = j
  /\ \A i \in 1 .. Len(w) : w[i] = stamp[a[i]]

\* Whoever is missing from w was too old for a call that has been checked.
Missing(f, w, a) ==
  \A d \in Of(f) : \/ \E i \in 1 .. Len(w) : a[i] = d
                   \/ \E e \in Checked : finger[e] = {f} /\ stamp[d] + Window < stamp[e]

\* While the calls are checked in the order of their stamps, a window ascends.
Ascending(w) == \A i, j \in 1 .. Len(w) : i <= j => w[i] <= w[j]
InOrder(f) == \A c \in jumbled : finger[c] # {f}

\* Every entry is the stamp of a call of its own, and who is missing was too
\* old; the history and the verdicts are those of calls that were checked.
Recorded ==
  /\ jumbled \subseteq Checked /\ Admitted \subseteq Checked
  /\ \A c \in Calls : pc[c] \in {"idle", "stamped"} => verdict[c] = "none"
  /\ Guarding => \A f \in Fingerprints :
       /\ \E a : Entered(f, windows[f], a) /\ Missing(f, windows[f], a)
       /\ InOrder(f) => Ascending(windows[f])

RunawayInv == Recorded /\ RunawayIsExact

\* What the types say of the numbers.
LEMMA BudgetFacts ==
  ASSUME BudgetTyped
  PROVE  /\ windows \in [Fingerprints -> Seq(Nat)]
         /\ stamp \in [Calls -> Nat] /\ now \in Nat /\ Window \in Nat /\ RunawayMax \in Nat
<1>1. \A f \in Fingerprints : windows[f] \in Seq(0 .. MaxTime) BY DEF BudgetTyped, TypeOK
<1>2. 0 .. MaxTime \subseteq Nat BY LimitsAreNumbers
<1>3. \A f \in Fingerprints : windows[f] \in Seq(Nat) BY <1>1, <1>2, SeqMonotonic
<1>4. windows = [f \in Fingerprints |-> windows[f]] BY DEF BudgetTyped, TypeOK
<1>5. windows \in [Fingerprints -> Seq(Nat)] BY <1>3, <1>4, Zenon
<1>. QED BY <1>5, LimitsAreNumbers DEF BudgetTyped, TypeOK

\* What the check leaves of a window is still told by its calls.
LEMMA DropsEntered ==
  ASSUME BudgetTyped, NEW f, NEW w \in Seq(Nat), NEW a, Entered(f, w, a), NEW v \in Seq(Nat), NEW n, NEW t,
         Drops(w, v, n, t)
  PROVE  /\ Entered(f, v, [i \in 1 .. Len(v) |-> a[n + i]])
         /\ Ascending(w) => Ascending(v)
<1> DEFINE b == [i \in 1 .. Len(v) |-> a[n + i]]
<1>1. Len(w) \in Nat /\ Len(v) \in Nat /\ n \in Nat /\ \A i \in 1 .. Len(v) : n + i \in 1 .. Len(w)
  BY DEF Drops
<1>2. \A i \in 1 .. Len(v) : b[i] = a[n + i] /\ v[i] = w[n + i] BY DEF Drops
<1>3. \A i \in 1 .. Len(v) : b[i] \in Of(f) /\ v[i] = stamp[b[i]] BY <1>1, <1>2 DEF Entered
<1>4. \A i, j \in 1 .. Len(v) : b[i] = b[j] => i = j
  <2>1. ASSUME NEW i \in 1 .. Len(v), NEW j \in 1 .. Len(v), b[i] = b[j] PROVE i = j
    <3>1. n + i = n + j BY <1>1, <1>2, <2>1 DEF Entered
    <3>. QED BY <1>1, <3>1
  <2>. QED BY <2>1
<1>5. Entered(f, v, b) BY <1>3, <1>4 DEF Entered
<1>6. ASSUME Ascending(w) PROVE Ascending(v)
  <2>1. ASSUME NEW i \in 1 .. Len(v), NEW j \in 1 .. Len(v), i <= j PROVE v[i] <= v[j]
    <3>1. n + i <= n + j BY <1>1, <2>1
    <3>. QED BY <1>1, <1>2, <1>6, <3>1 DEF Ascending
  <2>. QED BY <2>1 DEF Ascending
<1>. QED BY <1>5, <1>6

\* The call that is checked, before its check and after it.
LEMMA CheckFacts ==
  ASSUME BudgetTyped, Recorded, NEW c \in Calls, NEW f \in finger[c],
         NEW v \in {"admitted", "calls", "seconds", "runaway"}, NEW w, Checks(c, f, v, w)
  PROVE  /\ finger[c] = {f} /\ f \in Fingerprints /\ UNCHANGED <<finger, stamp, now>>
         /\ c \notin Checked /\ c \notin Admitted /\ c \notin jumbled
         /\ Checked' = Checked \cup {c} /\ jumbled \subseteq jumbled' /\ jumbled' \subseteq jumbled \cup {c}
         /\ Admitted' = IF v = "admitted" THEN Admitted \cup {c} ELSE Admitted
         /\ c \notin jumbled' => \A e \in Checked : finger[e] = {f} => stamp[e] <= stamp[c]
<1>1. pc[c] = "stamped" /\ pc' = [pc EXCEPT ![c] = "open"] /\ verdict' = [verdict EXCEPT ![c] = v]
  BY DEF Checks
<1>2. UNCHANGED <<finger, stamp, now>> BY DEF Checks
<1>3. finger[c] = {f} /\ f \in Fingerprints
  BY <1>1 DEF BudgetTyped, TypeOK
<1>4. verdict[c] = "none" BY <1>1 DEF Recorded
<1>5. c \notin Checked /\ Checked' = Checked \cup {c} BY <1>1 DEF Checked, BudgetTyped, TypeOK
<1>6. c \notin Admitted /\ Admitted' = IF v = "admitted" THEN Admitted \cup {c} ELSE Admitted
  BY <1>1, <1>4 DEF Admitted, BudgetTyped, TypeOK
<1>7. c \notin jumbled BY <1>5 DEF Recorded
<1>8. jumbled' = IF \E d \in Same(c) : pc[d] \in {"open", "ended"} /\ stamp[d] > stamp[c]
                   THEN jumbled \cup {c} ELSE jumbled
  BY DEF Checks
<1>9. ASSUME c \notin jumbled', NEW e \in Checked, finger[e] = {f} PROVE stamp[e] <= stamp[c]
  <2>1. e \in Same(c) /\ pc[e] \in {"open", "ended"} BY <1>3, <1>9 DEF Same, Checked
  <2>2. ~(stamp[e] > stamp[c]) BY <1>8, <1>9, <2>1
  <2>. QED BY <2>1, <2>2, BudgetFacts DEF Same
<1>. QED BY <1>2, <1>3, <1>5, <1>6, <1>7, <1>8, <1>9

\* What is left of the window when c is checked: nobody of f is missing but
\* those who are too old for c or for an earlier call.
Left(c, f, w, b) ==
  /\ Entered(f, w, b)
  /\ \A d \in Of(f) : \/ \E i \in 1 .. Len(w) : b[i] = d
                      \/ \E e \in Checked \cup {c} : finger[e] = {f} /\ stamp[d] + Window < stamp[e]

\* It is what the check has left: its head is young enough for the call.
LEMMA CheckWindow ==
  ASSUME BudgetTyped, Recorded, Guarding, NEW c \in Calls, NEW f \in finger[c],
         NEW v \in {"admitted", "calls", "seconds", "runaway"}, NEW w, Checks(c, f, v, w)
  PROVE  /\ w \in Seq(Nat)
         /\ InOrder(f) => Ascending(w)
         /\ w = Kept(windows[f], stamp[c]) /\ Len(w) > 0 => w[1] + Window >= stamp[c]
         /\ \E b : Left(c, f, w, b)
<1>1. f \in Fingerprints /\ finger[c] = {f} BY CheckFacts
<1>2. windows[f] \in Seq(Nat) /\ stamp[c] \in Nat /\ Window \in Nat BY <1>1, BudgetFacts
<1>3. PICK u : u = windows[f] OBVIOUS
<1>4. w \in Seq(Nat) /\ \E n : /\ Drops(u, w, n, stamp[c])
                               /\ w = Kept(u, stamp[c]) /\ n < Len(u) => u[n + 1] + Window >= stamp[c]
  <2>1. w = u \/ w = Kept(u, stamp[c]) BY <1>3 DEF Checks
  <2>2. PICK m : Drops(u, Kept(u, stamp[c]), m, stamp[c]) /\ (m < Len(u) => u[m + 1] + Window >= stamp[c])
    BY <1>2, <1>3, KeptDrops
  <2>3. Kept(u, stamp[c]) \in Seq(Nat) BY <1>2, <1>3, KeptTyped
  <2>4. CASE w = Kept(u, stamp[c]) BY <2>2, <2>3, <2>4
  <2>5. CASE w = u /\ w # Kept(u, stamp[c])
    <3>1. Drops(u, u, 0, stamp[c]) BY <1>2, <1>3 DEF Drops
    <3>. QED BY <1>2, <1>3, <2>5, <3>1
  <2>. QED BY <2>1, <2>4, <2>5
<1>5. PICK n : /\ Drops(u, w, n, stamp[c])
               /\ w = Kept(u, stamp[c]) /\ n < Len(u) => u[n + 1] + Window >= stamp[c]
  BY <1>4
<1>6. PICK a : Entered(f, u, a) /\ Missing(f, u, a) BY <1>1, <1>3 DEF Recorded
<1> DEFINE b == [i \in 1 .. Len(w) |-> a[n + i]]
<1>7. Entered(f, w, b) /\ (Ascending(u) => Ascending(w)) BY <1>2, <1>3, <1>4, <1>5, <1>6, DropsEntered
<1>8. InOrder(f) => Ascending(w) BY <1>1, <1>3, <1>7 DEF Recorded
<1>9. /\ n \in Nat /\ Len(w) \in Nat /\ Len(u) \in Nat /\ Len(w) = Len(u) - n
      /\ \A i \in 1 .. Len(w) : w[i] = u[n + i] /\ b[i] = a[n + i]
      /\ \A i \in 1 .. n : u[i] + Window < stamp[c]
  BY <1>2, <1>3, <1>5 DEF Drops
<1>10. w = Kept(windows[f], stamp[c]) /\ Len(w) > 0 => w[1] + Window >= stamp[c]
  <2>1. ASSUME w = Kept(windows[f], stamp[c]), Len(w) > 0 PROVE w[1] + Window >= stamp[c]
    <3>1. n < Len(u) /\ 1 \in 1 .. Len(w) BY <1>9, <2>1
    <3>2. u[n + 1] + Window >= stamp[c] BY <1>3, <1>5, <2>1, <3>1
    <3>3. w[1] = u[n + 1] BY <1>9, <3>1
    <3>. QED BY <3>2, <3>3
  <2>. QED BY <2>1
<1> HIDE DEF b
<1>11. ASSUME NEW d \in Of(f)
       PROVE  \/ \E i \in 1 .. Len(w) : b[i] = d
              \/ \E e \in Checked \cup {c} : finger[e] = {f} /\ stamp[d] + Window < stamp[e]
  <2>1. ASSUME NEW i \in 1 .. Len(u), a[i] = d
        PROVE  \/ \E j \in 1 .. Len(w) : b[j] = d
               \/ \E e \in Checked \cup {c} : finger[e] = {f} /\ stamp[d] + Window < stamp[e]
    <3>1. CASE i <= n
      <4>1. u[i] + Window < stamp[c] BY <1>9, <2>1, <3>1
      <4>2. u[i] = stamp[d] BY <1>6, <2>1 DEF Entered
      <4>. QED BY <1>1, <4>1, <4>2
    <3>2. CASE ~(i <= n)
      <4>1. i - n \in 1 .. Len(w) /\ n + (i - n) = i BY <1>9, <2>1, <3>2
      <4>2. b[i - n] = d BY <1>9, <2>1, <4>1
      <4>. QED BY <4>1, <4>2
    <3>. QED BY <3>1, <3>2
  <2>2. \/ \E i \in 1 .. Len(u) : a[i] = d
        \/ \E e \in Checked : finger[e] = {f} /\ stamp[d] + Window < stamp[e]
    BY <1>6 DEF Missing
  <2>. QED BY <2>1, <2>2
<1>12. Left(c, f, w, b) BY <1>7, <1>11 DEF Left
<1>. QED BY <1>4, <1>8, <1>10, <1>12

\* A check keeps the record: the call's own entry is added last.
LEMMA CheckRecords ==
  ASSUME BudgetTyped, Recorded, NEW c \in Calls, NEW f \in finger[c],
         NEW v \in {"admitted", "calls", "seconds", "runaway"}, NEW w, Checks(c, f, v, w)
  PROVE  Recorded'
<1>1. /\ finger[c] = {f} /\ f \in Fingerprints /\ UNCHANGED <<finger, stamp, now>>
      /\ c \notin Checked /\ c \notin Admitted /\ c \notin jumbled
      /\ Checked' = Checked \cup {c} /\ jumbled \subseteq jumbled' /\ jumbled' \subseteq jumbled \cup {c}
      /\ Admitted' = IF v = "admitted" THEN Admitted \cup {c} ELSE Admitted
      /\ c \notin jumbled' => \A e \in Checked : finger[e] = {f} => stamp[e] <= stamp[c]
  BY CheckFacts
<1>2. jumbled' \subseteq Checked' /\ Admitted' \subseteq Checked' BY <1>1 DEF Recorded
<1>3. \A d \in Calls : pc'[d] \in {"idle", "stamped"} => verdict'[d] = "none"
  BY DEF Checks, Recorded, BudgetTyped, TypeOK
<1>4. ASSUME Guarding, NEW g \in Fingerprints
      PROVE  /\ \E a : Entered(g, windows[g], a)' /\ Missing(g, windows[g], a)'
             /\ InOrder(g)' => Ascending(windows'[g])
  <2>0. InOrder(g)' => InOrder(g) BY <1>1 DEF InOrder
  <2>1. windows' = [windows EXCEPT ![f] = IF v = "admitted" /\ Guarding THEN Append(w, stamp[c]) ELSE w]
    BY DEF Checks
  <2>2. DOMAIN windows = Fingerprints BY BudgetFacts
  <2>3. CASE g # f
    <3>1. windows'[g] = windows[g] BY <2>1, <2>2, <2>3
    <3>2. Of(g)' = Of(g) BY <1>1, <2>3 DEF Of
    <3>3. PICK a : Entered(g, windows[g], a) /\ Missing(g, windows[g], a) BY <1>4 DEF Recorded
    <3>4. Entered(g, windows[g], a)' BY <1>1, <3>1, <3>2, <3>3 DEF Entered
    <3>5. Missing(g, windows[g], a)' BY <1>1, <3>1, <3>2, <3>3 DEF Missing
    <3>6. InOrder(g)' => Ascending(windows'[g]) BY <1>4, <2>0, <3>1 DEF Recorded
    <3>. QED BY <3>4, <3>5, <3>6
  <2>4. CASE g = f
    <3>1. w \in Seq(Nat) /\ (InOrder(f) => Ascending(w)) BY <1>4, CheckWindow
    <3>2. PICK b : Left(c, f, w, b) BY <1>4, CheckWindow
    <3>3. /\ Entered(f, w, b)
          /\ \A d \in Of(f) : \/ \E i \in 1 .. Len(w) : b[i] = d
                              \/ \E e \in Checked \cup {c} : finger[e] = {f} /\ stamp[d] + Window < stamp[e]
      BY <3>2 DEF Left
    <3>4. CASE v # "admitted"
      <4>1. windows'[f] = w BY <1>1, <2>1, <2>2, <3>4
      <4>2. Of(f)' = Of(f) BY <1>1, <3>4 DEF Of
      <4>3. Entered(f, windows[f], b)' BY <1>1, <3>3, <4>1, <4>2 DEF Entered
      <4>4. Missing(f, windows[f], b)' BY <1>1, <3>3, <4>1, <4>2 DEF Missing
      <4>. QED BY <2>0, <2>4, <3>1, <4>1, <4>3, <4>4
    <3>5. CASE v = "admitted"
      <4> DEFINE n == Len(w)
                 W == Append(w, stamp[c])
                 e == [i \in 1 .. n + 1 |-> IF i = n + 1 THEN c ELSE b[i]]
      <4>1. windows'[f] = W BY <1>1, <1>4, <2>1, <2>2, <3>5
      <4>2. Of(f)' = Of(f) \cup {c} /\ c \notin Of(f) BY <1>1, <3>5 DEF Of, Admitted
      <4>3. stamp[c] \in Nat BY BudgetFacts
      <4>4. /\ n \in Nat /\ Len(W) = n + 1 /\ W[n + 1] = stamp[c] /\ \A i \in 1 .. n : W[i] = w[i]
        BY <3>1, <4>3
      <4>5. /\ e[n + 1] = c /\ \A i \in 1 .. n : e[i] = b[i]
            /\ 1 .. n + 1 = (1 .. n) \cup {n + 1} /\ n + 1 \notin 1 .. n /\ e = [i \in 1 .. n + 1 |-> e[i]]
        BY <4>4
      <4>6. /\ \A i \in 1 .. n : b[i] \in Of(f) /\ w[i] = stamp[b[i]]
            /\ \A i, j \in 1 .. n : b[i] = b[j] => i = j
        BY <3>3 DEF Entered
      <4> HIDE DEF n, W, e
      <4>7. \A i \in 1 .. n + 1 : e[i] \in Of(f) \cup {c} /\ W[i] = stamp[e[i]] BY <4>4, <4>5, <4>6
      <4>8. e \in [1 .. n + 1 -> Of(f) \cup {c}] BY <4>5, <4>7, Zenon
      <4>9. ASSUME NEW i \in 1 .. n + 1, NEW j \in 1 .. n + 1, e[i] = e[j] PROVE i = j
        <5>1. CASE i \in 1 .. n /\ j \in 1 .. n BY <4>5, <4>6, <4>9, <5>1
        <5>2. \A h \in 1 .. n : e[h] # c BY <4>2, <4>5, <4>6
        <5>3. CASE i = n + 1 \/ j = n + 1 BY <4>5, <4>9, <5>2, <5>3
        <5>. QED BY <4>5, <5>1, <5>3
      <4>10. Entered(f, windows[f], e)' BY <1>1, <4>1, <4>2, <4>4, <4>7, <4>8, <4>9 DEF Entered
      <4>11. Missing(f, windows[f], e)'
        <5>1. ASSUME NEW d \in Of(f)
              PROVE  \/ \E i \in 1 .. n + 1 : e[i] = d
                     \/ \E h \in Checked \cup {c} : finger[h] = {f} /\ stamp[d] + Window < stamp[h]
          BY <3>3, <4>5 DEF n
        <5>2. \E i \in 1 .. n + 1 : e[i] = c BY <4>5
        <5>. QED BY <1>1, <4>1, <4>2, <4>4, <5>1, <5>2 DEF Missing
      <4>12. ASSUME InOrder(f)' PROVE Ascending(W)
        <5>1. c \notin jumbled' BY <1>1, <4>12 DEF InOrder
        <5>2. \A i \in 1 .. n : w[i] <= stamp[c]
          <6>1. ASSUME NEW i \in 1 .. n PROVE w[i] <= stamp[c]
            <7>1. b[i] \in Checked /\ finger[b[i]] = {f} /\ w[i] = stamp[b[i]] BY <4>6 DEF Of, Recorded
            <7>. QED BY <1>1, <5>1, <7>1
          <6>. QED BY <6>1
        <5>3. \A i, j \in 1 .. n : i <= j => w[i] <= w[j] BY <2>0, <2>4, <3>1, <4>12 DEF Ascending, n
        <5>4. ASSUME NEW i \in 1 .. n + 1, NEW j \in 1 .. n + 1, i <= j PROVE W[i] <= W[j]
          <6>1. CASE j \in 1 .. n
            <7>1. i \in 1 .. n BY <4>4, <5>4, <6>1
            <7>. QED BY <4>4, <5>3, <5>4, <6>1, <7>1
          <6>2. CASE j = n + 1 /\ i \in 1 .. n BY <4>4, <5>2, <6>2
          <6>3. CASE j = n + 1 /\ i = n + 1 BY <4>3, <4>4, <6>3
          <6>. QED BY <4>5, <6>1, <6>2, <6>3
        <5>. QED BY <4>4, <5>4 DEF Ascending
      <4>. QED BY <2>4, <4>1, <4>10, <4>11, <4>12
    <3>. QED BY <3>4, <3>5
  <2>. QED BY <2>3, <2>4
<1>5. Guarding' = Guarding BY DEF Guarding
<1>. QED BY <1>2, <1>3, <1>4, <1>5 DEF Recorded

\* The two halves of RunawayIsExact, for one call.
NotTooLate(c) == Guarding /\ c \in Admitted \ jumbled => Cardinality(InWindow(c) \ jumbled) <= RunawayMax
NotTooEarly(c) == verdict[c] = "runaway" /\ Same(c) \cap jumbled = {} => Cardinality(InWindow(c)) >= RunawayMax

\* All of it is about calls, which are finitely many.
LEMMA WindowsAreFinite ==
  /\ \A c : IsFiniteSet(InWindow(c)) /\ IsFiniteSet(InWindow(c) \ jumbled)
  /\ \A c : IsFiniteSet(InWindow(c)') /\ IsFiniteSet((InWindow(c) \ jumbled)')
<1>1. \A S : S \subseteq Calls => IsFiniteSet(S) BY CallsAreFinite, FS_Subset
<1>2. \A c : InWindow(c) \subseteq Calls /\ InWindow(c)' \subseteq Calls BY DEF InWindow, Same
<1>. QED BY <1>1, <1>2

\* The call that is admitted: those within the window before it are in what is
\* left of the window, and that is shorter than the guard's limit.
LEMMA AdmittedInTime ==
  ASSUME BudgetTyped, Recorded, NEW c \in Calls, NEW f \in finger[c], NEW w, Checks(c, f, "admitted", w)
  PROVE  NotTooLate(c)'
<1>1. /\ finger[c] = {f} /\ f \in Fingerprints /\ UNCHANGED <<finger, stamp, now>>
      /\ c \notin Checked /\ c \notin Admitted /\ c \notin jumbled
      /\ Checked' = Checked \cup {c} /\ jumbled \subseteq jumbled' /\ jumbled' \subseteq jumbled \cup {c}
      /\ Admitted' = Admitted \cup {c}
      /\ c \notin jumbled' => \A e \in Checked : finger[e] = {f} => stamp[e] <= stamp[c]
  BY CheckFacts
<1> SUFFICES ASSUME Guarding, c \notin jumbled'
             PROVE  Cardinality((InWindow(c) \ jumbled)') <= RunawayMax
  BY DEF NotTooLate, Guarding
<1>2. w \in Seq(Nat) BY CheckWindow
<1>3. PICK b : Left(c, f, w, b) BY CheckWindow
<1>4. Len(w) \in Nat /\ ~(Len(w) >= RunawayMax) /\ RunawayMax \in Nat
  BY <1>2, BudgetFacts DEF Checks
<1> DEFINE kept == {b[i] : i \in 1 .. Len(w)}
<1>5. IsFiniteSet(kept) /\ Cardinality(kept) <= Len(w)
  <2>1. b \in [1 .. Len(w) -> kept] /\ \A d \in kept : \E i \in 1 .. Len(w) : b[i] = d
    BY <1>3 DEF Left, Entered
  <2>2. b \in Surjection(1 .. Len(w), kept) BY <2>1, Fun_IsSurj
  <2>3. \A n \in Nat : IsFiniteSet(1 .. n) /\ Cardinality(1 .. n) = n BY FS_Interval
  <2> HIDE DEF kept
  <2>4. IsFiniteSet(1 .. Len(w)) /\ Cardinality(1 .. Len(w)) = Len(w) BY <1>4, <2>3
  <2>. QED BY <2>2, <2>4, FS_Surjection
<1>6. (InWindow(c) \ jumbled)' \subseteq kept \cup {c}
  <2>1. ASSUME NEW d \in InWindow(c)', d # c PROVE d \in kept
    <3>1. d \in Of(f) /\ stamp[d] + Window >= stamp[c]
      BY <1>1, <2>1 DEF InWindow, Same, Of, Admitted
    <3>2. ASSUME NEW e \in Checked \cup {c}, finger[e] = {f} PROVE ~(stamp[d] + Window < stamp[e])
      <4>1. stamp[e] <= stamp[c]
        <5>1. stamp[c] \in Nat BY BudgetFacts
        <5>. QED BY <1>1, <3>2, <5>1
      <4>2. stamp[e] \in Nat /\ stamp[c] \in Nat /\ stamp[d] + Window \in Nat
        BY <3>1, BudgetFacts DEF Checked, Of, Admitted
      <4>. QED BY <3>1, <4>1, <4>2
    <3>. QED BY <1>3, <3>1, <3>2 DEF Left
  <2>. QED BY <2>1
<1> HIDE DEF kept
<1>7. /\ IsFiniteSet(kept \cup {c})
      /\ Cardinality(kept \cup {c}) = IF c \in kept THEN Cardinality(kept) ELSE Cardinality(kept) + 1
  BY <1>5, FS_AddElement, Zenon
<1>8. Cardinality((InWindow(c) \ jumbled)') <= Cardinality(kept \cup {c})
  BY <1>6, <1>7, FS_Subset
<1>9. /\ Cardinality(kept) \in Nat /\ Cardinality(kept \cup {c}) \in Nat
      /\ Cardinality((InWindow(c) \ jumbled)') \in Nat
  BY <1>5, <1>7, WindowsAreFinite, FS_CardinalityType
<1>. QED BY <1>4, <1>5, <1>7, <1>8, <1>9

\* The call that is stopped: as long as the calls are checked in the order of
\* their stamps, all that is left of the window is young enough.
LEMMA StoppedInTime ==
  ASSUME BudgetTyped, Recorded, NEW c \in Calls, NEW f \in finger[c], NEW w, Checks(c, f, "runaway", w)
  PROVE  NotTooEarly(c)'
<1>1. /\ finger[c] = {f} /\ f \in Fingerprints /\ UNCHANGED <<finger, stamp, now>>
      /\ c \notin Checked /\ c \notin Admitted /\ c \notin jumbled
      /\ Checked' = Checked \cup {c} /\ jumbled \subseteq jumbled' /\ jumbled' \subseteq jumbled \cup {c}
      /\ Admitted' = Admitted
      /\ c \notin jumbled' => \A e \in Checked : finger[e] = {f} => stamp[e] <= stamp[c]
  BY CheckFacts
<1> SUFFICES ASSUME (Same(c) \cap jumbled)' = {} PROVE Cardinality(InWindow(c)') >= RunawayMax
  BY DEF NotTooEarly
<1>2. Guarding /\ w = Kept(windows[f], stamp[c]) /\ Len(w) >= RunawayMax BY DEF Checks
<1>3. c \notin jumbled' /\ InOrder(f)
  <2>1. c \in Same(c)' BY DEF Same
  <2>2. \A d \in jumbled : d \in Calls /\ d \notin Same(c) BY <1>1 DEF Same, Recorded, Checked
  <2>. QED BY <1>1, <2>1, <2>2 DEF InOrder, Same
<1>4. w \in Seq(Nat) /\ Ascending(w) /\ (Len(w) > 0 => w[1] + Window >= stamp[c])
  BY <1>2, <1>3, CheckWindow
<1>5. PICK b : Left(c, f, w, b) BY <1>2, CheckWindow
<1>6. ASSUME NEW i \in 1 .. Len(w) PROVE b[i] \in InWindow(c)'
  <2>1. b[i] \in Of(f) /\ w[i] = stamp[b[i]] BY <1>5 DEF Left, Entered
  <2>2. w[1] <= w[i] /\ Len(w) > 0 /\ 1 \in 1 .. Len(w)
    <3>1. Len(w) \in Nat BY <1>4
    <3>2. 1 \in 1 .. Len(w) /\ 1 <= i /\ Len(w) > 0 BY <3>1
    <3>. QED BY <1>4, <3>2 DEF Ascending
  <2>3. w[1] \in Nat /\ w[i] \in Nat /\ Window \in Nat /\ stamp[c] \in Nat BY <1>4, <2>2, BudgetFacts
  <2>4. stamp[b[i]] + Window >= stamp[c] BY <1>4, <2>1, <2>2, <2>3
  <2>5. stamp[b[i]] <= stamp[c] BY <1>1, <1>3, <2>1 DEF Of, Recorded
  <2>. QED BY <1>1, <2>1, <2>4, <2>5 DEF InWindow, Same, Of, Admitted
<1>7. b \in Injection(1 .. Len(w), InWindow(c)')
  <2>1. b \in [1 .. Len(w) -> InWindow(c)'] BY <1>5, <1>6 DEF Left, Entered
  <2>2. \A i, j \in 1 .. Len(w) : b[i] = b[j] => i = j BY <1>5 DEF Left, Entered
  <2>. QED BY <2>1, <2>2, Fun_IsInj
<1>8. Cardinality(1 .. Len(w)) <= Cardinality(InWindow(c)')
  BY <1>7, WindowsAreFinite, FS_Injection
<1>9. Cardinality(1 .. Len(w)) = Len(w) /\ Len(w) \in Nat
  <2>1. \A n \in Nat : Cardinality(1 .. n) = n BY FS_Interval
  <2>. QED BY <1>4, <2>1
<1>10. Cardinality(InWindow(c)') \in Nat BY WindowsAreFinite, FS_CardinalityType
<1>. QED BY <1>2, <1>8, <1>9, <1>10, BudgetFacts

\* A check decides its own call exactly; of the others it adds to the window of
\* those only that have the same stamp, and takes nobody out.
LEMMA CheckExact ==
  ASSUME BudgetTyped, RunawayInv, NEW c \in Calls, NEW f \in finger[c],
         NEW v \in {"admitted", "calls", "seconds", "runaway"}, NEW w, Checks(c, f, v, w)
  PROVE  RunawayIsExact'
<1>0. Recorded BY DEF RunawayInv
<1>1. /\ finger[c] = {f} /\ f \in Fingerprints /\ UNCHANGED <<finger, stamp, now>>
      /\ c \notin Checked /\ c \notin Admitted /\ c \notin jumbled
      /\ Checked' = Checked \cup {c} /\ jumbled \subseteq jumbled' /\ jumbled' \subseteq jumbled \cup {c}
      /\ Admitted' = IF v = "admitted" THEN Admitted \cup {c} ELSE Admitted
      /\ c \notin jumbled' => \A e \in Checked : finger[e] = {f} => stamp[e] <= stamp[c]
  BY <1>0, CheckFacts
<1>2. verdict' = [verdict EXCEPT ![c] = v] /\ verdict'[c] = v BY DEF Checks, BudgetTyped, TypeOK
<1>3. NotTooLate(c)'
  <2>1. CASE v = "admitted" BY <1>0, <2>1, AdmittedInTime
  <2>2. CASE v # "admitted" BY <1>1, <2>2 DEF NotTooLate
  <2>. QED BY <2>1, <2>2
<1>4. NotTooEarly(c)'
  <2>1. CASE v = "runaway" BY <1>0, <2>1, StoppedInTime
  <2>2. CASE v # "runaway" BY <1>2, <2>2 DEF NotTooEarly
  <2>. QED BY <2>1, <2>2
<1>5. ASSUME NEW d \in Calls, d # c PROVE NotTooLate(d)'
  <2> SUFFICES ASSUME Guarding, d \in Admitted, d \notin jumbled'
               PROVE  Cardinality((InWindow(d) \ jumbled)') <= RunawayMax
    BY <1>1, <1>5 DEF NotTooLate, Guarding
  <2>1. d \notin jumbled /\ d \in Checked BY <1>0, <1>1 DEF Recorded
  <2>2. Cardinality(InWindow(d) \ jumbled) <= RunawayMax BY <2>1 DEF RunawayInv, RunawayIsExact
  <2>3. CASE c \in (InWindow(d) \ jumbled)'
    <3>1. finger[d] = {f} /\ stamp[c] <= stamp[d] /\ c \in Admitted' /\ c \notin jumbled'
      BY <1>1, <2>3 DEF InWindow, Same
    <3>2. stamp[d] = stamp[c]
      <4>1. stamp[d] <= stamp[c] BY <1>1, <2>1, <3>1
      <4>. QED BY <3>1, <4>1, BudgetFacts
    <3>3. InWindow(d)' = InWindow(c)' BY <1>1, <3>1, <3>2 DEF InWindow, Same
    <3>. QED BY <1>3, <3>1, <3>3 DEF NotTooLate, Guarding
  <2>4. CASE c \notin (InWindow(d) \ jumbled)'
    <3>1. (InWindow(d) \ jumbled)' \subseteq InWindow(d) \ jumbled
      BY <1>1, <2>4 DEF InWindow, Same
    <3>2. Cardinality((InWindow(d) \ jumbled)') <= Cardinality(InWindow(d) \ jumbled)
      BY <3>1, WindowsAreFinite, FS_Subset
    <3>3. /\ Cardinality((InWindow(d) \ jumbled)') \in Nat
          /\ Cardinality(InWindow(d) \ jumbled) \in Nat
      BY WindowsAreFinite, FS_CardinalityType
    <3>. QED BY <2>2, <3>2, <3>3, BudgetFacts
  <2>. QED BY <2>3, <2>4
<1>6. ASSUME NEW d \in Calls, d # c PROVE NotTooEarly(d)'
  <2> SUFFICES ASSUME verdict[d] = "runaway", (Same(d) \cap jumbled)' = {}
               PROVE  Cardinality(InWindow(d)') >= RunawayMax
    BY <1>2, <1>6 DEF NotTooEarly
  <2>1. Same(d) \cap jumbled = {} BY <1>1 DEF Same
  <2>2. Cardinality(InWindow(d)) >= RunawayMax BY <2>1 DEF RunawayInv, RunawayIsExact
  <2>3. InWindow(d) \subseteq InWindow(d)' BY <1>1 DEF InWindow, Same
  <2>4. Cardinality(InWindow(d)) <= Cardinality(InWindow(d)') BY <2>3, WindowsAreFinite, FS_Subset
  <2>5. Cardinality(InWindow(d)) \in Nat /\ Cardinality(InWindow(d)') \in Nat
    BY WindowsAreFinite, FS_CardinalityType
  <2>. QED BY <2>2, <2>4, <2>5, BudgetFacts
<1>7. \A d \in Calls : NotTooLate(d)' /\ NotTooEarly(d)' BY <1>3, <1>4, <1>5, <1>6
<1>. QED BY <1>7 DEF RunawayIsExact, NotTooLate, NotTooEarly, Guarding

\* The other steps leave the record alone.
LEMMA RunawayStep ==
  ASSUME BudgetTyped, RunawayInv, [Next]_vars
  PROVE  RunawayInv'
<1>0. Recorded BY DEF RunawayInv
<1>1. ASSUME UNCHANGED <<finger, stamp, verdict, windows, jumbled>>, Checked' = Checked,
             \A c \in Calls : pc'[c] \in {"idle", "stamped"} => pc[c] \in {"idle", "stamped"}
      PROVE  RunawayInv'
  <2>1. Admitted' = Admitted BY <1>1 DEF Admitted
  <2>2. \A d \in Calls : Same(d)' = Same(d) BY <1>1 DEF Same
  <2>3. \A d \in Calls : InWindow(d)' = InWindow(d) BY <1>1, <2>1, <2>2 DEF InWindow
  <2>4. RunawayIsExact' BY <1>1, <2>1, <2>2, <2>3 DEF RunawayInv, RunawayIsExact, Guarding
  <2>5. Recorded'
    <3>1. \A f : Of(f)' = Of(f) /\ InOrder(f)' = InOrder(f) BY <1>1, <2>1 DEF Of, InOrder
    <3>2. \A f, w, a : Entered(f, w, a)' = Entered(f, w, a) BY <1>1, <3>1 DEF Entered
    <3>3. \A f, w, a : Missing(f, w, a)' = Missing(f, w, a) BY <1>1, <3>1 DEF Missing
    <3>4. ASSUME Guarding, NEW f \in Fingerprints
          PROVE  /\ \E a : Entered(f, windows[f], a)' /\ Missing(f, windows[f], a)'
                 /\ InOrder(f)' => Ascending(windows[f])'
      <4>1. PICK u : u = windows[f] OBVIOUS
      <4>2. PICK a : Entered(f, u, a) /\ Missing(f, u, a) BY <1>0, <3>4, <4>1 DEF Recorded
      <4>3. Entered(f, u, a)' /\ Missing(f, u, a)' BY <3>2, <3>3, <4>2
      <4>4. windows'[f] = u BY <1>1, <4>1
      <4>5. Entered(f, windows[f], a)' /\ Missing(f, windows[f], a)' BY <4>3, <4>4 DEF Entered, Missing
      <4>. QED BY <1>0, <1>1, <3>1, <3>4, <4>5 DEF Recorded, Ascending
    <3>5. \A c \in Calls : pc'[c] \in {"idle", "stamped"} => verdict'[c] = "none" BY <1>0, <1>1 DEF Recorded
    <3>. QED BY <1>0, <1>1, <2>1, <3>4, <3>5 DEF Recorded, Guarding
  <2>. QED BY <2>4, <2>5 DEF RunawayInv
<1>2. CASE UNCHANGED vars \/ Tick
  BY <1>1, <1>2 DEF vars, Tick, Checked
<1>3. ASSUME NEW c \in Calls, End(c) PROVE RunawayInv'
  BY <1>1, <1>3 DEF End, Checked, BudgetTyped, TypeOK
<1>4. ASSUME NEW c \in Calls, Check(c) PROVE RunawayInv'
  BY <1>0, <1>4, CheckDoes, CheckRecords, CheckExact DEF RunawayInv
<1>5. ASSUME NEW c \in Calls, Stamp(c) PROVE RunawayInv'
  <2>1. /\ pc[c] = "idle" /\ pc' = [pc EXCEPT ![c] = "stamped"] /\ UNCHANGED <<verdict, windows, jumbled>>
        /\ \A d \in Calls \ {c} : finger'[d] = finger[d] /\ stamp'[d] = stamp[d]
    BY <1>5 DEF Stamp, BudgetTyped, TypeOK
  <2>2. Checked' = Checked /\ c \notin Checked BY <2>1 DEF Checked, BudgetTyped, TypeOK
  <2>3. Admitted' = Admitted /\ c \notin Admitted /\ c \notin jumbled /\ verdict[c] = "none"
    BY <1>0, <2>1, <2>2 DEF Recorded, Admitted
  <2>4. \A d \in Admitted \cup Checked \cup jumbled : d \in Calls \ {c} /\ finger'[d] = finger[d] /\ stamp'[d] = stamp[d]
    BY <1>0, <2>1, <2>2, <2>3 DEF Recorded, Admitted, Checked
  <2>5. \A f : Of(f)' = Of(f) BY <2>3, <2>4 DEF Of
  <2>6. Recorded'
    <3>1. \A f, w, a : Entered(f, w, a) => Entered(f, w, a)'
      BY <2>4, <2>5 DEF Entered, Of
    <3>2. ASSUME NEW f, NEW w, NEW a, Missing(f, w, a) PROVE Missing(f, w, a)'
      <4>1. \A d \in Of(f) : stamp'[d] = stamp[d] BY <2>4 DEF Of
      <4>2. \A e \in Checked : stamp'[e] = stamp[e] /\ finger'[e] = finger[e] BY <2>4
      <4>. QED BY <2>2, <2>5, <3>2, <4>1, <4>2 DEF Missing
    <3>3. ASSUME Guarding, NEW f \in Fingerprints
          PROVE  /\ \E a : Entered(f, windows[f], a)' /\ Missing(f, windows[f], a)'
                 /\ InOrder(f)' => Ascending(windows[f])'
      <4>1. PICK u : u = windows[f] OBVIOUS
      <4>2. PICK a : Entered(f, u, a) /\ Missing(f, u, a) BY <1>0, <3>3, <4>1 DEF Recorded
      <4>3. Entered(f, u, a)' /\ Missing(f, u, a)' BY <3>1, <3>2, <4>2
      <4>4. windows'[f] = u BY <2>1, <4>1
      <4>5. Entered(f, windows[f], a)' /\ Missing(f, windows[f], a)' BY <4>3, <4>4 DEF Entered, Missing
      <4>6. InOrder(f)' => InOrder(f) BY <2>1, <2>4 DEF InOrder
      <4>. QED BY <1>0, <2>1, <3>3, <4>5, <4>6 DEF Recorded, Ascending
    <3>4. \A d \in Calls : pc'[d] \in {"idle", "stamped"} => verdict'[d] = "none"
      BY <1>0, <2>1, <2>3 DEF Recorded, BudgetTyped, TypeOK
    <3>. QED BY <1>0, <2>1, <2>2, <2>3, <3>3, <3>4 DEF Recorded, Guarding
  <2>7. ASSUME NEW d \in Calls \ {c} PROVE InWindow(d)' = InWindow(d) /\ Same(d)' \cap jumbled = Same(d) \cap jumbled
    BY <2>1, <2>3, <2>4 DEF InWindow, Same
  <2>8. RunawayIsExact'
    BY <2>1, <2>3, <2>7 DEF RunawayInv, RunawayIsExact, Guarding
  <2>. QED BY <2>6, <2>8 DEF RunawayInv
<1>. QED BY <1>2, <1>3, <1>4, <1>5 DEF Next

\* The runaway guard stops a call neither too late nor too early, for any
\* limit, window and clock, and any calls at once: an admitted call makes, with
\* those like it within the window before it, no more than the limit; a call is
\* stopped only when that many were admitted (check_and_record).
THEOREM RunawayGuardIsExact == Spec => []RunawayIsExact
<1>1. Init => RunawayInv
  <2> SUFFICES ASSUME Init PROVE RunawayInv OBVIOUS
  <2>1. jumbled = {} /\ Admitted = {} /\ verdict = [c \in Calls |-> "none"] /\ \A f : Of(f) = {}
    BY DEF Init, Admitted, Of
  <2>2. ASSUME NEW f \in Fingerprints
        PROVE  (\E a : Entered(f, windows[f], a) /\ Missing(f, windows[f], a)) /\ Ascending(windows[f])
    <3>1. windows[f] = <<>> BY DEF Init
    <3>2. Entered(f, <<>>, <<>>) /\ Missing(f, <<>>, <<>>) /\ Ascending(<<>>)
      BY <2>1 DEF Entered, Missing, Ascending
    <3>. QED BY <3>1, <3>2
  <2>3. Recorded BY <2>1, <2>2 DEF Recorded
  <2>4. RunawayIsExact BY <2>1 DEF RunawayIsExact
  <2>. QED BY <2>3, <2>4 DEF RunawayInv
<1>2. RunawayInv => RunawayIsExact BY DEF RunawayInv
<1>. QED BY <1>1, <1>2, RunawayStep, BudgetTypedHolds, PTL DEF Spec

-----------------------------------------------------------------------------
\* With the pattern engine behind it, the budget still takes only its own
\* steps: the calls of Patterns implement Budget (_pre_check, _finalize).
THEOREM PatternsImplementBudget == PatternsSpec => Spec
<1>1. PatternsInit => Init BY DEF PatternsInit
<1>2. [PatternsNext]_allVars => [Next]_vars
  <2> SUFFICES ASSUME [PatternsNext]_allVars PROVE [Next]_vars OBVIOUS
  <2>1. CASE UNCHANGED allVars BY <2>1 DEF allVars
  <2>2. CASE Tick /\ UNCHANGED patternVars BY <2>2 DEF Next
  <2>3. ASSUME NEW f \in Files, Edit(f) PROVE UNCHANGED vars BY <2>3 DEF Edit
  <2>4. ASSUME NEW c \in Calls, Stamp(c) PROVE Next BY <2>4 DEF Next
  <2>5. ASSUME NEW c \in Calls, Admit(c) PROVE Next BY <2>5 DEF Admit, Next
  <2>6. ASSUME NEW c \in Calls, Glance(c) \/ Install(c) \/ Settle(c) \/ Choose(c) \/ Arm(c)
        PROVE  UNCHANGED vars
    BY <2>6 DEF Glance, Install, Settle, Choose, Arm
  <2>7. ASSUME NEW c \in Calls, Finish(c) \/ Report(c) PROVE Next
    BY <2>7 DEF Finish, Report, Next
  <2> QED BY <2>1, <2>2, <2>3, <2>4, <2>5, <2>6, <2>7 DEF PatternsNext
<1> QED BY <1>1, <1>2, PTL DEF PatternsSpec, Spec

\* So the ceiling holds for the calls of Patterns as well.
COROLLARY CeilingHoldsWithPatterns == PatternsSpec => []CeilingCountsAdmitted
BY PatternsImplementBudget, CeilingHolds, PTL

\* And so does the runaway guard.
COROLLARY RunawayGuardIsExactWithPatterns == PatternsSpec => []RunawayIsExact
BY PatternsImplementBudget, RunawayGuardIsExact, PTL

-----------------------------------------------------------------------------
\* The failure count is the length of the run of failures that the reports end in.
Counted(k) ==
  LET n == Len(log[k]) IN
  /\ fails[k] <= n
  /\ \A j \in n - fails[k] + 1 .. n : ~log[k][j].ok
  /\ fails[k] < n => log[k][n - fails[k]].ok

Pause(k, i) == IF log[k][i].loaded THEN Disable ELSE DefaultDisable

\* The cooldown is that of the last report that tripped the breaker, if any did.
Held(k) ==
  \/ until[k] = 0 /\ \A i \in DOMAIN log[k] : ~Trips(k, i)
  \/ \E i \in DOMAIN log[k] :
       /\ Trips(k, i) /\ \A j \in DOMAIN log[k] : Trips(k, j) => j <= i
       /\ until[k] = log[k][i].when + Pause(k, i)

Reports == [ok : BOOLEAN, when : Nat, loaded : BOOLEAN]

BreakerInv ==
  /\ now \in Nat
  /\ log \in [Keys -> Seq(Reports)]
  /\ fails \in [Keys -> Nat] /\ until \in [Keys -> Nat]
  /\ \A k \in Keys : Counted(k) /\ Held(k)

\* A report tells as much of the earlier ones as they did.
LEMMA TripsStay ==
  ASSUME BreakerInv, NEW k \in Keys, NEW r \in Reports, log' = [log EXCEPT ![k] = Append(@, r)]
  PROVE  /\ Len(log'[k]) = Len(log[k]) + 1 /\ log'[k][Len(log[k]) + 1] = r
         /\ \A i \in 1 .. Len(log[k]) : log'[k][i] = log[k][i] /\ Trips(k, i)' = Trips(k, i)
<1>1. log[k] \in Seq(Reports) /\ log'[k] = Append(log[k], r)
  BY DEF BreakerInv
<1>2. /\ Len(log'[k]) = Len(log[k]) + 1 /\ log'[k][Len(log[k]) + 1] = r
      /\ Len(log[k]) \in Nat
      /\ \A i \in 1 .. Len(log[k]) : log'[k][i] = log[k][i]
  BY <1>1
<1>3. ASSUME NEW i \in 1 .. Len(log[k]) PROVE Trips(k, i)' = Trips(k, i)
  <2> DEFINE n == IF log[k][i].loaded THEN Threshold ELSE DefaultThreshold
  <2>1. n \in Nat \ {0}
    BY PatternRecords
  <2>2. \A j \in i - n + 1 .. i : n <= i => log'[k][j] = log[k][j]
    <3> HIDE DEF n
    <3>. QED BY <1>2, <1>3, <2>1
  <2>3. log'[k][i] = log[k][i]
    BY <1>2
  <2>. QED BY <2>2, <2>3 DEF Trips
<1>. QED BY <1>2, <1>3

\* The report that is added trips the breaker just when the count says so.
LEMMA CountTells ==
  ASSUME BreakerInv, NEW k \in Keys, NEW r \in Reports, log' = [log EXCEPT ![k] = Append(@, r)],
         NEW m \in Nat, m = Len(log[k])
  PROVE  LET n == IF r.loaded THEN Threshold ELSE DefaultThreshold IN
         Trips(k, m + 1)' <=> ~r.ok /\ n <= fails[k] + 1
<1> DEFINE n == IF r.loaded THEN Threshold ELSE DefaultThreshold
<1>1. n \in Nat \ {0} /\ m \in Nat /\ fails[k] \in Nat
  BY PatternRecords DEF BreakerInv
<1>2. /\ log'[k][m + 1] = r
      /\ \A i \in 1 .. m : log'[k][i] = log[k][i]
  BY TripsStay
<1>3. /\ fails[k] <= m
      /\ \A j \in m - fails[k] + 1 .. m : ~log[k][j].ok
      /\ fails[k] < m => log[k][m - fails[k]].ok
  BY DEF BreakerInv, Counted
<1>4. Trips(k, m + 1)' <=> n <= m + 1 /\ \A j \in m + 1 - n + 1 .. m + 1 : ~log'[k][j].ok
  <2>1. CASE r.loaded
    <3>1. n = Threshold /\ log'[k][m + 1].loaded BY <1>2, <2>1
    <3>2. Trips(k, m + 1)' <=> Threshold <= m + 1 /\ \A j \in m + 1 - Threshold + 1 .. m + 1 : ~log'[k][j].ok
      BY <3>1, PatternRecords DEF Trips
    <3>. QED BY <3>1, <3>2
  <2>2. CASE ~r.loaded
    <3>1. n = DefaultThreshold /\ ~log'[k][m + 1].loaded BY <1>2, <2>2
    <3>2. Trips(k, m + 1)' <=> DefaultThreshold <= m + 1 /\ \A j \in m + 1 - DefaultThreshold + 1 .. m + 1 : ~log'[k][j].ok
      BY <3>1, PatternRecords DEF Trips
    <3>. QED BY <3>1, <3>2
  <2>. QED BY <2>1, <2>2
<1> HIDE DEF n
<1>5. ASSUME ~r.ok, n <= fails[k] + 1 PROVE n <= m + 1 /\ \A j \in m + 1 - n + 1 .. m + 1 : ~log'[k][j].ok
  <2>1. n <= m + 1 BY <1>1, <1>3, <1>5
  <2>2. ASSUME NEW j \in m + 1 - n + 1 .. m + 1 PROVE ~log'[k][j].ok
    <3>1. CASE j = m + 1 BY <1>2, <1>5, <3>1
    <3>2. CASE j # m + 1
      <4>1. j \in m - fails[k] + 1 .. m /\ j \in 1 .. m BY <1>1, <1>3, <1>5, <2>2, <3>2
      <4>. QED BY <1>2, <1>3, <4>1
    <3>. QED BY <3>1, <3>2
  <2>. QED BY <2>1, <2>2
<1>6. ASSUME n <= m + 1, \A j \in m + 1 - n + 1 .. m + 1 : ~log'[k][j].ok PROVE ~r.ok /\ n <= fails[k] + 1
  <2>1. m + 1 \in m + 1 - n + 1 .. m + 1 BY <1>1
  <2>2. ~r.ok BY <1>2, <1>6, <2>1
  <2>3. ASSUME ~(n <= fails[k] + 1) PROVE FALSE
    <3>1. /\ fails[k] < m /\ m - fails[k] \in 1 .. m
          /\ m - fails[k] \in m + 1 - n + 1 .. m + 1
      BY <1>1, <1>3, <1>6, <2>3
    <3>. QED BY <1>2, <1>3, <1>6, <3>1
  <2>. QED BY <2>2, <2>3
<1>. QED BY <1>4, <1>5, <1>6 DEF n

LEMMA ReportKeepsBreaker ==
  ASSUME BreakerInv, NEW c \in Calls, Report(c)
  PROVE  BreakerInv'
<1> DEFINE here == \E f \in Files : loaded[f] # Absent /\ loaded[f].id = Key(c)[1]
           threshold == IF here THEN Threshold ELSE DefaultThreshold
           pause == IF here THEN Disable ELSE DefaultDisable
<1>1. PICK ok \in BOOLEAN :
        /\ Count(Key(c), ok, threshold, pause)
        /\ log' = [log EXCEPT ![Key(c)] = Append(@, [ok |-> ok, when |-> now, loaded |-> here])]
  BY DEF Report
<1>2. now' = now
  BY DEF Report, End
<1>3. CASE Key(c) \notin Keys
  <2>1. log' = log /\ fails' = fails /\ until' = until
    BY <1>1, <1>3 DEF Count, BreakerInv
  <2>. QED BY <1>2, <2>1 DEF BreakerInv, Counted, Held, Trips, Pause
<1>4. CASE Key(c) \in Keys
  <2> PICK k \in Keys : k = Key(c)
    BY <1>4
  <2> PICK m \in Nat : m = Len(log[k])
    BY DEF BreakerInv
  <2> PICK r \in Reports : r.ok = ok /\ r.when = now /\ r.loaded = here /\ log' = [log EXCEPT ![k] = Append(@, r)]
    <3>1. [ok |-> ok, when |-> now, loaded |-> here] \in Reports
      BY DEF BreakerInv, Reports
    <3> HIDE DEF here
    <3>. QED BY <1>1, <3>1
  <2> DEFINE trip == ~ok /\ threshold <= fails[k] + 1
  <2>1. pause \in Nat /\ fails[k] \in Nat /\ until[k] \in Nat
    BY PatternRecords DEF BreakerInv
  <2>2. /\ fails' = [fails EXCEPT ![k] = IF ok THEN 0 ELSE fails[k] + 1]
        /\ until' = [until EXCEPT ![k] = IF trip THEN now + pause ELSE until[k]]
    <3>1. /\ fails' = [fails EXCEPT ![k] = IF ok THEN 0 ELSE @ + 1]
          /\ until' = [until EXCEPT ![k] = IF ~ok /\ fails'[k] >= threshold THEN now + pause ELSE @]
      BY <1>1 DEF Count
    <3>2. fails'[k] = IF ok THEN 0 ELSE fails[k] + 1
      BY <3>1 DEF BreakerInv
    <3>3. threshold \in Nat BY PatternRecords
    <3> HIDE DEF threshold, pause
    <3>4. ~ok /\ fails'[k] >= threshold <=> trip
      BY <2>1, <3>2, <3>3
    <3>. QED BY <3>1, <3>4 DEF BreakerInv
  <2>3. /\ Len(log'[k]) = m + 1 /\ log'[k][m + 1] = r
        /\ \A i \in 1 .. m : log'[k][i] = log[k][i] /\ Trips(k, i)' = Trips(k, i)
    <3>1. /\ Len(log'[k]) = Len(log[k]) + 1 /\ log'[k][Len(log[k]) + 1] = r
          /\ \A i \in 1 .. Len(log[k]) : log'[k][i] = log[k][i] /\ Trips(k, i)' = Trips(k, i)
      BY TripsStay
    <3>. QED BY <3>1
  <2>4. Trips(k, m + 1)' <=> trip
    BY CountTells
  <2>5. log' \in [Keys -> Seq(Reports)]
    BY DEF BreakerInv
  <2>6. /\ fails'[k] = IF ok THEN 0 ELSE fails[k] + 1
        /\ until'[k] = IF trip THEN now + pause ELSE until[k]
        /\ DOMAIN log[k] = 1 .. m
    BY <2>2 DEF BreakerInv
  <2>7. DOMAIN log'[k] = 1 .. m + 1
    BY <2>3, <2>5, <2>6
  <2>8. \A q \in Keys \ {k} : log'[q] = log[q] /\ fails'[q] = fails[q] /\ until'[q] = until[q]
    BY <2>2 DEF BreakerInv
  <2>9. fails' \in [Keys -> Nat] /\ until' \in [Keys -> Nat] /\ now \in Nat
    BY <2>1, <2>2 DEF BreakerInv
  <2>10. Counted(k) /\ Held(k)
    BY DEF BreakerInv
  <2> HIDE DEF trip, here, threshold, pause
  <2>11. Counted(k)'
    <3>1. /\ fails[k] <= m
          /\ \A j \in m - fails[k] + 1 .. m : ~log[k][j].ok
          /\ fails[k] < m => log[k][m - fails[k]].ok
      BY <2>10 DEF Counted
    <3>2. CASE ok
      <4>1. fails'[k] = 0 /\ log'[k][m + 1].ok BY <2>1, <2>3, <2>6, <3>2
      <4>. QED BY <2>1, <2>3, <4>1 DEF Counted
    <3>3. CASE ~ok
      <4>1. fails'[k] = fails[k] + 1 /\ ~log'[k][m + 1].ok BY <2>1, <2>3, <2>6, <3>3
      <4>2. ASSUME NEW j \in (m + 1) - (fails[k] + 1) + 1 .. m + 1 PROVE ~log'[k][j].ok
        <5>1. j = m + 1 \/ (j \in m - fails[k] + 1 .. m /\ j \in 1 .. m)
          <6> PICK x \in Nat : x = fails[k]
            BY <2>1
          <6>1. x <= m
            BY <3>1
          <6>2. j \in (m + 1) - (x + 1) + 1 .. m + 1
            BY <4>2
          <6>3. j = m + 1 \/ (j \in m - x + 1 .. m /\ j \in 1 .. m)
            BY <6>1, <6>2
          <6>. QED BY <6>3
        <5>. QED BY <2>3, <3>1, <4>1, <5>1
      <4>3. fails[k] + 1 < m + 1 => log'[k][(m + 1) - (fails[k] + 1)].ok
        <5>1. fails[k] < m => m - fails[k] \in 1 .. m /\ (m + 1) - (fails[k] + 1) = m - fails[k]
          BY <2>1
        <5>. QED BY <2>1, <2>3, <3>1, <5>1
      <4>4. fails[k] + 1 <= m + 1 BY <2>1, <3>1
      <4>. QED BY <2>3, <4>1, <4>2, <4>3, <4>4 DEF Counted
    <3>. QED BY <3>2, <3>3
  <2>12. Held(k)'
    <3>1. CASE trip
      <4>1. until'[k] = log'[k][m + 1].when + Pause(k, m + 1)'
        BY <2>1, <2>3, <2>6, <3>1 DEF Pause, pause
      <4>2. \A j \in 1 .. m + 1 : j <= m + 1
        BY <2>1
      <4>3. m + 1 \in DOMAIN log'[k]
        BY <2>1, <2>7
      <4>. QED BY <2>4, <2>7, <3>1, <4>1, <4>2, <4>3 DEF Held
    <3>2. CASE ~trip
      <4>1. \A i \in DOMAIN log'[k] : Trips(k, i)' => i \in 1 .. m
        BY <2>1, <2>4, <2>7, <3>2
      <4>2. CASE until[k] = 0 /\ \A i \in DOMAIN log[k] : ~Trips(k, i)
        BY <2>3, <2>6, <3>2, <4>1, <4>2 DEF Held
      <4>3. ASSUME NEW i \in DOMAIN log[k],
                   Trips(k, i), \A j \in DOMAIN log[k] : Trips(k, j) => j <= i,
                   until[k] = log[k][i].when + Pause(k, i)
            PROVE  Held(k)'
        <5>1. i \in 1 .. m /\ i \in DOMAIN log'[k]
          BY <2>1, <2>6, <2>7, <4>3
        <5>2. Trips(k, i)' /\ until'[k] = log'[k][i].when + Pause(k, i)'
          BY <2>3, <2>6, <3>2, <4>3, <5>1 DEF Pause
        <5>3. \A j \in DOMAIN log'[k] : Trips(k, j)' => j <= i
          BY <2>3, <2>6, <4>1, <4>3
        <5>. QED BY <5>1, <5>2, <5>3 DEF Held
      <4>. QED BY <2>10, <4>2, <4>3 DEF Held
    <3>. QED BY <3>1, <3>2
  <2>13. ASSUME NEW q \in Keys \ {k} PROVE Counted(q)' /\ Held(q)'
    <3>1. Counted(q) /\ Held(q) BY DEF BreakerInv
    <3>. QED BY <2>8, <3>1 DEF Counted, Held, Trips, Pause
  <2>. QED BY <1>2, <2>5, <2>9, <2>11, <2>12, <2>13 DEF BreakerInv
<1>. QED BY <1>3, <1>4

LEMMA BreakerInvHolds == PatternsSpec => []BreakerInv
<1>1. PatternsInit => BreakerInv
  BY DEF PatternsInit, Init, BreakerInv, Counted, Held, Reports
<1>2. BreakerInv /\ [PatternsNext]_allVars => BreakerInv'
  <2> SUFFICES ASSUME BreakerInv, [PatternsNext]_allVars PROVE BreakerInv' OBVIOUS
  <2>1. ASSUME now' \in Nat, UNCHANGED <<log, fails, until>> PROVE BreakerInv'
    BY <2>1 DEF BreakerInv, Counted, Held, Trips, Pause
  <2>2. CASE UNCHANGED allVars
    BY <2>1, <2>2 DEF BreakerInv, allVars, vars, patternVars, engine
  <2>3. CASE Tick /\ UNCHANGED patternVars
    BY <2>1, <2>3 DEF BreakerInv, Tick, patternVars, engine
  <2>4. ASSUME NEW f \in Files, Edit(f) PROVE BreakerInv'
    BY <2>1, <2>4 DEF BreakerInv, Edit, vars, engine
  <2>5. ASSUME NEW c \in Calls, (Stamp(c) /\ UNCHANGED patternVars) \/ Admit(c) \/ Finish(c) PROVE BreakerInv'
    BY <2>1, <2>5 DEF BreakerInv, Stamp, Admit, Check, Verdict, Finish, End, patternVars, engine
  <2>6. ASSUME NEW c \in Calls, Glance(c) \/ Install(c) \/ Settle(c) \/ Choose(c) \/ Arm(c) PROVE BreakerInv'
    BY <2>1, <2>6 DEF BreakerInv, Glance, Install, Settle, Choose, Arm, vars, engine
  <2>7. ASSUME NEW c \in Calls, Report(c) PROVE BreakerInv'
    BY <2>7, ReportKeepsBreaker
  <2>. QED BY <2>2, <2>3, <2>4, <2>5, <2>6, <2>7 DEF PatternsNext
<1>. QED BY <1>1, <1>2, PTL DEF PatternsSpec

\* The breaker is open just while the last report that made a full run of
\* failures is younger than its cooldown, whatever calls overlap and whatever
\* is reloaded (report_outcome against match's look at disabled_until).
THEOREM BreakerHolds == PatternsSpec => []BreakerIsExact
<1>1. ASSUME BreakerInv, NEW k \in Keys
      PROVE  now < until[k] <=>
               \E i \in {j \in DOMAIN log[k] : Trips(k, j)} :
                 /\ \A j \in {h \in DOMAIN log[k] : Trips(k, h)} : j <= i
                 /\ log[k][i].when + Pause(k, i) > now
  <2>1. Held(k) /\ now \in Nat /\ DOMAIN log[k] \subseteq Nat
    BY <1>1 DEF BreakerInv
  <2>2. CASE until[k] = 0 /\ \A i \in DOMAIN log[k] : ~Trips(k, i)
    BY <2>1, <2>2
  <2>3. ASSUME NEW i \in DOMAIN log[k], Trips(k, i), \A j \in DOMAIN log[k] : Trips(k, j) => j <= i,
               until[k] = log[k][i].when + Pause(k, i)
        PROVE  now < until[k] <=>
                 \E h \in {j \in DOMAIN log[k] : Trips(k, j)} :
                   /\ \A j \in {g \in DOMAIN log[k] : Trips(k, g)} : j <= h
                   /\ log[k][h].when + Pause(k, h) > now
    <3>1. ASSUME NEW h \in DOMAIN log[k], Trips(k, h), i <= h PROVE h = i
      BY <2>1, <2>3, <3>1
    <3>2. until[k] \in Nat
      BY <1>1 DEF BreakerInv
    <3>. QED BY <2>1, <2>3, <3>1, <3>2
  <2>. QED BY <2>1, <2>2, <2>3 DEF Held
<1>2. BreakerInv => BreakerIsExact
  BY <1>1 DEF BreakerIsExact, Pause
<1>. QED BY <1>2, BreakerInvHolds, PTL

-----------------------------------------------------------------------------
\* d is what the files said when their mtimes were m.
Version(d, m) ==
  \A f \in Files :
    /\ m[f] = Absent <=> d[f] = Absent
    /\ m[f] # Absent => m[f] \in Nat /\ m[f] <= stamped[f]
    /\ m[f] = mtime[f] => d[f] = disk[f]

Snaps ==
  [disk : [Files -> Contents \cup {Absent}], mtime : [Files -> Nat \cup {Absent}], missed : SUBSET Files]

FilesTyped ==
  /\ now \in Nat
  /\ stamped \in [Files -> Nat] /\ \A f \in Files : stamped[f] <= now
  /\ mtime \in [Files -> Nat \cup {Absent}]
  /\ disk \in [Files -> Contents \cup {Absent}]
  /\ Version(disk, mtime)
  /\ pc \in [Calls -> {"idle", "stamped", "open", "ended"}]
  /\ at \in [Calls -> {"none", "glance", "install", "settle", "choose", "arm", "armed", "unarmed", "reported"}]
  /\ snap \in [Calls -> Snaps \cup {Absent}]
  /\ \A c \in Calls : pc[c] \in {"idle", "stamped"} => at[c] = "none"

\* What is in memory is a version of the files, the one that its mtimes tell,
\* less what could not be read.
Fresh ==
  /\ \A c \in Reloading :
       /\ Version(snap[c].disk, snap[c].mtime)
       /\ Reloading = {c}
       /\ at[c] = "settle" => loaded = Load(Less(snap[c].disk, missed))
  /\ Reloading = {} => \E d : Version(d, known) /\ loaded = Load(Less(d, missed))

ReloadInv == FilesTyped /\ (~blurred => Fresh)

\* A file that is written again at another instant shows another mtime.
LEMMA EditKeepsVersions ==
  ASSUME FilesTyped, NEW f \in Files, Edit(f), ~blurred', NEW d, NEW m, Version(d, m)
  PROVE  Version(d, m)'
<1>1. PICK p \in Contents \cup {Absent} :
        /\ disk' = [disk EXCEPT ![f] = p]
        /\ mtime' = [mtime EXCEPT ![f] = IF p = Absent THEN Absent ELSE now]
  BY DEF Edit
<1>2. /\ disk'[f] = p /\ mtime'[f] = IF p = Absent THEN Absent ELSE now
      /\ \A g \in Files \ {f} : disk'[g] = disk[g] /\ mtime'[g] = mtime[g]
  BY <1>1 DEF FilesTyped
<1>3. /\ stamped' = [stamped EXCEPT ![f] = IF p = Absent THEN @ ELSE now]
      /\ p # Absent => stamped[f] # now
  BY <1>2 DEF Edit
<1>4. /\ stamped'[f] = IF p = Absent THEN stamped[f] ELSE now
      /\ \A g \in Files \ {f} : stamped'[g] = stamped[g]
      /\ stamped[f] \in Nat /\ now \in Nat /\ stamped[f] <= now /\ Absent \notin Nat
  BY <1>3, PatternRecords DEF FilesTyped
<1>5. ASSUME NEW g \in Files \ {f}
      PROVE  /\ m[g] = Absent <=> d[g] = Absent
             /\ m[g] # Absent => m[g] \in Nat /\ m[g] <= stamped'[g]
             /\ m[g] = mtime'[g] => d[g] = disk'[g]
  BY <1>2, <1>4, <1>5 DEF Version
<1>6. /\ m[f] = Absent <=> d[f] = Absent
      /\ m[f] # Absent => m[f] \in Nat /\ m[f] <= stamped[f]
  BY DEF Version
<1>7. CASE p = Absent
  BY <1>2, <1>4, <1>5, <1>6, <1>7 DEF Version
<1>8. CASE p # Absent
  <2>1. m[f] # Absent => m[f] < now
    BY <1>3, <1>4, <1>6, <1>8
  <2>2. m[f] # mtime'[f]
    BY <1>2, <1>4, <1>8, <2>1
  <2>3. m[f] # Absent => m[f] <= stamped'[f]
    BY <1>4, <1>8, <2>1, <1>6
  <2>. QED BY <1>5, <1>6, <2>2, <2>3 DEF Version
<1>. QED BY <1>7, <1>8

LEMMA EditTyped ==
  ASSUME FilesTyped, NEW f \in Files, Edit(f)
  PROVE  FilesTyped'
<1>1. PICK p \in Contents \cup {Absent} :
        /\ disk' = [disk EXCEPT ![f] = p]
        /\ mtime' = [mtime EXCEPT ![f] = IF p = Absent THEN Absent ELSE now]
  BY DEF Edit
<1>2. stamped' = [stamped EXCEPT ![f] = IF p = Absent THEN @ ELSE now] /\ now' = now
  BY <1>1 DEF Edit, vars, FilesTyped
<1>3. /\ disk' \in [Files -> Contents \cup {Absent}] /\ mtime' \in [Files -> Nat \cup {Absent}]
      /\ stamped' \in [Files -> Nat] /\ \A g \in Files : stamped'[g] <= now
  BY <1>1, <1>2 DEF FilesTyped
<1>4. Version(disk, mtime)'
  BY <1>1, <1>2, <1>3, PatternRecords DEF FilesTyped, Version
<1>. QED BY <1>2, <1>3, <1>4 DEF FilesTyped, Edit, vars, consult

\* Files that were not seen are files that were not there.
LEMMA LessIsAVersion ==
  ASSUME Version(disk, mtime), NEW gone
  PROVE  Version(Less(disk, gone), Less(mtime, gone))
BY DEF Version, Less

LEMMA ReloadInvHolds == PatternsSpec => []ReloadInv
<1>1. PatternsInit => ReloadInv
  <2> SUFFICES ASSUME PatternsInit PROVE ReloadInv OBVIOUS
  <2>1. /\ now = 0 /\ stamped = [f \in Files |-> 0]
        /\ disk = OnDisk /\ mtime = [f \in Files |-> IF OnDisk[f] = Absent THEN Absent ELSE 0]
        /\ at = [c \in Calls |-> "none"] /\ pc = [c \in Calls |-> "idle"]
        /\ snap = [c \in Calls |-> Absent]
    BY DEF PatternsInit, Init
  <2>2. Version(disk, mtime)
    BY <2>1, PatternRecords DEF Version
  <2>3. FilesTyped
    BY <2>1, <2>2, PatternRecords DEF FilesTyped
  <2>4. Reloading = {}
    BY <2>1 DEF Reloading
  <2>5. PICK unseen, unread \in SUBSET Files :
          loaded = Load(Less(Less(OnDisk, unseen), unread)) /\ missed = unread /\ known = Less(mtime, unseen)
    BY DEF PatternsInit
  <2>6. Version(Less(disk, unseen), Less(mtime, unseen))
    BY <2>2, LessIsAVersion
  <2>. QED BY <2>1, <2>3, <2>4, <2>5, <2>6 DEF ReloadInv, Fresh
<1>2. ReloadInv /\ [PatternsNext]_allVars => ReloadInv'
  <2> SUFFICES ASSUME ReloadInv, [PatternsNext]_allVars PROVE ReloadInv' OBVIOUS
  <2>0. FilesTyped BY DEF ReloadInv
  <2>1. ASSUME UNCHANGED <<files, loaded, missed, known, snap, blurred>>, now' \in Nat, now' >= now,
               pc' \in [Calls -> {"idle", "stamped", "open", "ended"}],
               at' \in [Calls -> {"none", "glance", "install", "settle", "choose", "arm", "armed", "unarmed", "reported"}],
               \A c \in Calls : pc'[c] \in {"idle", "stamped"} => at'[c] = "none",
               \A c \in Calls : at'[c] = at[c] \/ {at[c], at'[c]} \cap {"install", "settle"} = {}
        PROVE  ReloadInv'
    <3>1. Reloading' = Reloading /\ \A c \in Reloading : at'[c] = at[c]
      BY <2>1 DEF Reloading
    <3>2. Version(disk, mtime)' /\ \A c \in Calls : (Version(snap[c].disk, snap[c].mtime)' <=> Version(snap[c].disk, snap[c].mtime))
      BY <2>0, <2>1 DEF Version, files, FilesTyped
    <3>3. \A d : Version(d, known)' <=> Version(d, known)
      BY <2>1 DEF Version, files
    <3>4. FilesTyped'
      <4>1. \A f \in Files : stamped'[f] <= now'
        BY <2>0, <2>1 DEF FilesTyped, files
      <4>. QED BY <2>0, <2>1, <3>2, <4>1 DEF FilesTyped, files
    <3>5. Fresh => Fresh'
      BY <2>1, <3>1, <3>2, <3>3 DEF Fresh, Load, Less, Valid, Reloading
    <3>. QED BY <2>1, <3>4, <3>5 DEF ReloadInv
  <2>2. CASE UNCHANGED allVars
    BY <2>0, <2>1, <2>2 DEF FilesTyped, allVars, vars, patternVars, engine, consult
  <2>3. CASE Tick /\ UNCHANGED patternVars
    BY <2>0, <2>1, <2>3 DEF FilesTyped, Tick, patternVars, engine, consult
  <2>4. ASSUME NEW f \in Files, Edit(f) PROVE ReloadInv'
    <3>1. FilesTyped' BY <2>0, <2>4, EditTyped
    <3>2. UNCHANGED <<loaded, missed, known, at, snap>> /\ (~blurred' => ~blurred)
      BY <2>4 DEF Edit, engine, consult
    <3>3. ASSUME ~blurred' PROVE Fresh'
      <4>1. \A d, m : Version(d, m) => Version(d, m)'
        BY <2>0, <2>4, <3>3, EditKeepsVersions
      <4>2. Fresh BY <3>2, <3>3 DEF ReloadInv
      <4>3. Reloading' = Reloading /\ UNCHANGED <<loaded, missed, known, snap, at>>
        BY <3>2 DEF Reloading
      <4>4. ASSUME NEW c \in Reloading
            PROVE  /\ Version(snap[c].disk, snap[c].mtime)'
                   /\ at[c] = "settle" => loaded' = Load(Less(snap[c].disk, missed))'
        <5>1. PICK d, m : d = snap[c].disk /\ m = snap[c].mtime OBVIOUS
        <5>2. Version(d, m)' BY <4>1, <4>2, <5>1 DEF Fresh
        <5>3. Version(snap[c].disk, snap[c].mtime)' BY <4>3, <5>1, <5>2 DEF Version
        <5>. QED BY <4>2, <4>3, <5>3 DEF Fresh, Load, Less, Valid
      <4>5. ASSUME Reloading = {} PROVE \E d : Version(d, known)' /\ loaded' = Load(Less(d, missed'))
        <5>1. PICK d : Version(d, known) /\ loaded = Load(Less(d, missed)) BY <4>2, <4>5 DEF Fresh
        <5>2. PICK m : m = known OBVIOUS
        <5>3. Version(d, m)' BY <4>1, <5>1, <5>2
        <5>4. Version(d, known)' BY <4>3, <5>2, <5>3 DEF Version
        <5>. QED BY <4>3, <5>1, <5>4
      <4>6. \A d : Load(Less(d, missed))' = Load(Less(d, missed')) BY DEF Load, Less, Valid
      <4>. QED BY <4>2, <4>3, <4>4, <4>5, <4>6 DEF Fresh
    <3>. QED BY <3>1, <3>3 DEF ReloadInv
  <2>5. ASSUME NEW c \in Calls, Stamp(c), UNCHANGED patternVars PROVE ReloadInv'
    BY <2>0, <2>1, <2>5 DEF FilesTyped, Stamp, patternVars, engine, consult
  <2>6. ASSUME NEW c \in Calls, Admit(c) PROVE ReloadInv'
    BY <2>0, <2>1, <2>6 DEF FilesTyped, Admit, Check, engine
  <2>7. ASSUME NEW c \in Calls, Glance(c) PROVE ReloadInv'
    <3>1. CASE at' = [at EXCEPT ![c] = "choose"] /\ UNCHANGED <<snap, blurred>>
      BY <2>0, <2>1, <2>7, <3>1 DEF FilesTyped, Glance, vars, engine
    <3>2. ASSUME NEW unseen \in SUBSET Files, NEW unread \in SUBSET Files,
                 snap' = [snap EXCEPT ![c] = [disk |-> Less(disk, unseen), mtime |-> Less(mtime, unseen), missed |-> unread]],
                 at' = [at EXCEPT ![c] = "install"], blurred' = (blurred \/ Reloading # {})
          PROVE  ReloadInv'
      <4> DEFINE s == [disk |-> Less(disk, unseen), mtime |-> Less(mtime, unseen), missed |-> unread]
      <4>1. /\ at[c] = "glance" /\ at' = [at EXCEPT ![c] = "install"]
            /\ snap' = [snap EXCEPT ![c] = s]
            /\ UNCHANGED <<now, pc, files, loaded, missed, known>>
            /\ ~blurred' => ~blurred /\ Reloading = {}
        BY <2>7, <3>2 DEF Glance, vars, engine
      <4>2. FilesTyped'
        <5>1. s \in Snaps
          BY <2>0 DEF FilesTyped, Snaps, Less
        <5>. QED BY <2>0, <4>1, <5>1 DEF FilesTyped, files, Version
      <4>3. ASSUME ~blurred' PROVE Fresh'
        <5>1. Reloading' = {c} /\ at'[c] = "install" /\ snap'[c] = s
          BY <2>0, <4>1, <4>3 DEF FilesTyped, Reloading
        <5>2. Version(s.disk, s.mtime)
          BY <2>0, LessIsAVersion DEF FilesTyped
        <5>3. Version(snap[c].disk, snap[c].mtime)'
          BY <4>1, <5>1, <5>2 DEF Version, files
        <5>. QED BY <5>1, <5>3 DEF Fresh
      <4>. QED BY <4>2, <4>3 DEF ReloadInv
    <3>. QED BY <2>7, <3>1, <3>2 DEF Glance
  <2>8. ASSUME NEW c \in Calls, Install(c) PROVE ReloadInv'
    <3>1. /\ at[c] = "install" /\ at' = [at EXCEPT ![c] = "settle"]
          /\ loaded' = Load(Less(snap[c].disk, snap[c].missed)) /\ missed' = snap[c].missed
          /\ UNCHANGED <<now, pc, files, known, snap, blurred>>
      BY <2>8 DEF Install, vars
    <3>2. FilesTyped'
      BY <2>0, <3>1 DEF FilesTyped, files, Version
    <3>3. ASSUME Fresh PROVE Fresh'
      <4>0. c \in Reloading BY <3>1 DEF Reloading
      <4>1. Reloading' = Reloading /\ Reloading = {c} /\ at'[c] = "settle"
        <5>1. Reloading = {c} BY <3>3, <4>0 DEF Fresh
        <5>2. at'[c] = "settle" /\ \A d \in Calls \ {c} : at'[d] = at[d] BY <2>0, <3>1 DEF FilesTyped
        <5>. QED BY <3>1, <5>1, <5>2 DEF Reloading
      <4>2. Version(snap[c].disk, snap[c].mtime)' /\ loaded' = Load(Less(snap[c].disk, missed))'
        <5>1. Version(snap[c].disk, snap[c].mtime) BY <3>3, <4>0 DEF Fresh
        <5>2. Version(snap[c].disk, snap[c].mtime)' BY <3>1, <5>1 DEF Version, files
        <5>3. Load(Less(snap[c].disk, missed))' = Load(Less(snap[c].disk, snap[c].missed)) BY <3>1 DEF Load, Less, Valid
        <5>. QED BY <3>1, <5>2, <5>3
      <4>. QED BY <4>1, <4>2 DEF Fresh
    <3>. QED BY <3>1, <3>2, <3>3 DEF ReloadInv
  <2>9. ASSUME NEW c \in Calls, Settle(c) PROVE ReloadInv'
    <3>1. /\ at[c] = "settle" /\ at' = [at EXCEPT ![c] = "choose"]
          /\ known' = snap[c].mtime /\ snap' = [snap EXCEPT ![c] = Absent]
          /\ UNCHANGED <<now, pc, files, loaded, missed, blurred>>
      BY <2>9 DEF Settle, vars
    <3>2. FilesTyped'
      BY <2>0, <3>1 DEF FilesTyped, files, Version
    <3>3. ASSUME Fresh PROVE Fresh'
      <4>0. c \in Reloading BY <3>1 DEF Reloading
      <4>1. Reloading = {c} /\ Reloading' = {}
        <5>1. Reloading = {c} BY <3>3, <4>0 DEF Fresh
        <5>2. at'[c] = "choose" /\ \A d \in Calls \ {c} : at'[d] = at[d] BY <2>0, <3>1 DEF FilesTyped
        <5>. QED BY <5>1, <5>2 DEF Reloading
      <4>2. PICK d : d = snap[c].disk OBVIOUS
      <4>3. Version(d, known)' /\ loaded' = Load(Less(d, missed))
        <5>1. Version(snap[c].disk, snap[c].mtime) /\ loaded = Load(Less(snap[c].disk, missed))
          BY <3>1, <3>3, <4>0 DEF Fresh
        <5>2. Version(d, known)' BY <3>1, <4>2, <5>1 DEF Version, files
        <5>. QED BY <3>1, <4>2, <5>1, <5>2
      <4>. QED BY <3>1, <4>1, <4>3 DEF Fresh, Load, Less, Valid
    <3>. QED BY <3>1, <3>2, <3>3 DEF ReloadInv
  <2>10. ASSUME NEW c \in Calls, Choose(c) \/ Arm(c) PROVE ReloadInv'
    <3>1. /\ UNCHANGED <<vars, files, loaded, missed, known, snap, blurred>>
          /\ at[c] \in {"choose", "arm"}
          /\ \E p \in {"arm", "armed", "unarmed"} : at' = [at EXCEPT ![c] = p]
      BY <2>10 DEF Choose, Arm, engine
    <3>. QED BY <2>0, <2>1, <3>1 DEF FilesTyped, vars
  <2>11. ASSUME NEW c \in Calls, Finish(c) \/ Report(c) PROVE ReloadInv'
    BY <2>0, <2>1, <2>11 DEF FilesTyped, Finish, Report, End, patternVars, engine, consult
  <2>. QED BY <2>2, <2>3, <2>4, <2>5, <2>6, <2>7, <2>8, <2>9, <2>10, <2>11 DEF PatternsNext
<1>. QED BY <1>1, <1>2, PTL DEF PatternsSpec

\* Once the mtimes agree and no call is reloading, memory holds what the files
\* say, less those whose last read failed, for any files, edits and failed
\* reads, as long as no two reloads overlapped and no file was written twice in
\* one instant (_maybe_reload, _load).
THEOREM MemoryFollows == PatternsSpec => []MemoryIsDisk
<1>1. ASSUME ReloadInv, ~blurred, mtime = known, Reloading = {} PROVE loaded = Load(Less(disk, missed))
  <2>1. PICK d : Version(d, known) /\ loaded = Load(Less(d, missed))
    BY <1>1 DEF ReloadInv, Fresh
  <2>2. \A f \in Files : d[f] = disk[f]
    BY <1>1, <2>1 DEF Version
  <2>3. Load(Less(d, missed)) = Load(Less(disk, missed))
    BY <2>2 DEF Load, Less, Valid
  <2>. QED BY <2>1, <2>3
<1>2. ReloadInv => MemoryIsDisk
  BY <1>1 DEF MemoryIsDisk
<1>. QED BY <1>2, ReloadInvHolds, PTL

-----------------------------------------------------------------------------
(***************************************************************************)
(* What filtering a window leaves, by induction over the recursive         *)
(* function.                                                               *)
(***************************************************************************)
\* K filters the first n elements of w.
Filters(K, w, span, n) ==
  K = [i \in 0 .. n |->
         IF i = 0 THEN <<>> ELSE IF w[i] + span > now THEN Append(K[i - 1], w[i]) ELSE K[i - 1]]

\* There is such a function for every sequence.
LEMMA KeptExists ==
  ASSUME NEW w, NEW span, NEW l \in Nat
  PROVE  \E K : Filters(K, w, span, l)
<1> DEFINE Built(n) == \E K : Filters(K, w, span, n)
           S == {n \in Nat : Built(n)}
<1>1. 0 \in S
  <2>1. [i \in 0 .. 0 |-> <<>>] = [i \in 0 .. 0 |-> IF i = 0 THEN <<>> ELSE IF w[i] + span > now THEN Append([j \in 0 .. 0 |-> <<>>][i - 1], w[i]) ELSE [j \in 0 .. 0 |-> <<>>][i - 1]]
    OBVIOUS
  <2>2. Built(0) BY <2>1, Zenon DEF Filters
  <2>. QED BY <2>2
<1>2. ASSUME NEW n \in Nat, Built(n) PROVE Built(n + 1)
  <2>1. PICK K : K = [i \in 0 .. n |-> IF i = 0 THEN <<>> ELSE IF w[i] + span > now THEN Append(K[i - 1], w[i]) ELSE K[i - 1]]
    BY <1>2 DEF Filters
  <2> DEFINE L == [i \in 0 .. n + 1 |-> IF i <= n THEN K[i] ELSE IF w[n + 1] + span > now THEN Append(K[n], w[n + 1]) ELSE K[n]]
  <2>2. \A i \in 0 .. n : L[i] = K[i] OBVIOUS
  <2>3. L[n + 1] = IF w[n + 1] + span > now THEN Append(K[n], w[n + 1]) ELSE K[n] OBVIOUS
  <2>4. \A i \in 0 .. n : K[i] = IF i = 0 THEN <<>> ELSE IF w[i] + span > now THEN Append(K[i - 1], w[i]) ELSE K[i - 1]
    BY <2>1, Zenon
  <2>5. L = [i \in 0 .. n + 1 |-> L[i]] OBVIOUS
  <2> HIDE DEF L
  <2>6. \A i \in 0 .. n + 1 : L[i] = IF i = 0 THEN <<>> ELSE IF w[i] + span > now THEN Append(L[i - 1], w[i]) ELSE L[i - 1]
    <3>1. ASSUME NEW i \in 0 .. n, i # 0 PROVE L[i] = IF w[i] + span > now THEN Append(L[i - 1], w[i]) ELSE L[i - 1]
      <4>1. i - 1 \in 0 .. n BY <3>1
      <4>. QED BY <2>2, <2>4, <3>1, <4>1
    <3>2. L[0] = <<>> BY <2>2, <2>4
    <3>3. (n + 1) - 1 = n /\ n + 1 # 0 /\ n \in 0 .. n OBVIOUS
    <3>4. L[n + 1] = IF w[n + 1] + span > now THEN Append(L[n], w[n + 1]) ELSE L[n] BY <2>2, <2>3, <3>3
    <3>5. \A i \in 0 .. n + 1 : i \in 0 .. n \/ i = n + 1 OBVIOUS
    <3>. QED BY <3>1, <3>2, <3>3, <3>4, <3>5
  <2>7. L = [i \in 0 .. n + 1 |-> IF i = 0 THEN <<>> ELSE IF w[i] + span > now THEN Append(L[i - 1], w[i]) ELSE L[i - 1]]
    BY <2>5, <2>6, Zenon
  <2>. QED BY <2>7 DEF Filters
<1> HIDE DEF Built
<1>3. \A n \in Nat : n \in S => n + 1 \in S BY <1>2
<1> HIDE DEF S
<1>4. l \in S BY <1>1, <1>3, NatSetInduction
<1>. QED BY <1>4 DEF S, Built

\* Filtering a sequence of times leaves the ones that are younger than span, each once.
Picks(w, span, v, n, b) ==
  LET young == {i \in 1 .. n : w[i] + span > now} IN
  /\ b \in [1 .. Len(v) -> young]
  /\ \A i, j \in 1 .. Len(v) : b[i] = b[j] => i = j
  /\ \A i \in young : \E j \in 1 .. Len(v) : b[j] = i
  /\ \A j \in 1 .. Len(v) : v[j] = w[b[j]]

\* So what is within a span is what it should be.
LEMMA WithinPicks ==
  ASSUME NEW T, NEW w \in Seq(T), NEW span
  PROVE  /\ Within(w, span) \in Seq(T)
         /\ \E b : Picks(w, span, Within(w, span), Len(w), b)
<1> DEFINE K == CHOOSE G : G = [i \in 0 .. Len(w) |->
                  IF i = 0 THEN <<>>
                  ELSE IF w[i] + span > now THEN Append(G[i - 1], w[i]) ELSE G[i - 1]]
           Good(n) == n <= Len(w) => K[n] \in Seq(T) /\ \E b : Picks(w, span, K[n], n, b)
           S == {n \in Nat : Good(n)}
<1>0. Len(w) \in Nat OBVIOUS
<1>1. Within(w, span) = K[Len(w)] BY Zenon DEF Within
<1>2. K = [i \in 0 .. Len(w) |->
             IF i = 0 THEN <<>> ELSE IF w[i] + span > now THEN Append(K[i - 1], w[i]) ELSE K[i - 1]]
  <2> HIDE DEF K
  <2>1. PICK G : Filters(G, w, span, Len(w)) BY <1>0, KeptExists
  <2>. QED BY <2>1, Zenon DEF K, Filters
<1> HIDE DEF K
<1>3. /\ K[0] = <<>>
      /\ \A n \in Nat : n + 1 <= Len(w) =>
           K[n + 1] = IF w[n + 1] + span > now THEN Append(K[n], w[n + 1]) ELSE K[n]
  <2>1. \A i \in 0 .. Len(w) :
          K[i] = IF i = 0 THEN <<>> ELSE IF w[i] + span > now THEN Append(K[i - 1], w[i]) ELSE K[i - 1]
    BY <1>2, Zenon
  <2>2. \A n \in Nat : n + 1 <= Len(w) => n + 1 \in 0 .. Len(w) /\ n + 1 # 0 /\ (n + 1) - 1 = n BY <1>0
  <2>3. 0 \in 0 .. Len(w) BY <1>0
  <2>4. ASSUME NEW n \in Nat, n + 1 <= Len(w)
        PROVE  K[n + 1] = IF w[n + 1] + span > now THEN Append(K[n], w[n + 1]) ELSE K[n]
    BY <2>1, <2>2, <2>4
  <2>. QED BY <2>1, <2>3, <2>4
<1>4. 0 \in S
  <2>1. Picks(w, span, <<>>, 0, <<>>) BY DEF Picks
  <2>2. <<>> \in Seq(T) OBVIOUS
  <2>. QED BY <2>1, <2>2, <1>3
<1>5. ASSUME NEW n \in Nat, Good(n) PROVE Good(n + 1)
  <2> SUFFICES ASSUME n + 1 <= Len(w)
               PROVE  K[n + 1] \in Seq(T) /\ \E b : Picks(w, span, K[n + 1], n + 1, b)
    OBVIOUS
  <2>1. K[n] \in Seq(T) BY <1>0, <1>5
  <2>2. PICK b : Picks(w, span, K[n], n, b) BY <1>0, <1>5
  <2>3. w[n + 1] \in T BY <1>0
  <2>4. CASE w[n + 1] + span > now
    <3> DEFINE l == Len(K[n])
               d == [j \in 1 .. l + 1 |-> IF j = l + 1 THEN n + 1 ELSE b[j]]
    <3>1. K[n + 1] = Append(K[n], w[n + 1]) BY <1>3, <2>4
    <3>2. /\ K[n + 1] \in Seq(T) /\ Len(K[n + 1]) = l + 1 /\ l \in Nat
          /\ K[n + 1][l + 1] = w[n + 1] /\ \A j \in 1 .. l : K[n + 1][j] = K[n][j]
      BY <2>1, <2>3, <3>1
    <3> DEFINE young(m) == {i \in 1 .. m : w[i] + span > now}
    <3>3. young(n + 1) = young(n) \cup {n + 1} /\ n + 1 \notin young(n) BY <2>4
    <3>4. /\ b \in [1 .. l -> young(n)]
          /\ \A i, j \in 1 .. l : b[i] = b[j] => i = j
          /\ \A i \in young(n) : \E j \in 1 .. l : b[j] = i
          /\ \A j \in 1 .. l : K[n][j] = w[b[j]]
      BY <2>2, Zenon DEF Picks
    <3>5. /\ d[l + 1] = n + 1 /\ \A j \in 1 .. l : d[j] = b[j]
          /\ 1 .. l + 1 = (1 .. l) \cup {l + 1} /\ l + 1 \notin 1 .. l /\ DOMAIN d = 1 .. l + 1 /\ d = [j \in 1 .. l + 1 |-> d[j]]
      BY <3>2
    <3> HIDE DEF l, d, young
    <3>6. d \in [1 .. l + 1 -> young(n + 1)]
      <4>1. ASSUME NEW j \in 1 .. l + 1 PROVE d[j] \in young(n + 1)
        BY <3>3, <3>4, <3>5
      <4>. QED BY <4>1, <3>5, Zenon
    <3>7. \A i, j \in 1 .. l + 1 : d[i] = d[j] => i = j
      <4>1. \A j \in 1 .. l : d[j] \in young(n) BY <3>4, <3>5
      <4>2. ASSUME NEW i \in 1 .. l, NEW j \in 1 .. l, d[i] = d[j] PROVE i = j
        BY <3>4, <3>5, <4>2
      <4>3. \A j \in 1 .. l : d[j] # d[l + 1]
        <5>1. d[l + 1] \notin young(n) BY <3>3, <3>5
        <5>. QED BY <4>1, <5>1, Zenon
      <4>4. ASSUME NEW i \in 1 .. l + 1, NEW j \in 1 .. l + 1, d[i] = d[j] PROVE i = j
        <5>1. CASE i = l + 1 \/ j = l + 1 BY <3>5, <4>3, <4>4, <5>1
        <5>2. CASE i \in 1 .. l /\ j \in 1 .. l BY <4>2, <4>4, <5>2
        <5>. QED BY <3>5, <4>4, <5>1, <5>2
      <4>. QED BY <4>4
    <3>8. \A i \in young(n + 1) : \E j \in 1 .. l + 1 : d[j] = i
      BY <3>3, <3>4, <3>5
    <3>9. \A j \in 1 .. l + 1 : K[n + 1][j] = w[d[j]]
      BY <3>2, <3>4, <3>5
    <3>10. Picks(w, span, K[n + 1], n + 1, d)
      BY <3>2, <3>6, <3>7, <3>8, <3>9, Zenon DEF Picks, young
    <3>. QED BY <3>2, <3>10
  <2>5. CASE ~(w[n + 1] + span > now)
    <3>1. K[n + 1] = K[n] BY <1>3, <2>5
    <3>2. {i \in 1 .. n + 1 : w[i] + span > now} = {i \in 1 .. n : w[i] + span > now}
      BY <2>5
    <3>3. Picks(w, span, K[n + 1], n + 1, b)
      BY <2>2, <3>1, <3>2, Zenon DEF Picks
    <3>. QED BY <2>1, <3>1, <3>3
  <2>. QED BY <2>4, <2>5
<1> HIDE DEF Good
<1>6. \A n \in Nat : n \in S => n + 1 \in S BY <1>5
<1> HIDE DEF S
<1>7. Len(w) \in S BY <1>0, <1>4, <1>6, NatSetInduction
<1>8. Good(Len(w)) BY <1>7 DEF S
<1>. QED BY <1>0, <1>1, <1>8 DEF Good

-----------------------------------------------------------------------------
(***************************************************************************)
(* The types of the engine.                                                *)
(***************************************************************************)
\* The types, and what they rest on: a call that reloads has read the files,
\* one that arms has chosen a pattern.
Underway ==
  /\ \A c \in Calls : pc[c] \in {"idle", "stamped"} => at[c] = "none"
  /\ \A c \in Reloading : snap[c] \in Snapshots
  /\ \A c \in Calls : at[c] \in {"arm", "armed", "reported"} => pick[c] \in Contents

Consulting == Typed /\ Underway

\* What is loaded are contents; what a call arms is a key.
LEMMA LoadTyped ==
  ASSUME NEW d \in [Files -> Contents \cup {Absent}]
  PROVE  Load(d) \in [Files -> Contents \cup {Absent}]
BY DEF Load

LEMMA LessTyped ==
  ASSUME NEW S, NEW d \in [Files -> S \cup {Absent}], NEW gone
  PROVE  Less(d, gone) \in [Files -> S \cup {Absent}]
BY DEF Less

LEMMA KeyTyped ==
  ASSUME BudgetTyped, Consulting, NEW c \in Calls, at[c] \in {"arm", "armed", "reported"}
  PROVE  Key(c) \in Keys
<1>1. pick[c] \in Contents /\ pc[c] # "idle" BY DEF Consulting, Underway
<1>2. PICK f \in Fingerprints : finger[c] = {f} BY <1>1 DEF BudgetTyped
<1>3. (CHOOSE g \in finger[c] : TRUE) = f BY <1>2
<1>4. pick[c].id \in Ids BY <1>1 DEF Ids
<1>. QED BY <1>2, <1>3, <1>4 DEF Key, Keys

\* Every step keeps the types.
LEMMA ConsultingStep ==
  ASSUME BudgetTyped, BudgetTyped', Consulting, [PatternsNext]_allVars
  PROVE  Consulting'
<1> USE LimitsAreNumbers, PatternRecords
<1>0. now \in 0 .. MaxTime /\ now' \in 0 .. MaxTime BY DEF BudgetTyped, TypeOK
<1>1. CASE UNCHANGED allVars
  BY <1>1 DEF allVars, vars, patternVars, files, engine, consult, Consulting, Typed, TypeOK, Underway, Reloading
<1>2. CASE Tick /\ UNCHANGED patternVars
  BY <1>2 DEF Tick, patternVars, files, engine, consult, Consulting, Typed, BudgetTyped, Underway, Reloading
<1>3. ASSUME NEW f \in Files, Edit(f) PROVE Consulting'
  <2>1. PICK p \in Contents \cup {Absent} :
          /\ disk' = [disk EXCEPT ![f] = p]
          /\ mtime' = [mtime EXCEPT ![f] = IF p = Absent THEN Absent ELSE now]
    BY <1>3 DEF Edit
  <2>2. edits' \in 0 .. MaxEvents
    <3>1. IsFiniteSet({c \in Calls : pc[c] # "idle"}) BY CallsAreFinite, FS_Subset
    <3>2. Cardinality({c \in Calls : pc[c] # "idle"}) \in Nat BY <3>1, FS_CardinalityType
    <3>3. edits \in Nat BY DEF Consulting, Typed
    <3>4. edits + Cardinality({c \in Calls : pc[c] # "idle"}) < MaxEvents /\ edits' = edits + 1
      BY <1>3 DEF Edit, Events
    <3>. QED BY <3>2, <3>3, <3>4
  <2>3. disk' \in [Files -> Contents \cup {Absent}] /\ mtime' \in [Files -> (0 .. MaxTime) \cup {Absent}]
    BY <1>0, <2>1 DEF Consulting, Typed
  <2>4. stamped' \in [Files -> 0 .. MaxTime] /\ blurred' \in BOOLEAN
    BY <1>0, <1>3 DEF Edit, Consulting, Typed
  <2>5. UNCHANGED <<vars, engine, consult, log>> BY <1>3 DEF Edit
  <2>6. Typed' BY <2>2, <2>3, <2>4, <2>5 DEF vars, engine, consult, BudgetTyped, Consulting, Typed
  <2>. QED BY <2>5, <2>6 DEF vars, consult, Consulting, Underway, Reloading
<1>4. ASSUME NEW c \in Calls, Stamp(c), UNCHANGED patternVars PROVE Consulting'
  <2>1. Typed' BY <1>4 DEF patternVars, files, engine, consult, Consulting, Typed, BudgetTyped
  <2>2. pc[c] = "idle" /\ pc' = [pc EXCEPT ![c] = "stamped"] /\ UNCHANGED <<at, snap, pick>>
    BY <1>4 DEF Stamp, patternVars, consult
  <2>3. Underway' BY <2>2 DEF BudgetTyped, TypeOK, Consulting, Underway, Reloading
  <2>. QED BY <2>1, <2>3 DEF Consulting
<1>5. ASSUME NEW c \in Calls, Admit(c) PROVE Consulting'
  <2>1. pc[c] = "stamped" /\ pc' = [pc EXCEPT ![c] = "open"] BY <1>5, CheckDoes DEF Admit, Checks
  <2>2. at[c] = "none" BY <2>1 DEF Consulting, Underway
  <2>3. \E p \in {"glance", "unarmed"} : at' = [at EXCEPT ![c] = p] BY <1>5 DEF Admit
  <2>4. UNCHANGED <<files, engine, snap, pick, armedAt, log, blurred>> BY <1>5 DEF Admit
  <2>5. Typed' BY <2>3, <2>4 DEF files, engine, BudgetTyped, Consulting, Typed
  <2>6. Underway' BY <2>1, <2>2, <2>3, <2>4 DEF BudgetTyped, TypeOK, Consulting, Typed, Underway, Reloading
  <2>. QED BY <2>5, <2>6 DEF Consulting
<1>6. ASSUME NEW c \in Calls, Glance(c) PROVE Consulting'
  <2>0. PICK s \in Snapshots :
          \/ at' = [at EXCEPT ![c] = "choose"] /\ snap' = snap
          \/ at' = [at EXCEPT ![c] = "install"] /\ snap' = [snap EXCEPT ![c] = s]
    <3>1. disk \in [Files -> Contents \cup {Absent}] /\ mtime \in [Files -> (0 .. MaxTime) \cup {Absent}]
      BY DEF Consulting, Typed
    <3>2. ASSUME NEW unseen, NEW unread \in SUBSET Files
          PROVE  [disk |-> Less(disk, unseen), mtime |-> Less(mtime, unseen), missed |-> unread] \in Snapshots
      BY <3>1, LessTyped DEF Snapshots
    <3>3. CASE at' = [at EXCEPT ![c] = "choose"] /\ snap' = snap
      <4>1. [disk |-> disk, mtime |-> mtime, missed |-> {}] \in Snapshots BY <3>1 DEF Snapshots
      <4>. QED BY <3>3, <4>1
    <3>. QED BY <1>6, <3>2, <3>3 DEF Glance
  <2>1. s \in Snapshots OBVIOUS
  <2>2. /\ at[c] = "glance" /\ blurred' \in BOOLEAN
        /\ UNCHANGED <<vars, files, engine, pick, armedAt, log>>
        /\ \/ at' = [at EXCEPT ![c] = "choose"] /\ snap' = snap
           \/ at' = [at EXCEPT ![c] = "install"] /\ snap' = [snap EXCEPT ![c] = s]
    BY <1>6, <2>0 DEF Glance, Consulting, Typed
  <2>3. snap' \in [Calls -> Snapshots \cup {Absent}]
    <3>1. snap \in [Calls -> Snapshots \cup {Absent}] BY DEF Consulting, Typed
    <3>2. CASE snap' = snap BY <3>1, <3>2
    <3>3. CASE snap' = [snap EXCEPT ![c] = s] BY <2>1, <3>1, <3>3
    <3>. QED BY <2>2, <3>2, <3>3
  <2>4. Typed' BY <2>2, <2>3 DEF vars, files, engine, BudgetTyped, Consulting, Typed
  <2>5. at \in [Calls -> {"none", "glance", "install", "settle", "choose", "arm", "armed", "unarmed", "reported"}]
    BY DEF Consulting, Typed
  <2>6. snap \in [Calls -> Snapshots \cup {Absent}] BY DEF Consulting, Typed
  <2>7. CASE at' = [at EXCEPT ![c] = "choose"] /\ snap' = snap
    BY <2>2, <2>4, <2>5, <2>7 DEF vars, Consulting, Underway, Reloading
  <2>8. CASE at' = [at EXCEPT ![c] = "install"] /\ snap' = [snap EXCEPT ![c] = s]
    BY <2>1, <2>2, <2>4, <2>5, <2>6, <2>8 DEF vars, Consulting, Underway, Reloading
  <2>. QED BY <2>2, <2>4, <2>7, <2>8 DEF Consulting
<1>7. ASSUME NEW c \in Calls, Install(c) PROVE Consulting'
  <2>1. c \in Reloading BY <1>7 DEF Install, Reloading
  <2>2. snap[c].disk \in [Files -> Contents \cup {Absent}] BY <2>1 DEF Consulting, Underway, Snapshots
  <2>3. loaded' \in [Files -> Contents \cup {Absent}] BY <1>7, <2>2, LessTyped, LoadTyped DEF Install
  <2>6. missed' \subseteq Files BY <1>7, <2>1 DEF Install, Consulting, Underway, Snapshots
  <2>4. Typed' BY <1>7, <2>3, <2>6 DEF Install, vars, files, BudgetTyped, Consulting, Typed
  <2>5. Underway' BY <1>7, <2>1 DEF Install, vars, Consulting, Typed, Underway, Reloading
  <2>. QED BY <2>4, <2>5 DEF Consulting
<1>8. ASSUME NEW c \in Calls, Settle(c) PROVE Consulting'
  <2>1. c \in Reloading BY <1>8 DEF Settle, Reloading
  <2>2. snap[c].mtime \in [Files -> (0 .. MaxTime) \cup {Absent}] BY <2>1 DEF Consulting, Underway, Snapshots
  <2>3. Typed' BY <1>8, <2>2 DEF Settle, vars, files, BudgetTyped, Consulting, Typed
  <2>4. Underway' BY <1>8, <2>1 DEF Settle, vars, Consulting, Typed, Underway, Reloading
  <2>. QED BY <2>3, <2>4 DEF Consulting
<1>9. ASSUME NEW c \in Calls, Choose(c) PROVE Consulting'
  <2>1. /\ at[c] = "choose"
        /\ UNCHANGED <<vars, files, engine, snap, armedAt, log, blurred>>
        /\ \/ at' = [at EXCEPT ![c] = "unarmed"] /\ UNCHANGED pick
           \/ \E p \in Contents : at' = [at EXCEPT ![c] = "arm"] /\ pick' = [pick EXCEPT ![c] = p]
    <3>1. \A f \in Files : loaded[f] # Absent => loaded[f] \in Contents BY DEF Consulting, Typed
    <3>. QED BY <1>9, <3>1 DEF Choose
  <2>2. pc[c] \notin {"idle", "stamped"} BY <2>1 DEF Consulting, Underway
  <2>3. /\ at' \in [Calls -> {"none", "glance", "install", "settle", "choose", "arm", "armed", "unarmed", "reported"}]
        /\ pick' \in [Calls -> Contents \cup {Absent}]
    <3>1. /\ at \in [Calls -> {"none", "glance", "install", "settle", "choose", "arm", "armed", "unarmed", "reported"}]
          /\ pick \in [Calls -> Contents \cup {Absent}]
      BY DEF Consulting, Typed
    <3>2. CASE at' = [at EXCEPT ![c] = "unarmed"] /\ UNCHANGED pick BY <3>1, <3>2
    <3>3. ASSUME NEW p \in Contents, at' = [at EXCEPT ![c] = "arm"], pick' = [pick EXCEPT ![c] = p]
          PROVE  /\ at' \in [Calls -> {"none", "glance", "install", "settle", "choose", "arm", "armed", "unarmed", "reported"}]
                 /\ pick' \in [Calls -> Contents \cup {Absent}]
      BY <3>1, <3>3
    <3>. QED BY <2>1, <3>2, <3>3
  <2>4. Typed' BY <2>1, <2>3 DEF vars, files, engine, BudgetTyped, Consulting, Typed
  <2>5. /\ at \in [Calls -> {"none", "glance", "install", "settle", "choose", "arm", "armed", "unarmed", "reported"}]
        /\ pick \in [Calls -> Contents \cup {Absent}] /\ UNCHANGED <<pc, snap>>
    BY <2>1 DEF vars, Consulting, Typed
  <2>6. Underway
    BY DEF Consulting
  <2>7. ASSUME at' = [at EXCEPT ![c] = "unarmed"], UNCHANGED pick PROVE Underway'
    BY <2>2, <2>5, <2>6, <2>7 DEF Underway, Reloading
  <2>8. ASSUME NEW p \in Contents, at' = [at EXCEPT ![c] = "arm"], pick' = [pick EXCEPT ![c] = p]
        PROVE  Underway'
    BY <2>2, <2>5, <2>6, <2>8 DEF Underway, Reloading
  <2>. QED BY <2>1, <2>4, <2>7, <2>8 DEF Consulting
<1>10. ASSUME NEW c \in Calls, Arm(c) PROVE Consulting'
  <2> DEFINE k == Key(c)
  <2>1. at[c] = "arm" /\ pc[c] \notin {"idle", "stamped"} BY <1>10 DEF Arm, Consulting, Underway
  <2>2. k \in Keys BY <2>1, KeyTyped
  <2>3. arms[k] \in Seq(0 .. MaxTime) BY <2>2 DEF Consulting, Typed
  <2>4. Within(arms[k], Day) \in Seq(0 .. MaxTime) BY <2>3, WithinPicks
  <2>5. PICK w \in {arms[k], Within(arms[k], Day)}, g \in BOOLEAN :
          /\ at' = [at EXCEPT ![c] = IF g THEN "armed" ELSE "unarmed"]
          /\ arms' = [arms EXCEPT ![k] = IF g THEN Append(w, now) ELSE w]
          /\ armedAt' = [armedAt EXCEPT ![c] = IF g THEN now ELSE @]
    <3> DEFINE w == IF now < until[k] THEN arms[k] ELSE Within(arms[k], Day)
               g == now >= until[k] /\ ~Capped(pick[c], w)
    <3>1. /\ at' = [at EXCEPT ![c] = IF g THEN "armed" ELSE "unarmed"]
          /\ arms' = [arms EXCEPT ![k] = IF g THEN Append(w, now) ELSE w]
          /\ armedAt' = [armedAt EXCEPT ![c] = IF g THEN now ELSE @]
      BY <1>10 DEF Arm
    <3>2. w \in {arms[k], Within(arms[k], Day)} /\ g \in BOOLEAN OBVIOUS
    <3> HIDE DEF w, g, k
    <3>. QED BY <3>1, <3>2, Zenon
  <2> HIDE DEF k
  <2>6. UNCHANGED <<vars, files, loaded, missed, known, fails, until, snap, pick, log, blurred>> BY <1>10 DEF Arm
  <2>7. arms' \in [Keys -> Seq(0 .. MaxTime)]
    <3>1. Append(w, now) \in Seq(0 .. MaxTime) BY <1>0, <2>3, <2>4
    <3>. QED BY <2>2, <2>3, <2>4, <2>5, <3>1 DEF Consulting, Typed
  <2>8. armedAt' \in [Calls -> 0 .. MaxTime] BY <1>0, <2>5 DEF Consulting, Typed
  <2>9. Typed' BY <2>5, <2>6, <2>7, <2>8 DEF vars, files, BudgetTyped, Consulting, Typed
  <2>10. Underway' BY <2>1, <2>5, <2>6 DEF vars, Consulting, Typed, Underway, Reloading
  <2>. QED BY <2>9, <2>10 DEF Consulting
<1>11. ASSUME NEW c \in Calls, Finish(c) PROVE Consulting'
  <2>1. Typed' BY <1>11 DEF Finish, patternVars, files, engine, consult, Consulting, Typed, BudgetTyped
  <2>2. pc[c] = "open" /\ pc' = [pc EXCEPT ![c] = "ended"] /\ UNCHANGED <<at, snap, pick>>
    BY <1>11 DEF Finish, End, patternVars, consult
  <2>3. Underway' BY <2>2 DEF BudgetTyped, TypeOK, Consulting, Underway, Reloading
  <2>. QED BY <2>1, <2>3 DEF Consulting
<1>12. ASSUME NEW c \in Calls, Report(c) PROVE Consulting'
  <2> DEFINE k == Key(c)
  <2>1. at[c] = "armed" /\ pc[c] = "open" /\ pc' = [pc EXCEPT ![c] = "ended"]
    BY <1>12 DEF Report, End
  <2>2. k \in Keys BY <2>1, KeyTyped
  <2> HIDE DEF k
  <2>3. PICK here \in BOOLEAN, ok \in BOOLEAN :
          /\ Count(k, ok, IF here THEN Threshold ELSE DefaultThreshold, IF here THEN Disable ELSE DefaultDisable)
          /\ log' = [log EXCEPT ![k] = Append(@, [ok |-> ok, when |-> now, loaded |-> here])]
    BY <1>12 DEF Report, k
  <2>4. log' \in [Keys -> Seq([ok : BOOLEAN, when : 0 .. MaxTime, loaded : BOOLEAN])]
    <3>1. [ok |-> ok, when |-> now, loaded |-> here] \in [ok : BOOLEAN, when : 0 .. MaxTime, loaded : BOOLEAN]
      BY <1>0
    <3>2. log[k] \in Seq([ok : BOOLEAN, when : 0 .. MaxTime, loaded : BOOLEAN]) BY <2>2 DEF Consulting, Typed
    <3>3. Append(log[k], [ok |-> ok, when |-> now, loaded |-> here]) \in Seq([ok : BOOLEAN, when : 0 .. MaxTime, loaded : BOOLEAN])
      BY <3>1, <3>2, AppendProperties
    <3>. QED BY <2>2, <2>3, <3>3 DEF Consulting, Typed
  <2>5. fails' \in [Keys -> Nat] BY <2>2, <2>3 DEF Count, Consulting, Typed
  <2>6. until' \in [Keys -> Nat]
    <3>1. PICK pause \in Nat, trip \in BOOLEAN :
            until' = [until EXCEPT ![k] = IF trip THEN now + pause ELSE @]
      <4> DEFINE limit == IF here THEN Threshold ELSE DefaultThreshold
                 pause == IF here THEN Disable ELSE DefaultDisable
                 trip == ~ok /\ fails'[k] >= limit
      <4>1. pause \in Nat /\ trip \in BOOLEAN OBVIOUS
      <4>2. until' = [until EXCEPT ![k] = IF trip THEN now + pause ELSE @] BY <2>3 DEF Count
      <4> HIDE DEF limit, pause, trip
      <4>. QED BY <4>1, <4>2, Zenon
    <3>2. now + pause \in Nat BY <1>0
    <3>. QED BY <2>2, <3>1, <3>2 DEF Consulting, Typed
  <2>7. /\ at' = [at EXCEPT ![c] = "reported"]
        /\ UNCHANGED <<files, loaded, missed, known, arms, snap, pick, armedAt, blurred>>
    BY <1>12 DEF Report
  <2>8. Typed' BY <2>4, <2>5, <2>6, <2>7 DEF files, BudgetTyped, Consulting, Typed
  <2>9. Underway' BY <2>1, <2>7 DEF Consulting, Typed, BudgetTyped, TypeOK, Underway, Reloading
  <2>. QED BY <2>8, <2>9 DEF Consulting
<1>. QED BY <1>1, <1>2, <1>3, <1>4, <1>5, <1>6, <1>7, <1>8, <1>9, <1>10, <1>11, <1>12 DEF PatternsNext

\* So they hold, with those of the budget.
LEMMA ConsultingHolds == PatternsSpec => [](BudgetTyped /\ Consulting)
<1>1. PatternsInit => Consulting
  <2> SUFFICES ASSUME PatternsInit PROVE Consulting OBVIOUS
  <2> USE LimitsAreNumbers, PatternRecords
  <2>0. PICK unseen, unread \in SUBSET Files :
          loaded = Load(Less(Less(OnDisk, unseen), unread)) /\ missed = unread /\ known = Less(mtime, unseen)
    BY DEF PatternsInit
  <2>1. loaded \in [Files -> Contents \cup {Absent}] BY <2>0, LessTyped, LoadTyped
  <2>2. TypeOK BY DEF PatternsInit, Init, TypeOK
  <2>3. Underway BY DEF PatternsInit, Init, Underway, Reloading
  <2>4. /\ arms \in [Keys -> Seq(0 .. MaxTime)] /\ fails \in [Keys -> Nat] /\ until \in [Keys -> Nat]
        /\ log \in [Keys -> Seq([ok : BOOLEAN, when : 0 .. MaxTime, loaded : BOOLEAN])]
    BY DEF PatternsInit
  <2>5. mtime \in [Files -> (0 .. MaxTime) \cup {Absent}] /\ missed \subseteq Files BY <2>0 DEF PatternsInit
  <2>9. known \in [Files -> (0 .. MaxTime) \cup {Absent}] BY <2>0, <2>5, LessTyped
  <2>8. 0 \in 0 .. MaxEvents /\ 0 \in 0 .. MaxTime OBVIOUS
  <2>6. /\ disk \in [Files -> Contents \cup {Absent}] /\ edits \in 0 .. MaxEvents
        /\ stamped \in [Files -> 0 .. MaxTime] /\ armedAt \in [Calls -> 0 .. MaxTime] /\ blurred \in BOOLEAN
        /\ at \in [Calls -> {"none"}]
        /\ snap \in [Calls -> {Absent}] /\ pick \in [Calls -> {Absent}]
    BY <2>8 DEF PatternsInit
  <2>7. Typed BY <2>1, <2>2, <2>4, <2>5, <2>6, <2>9 DEF Typed
  <2>. QED BY <2>3, <2>7 DEF Consulting
<1>. QED BY <1>1, ConsultingStep, PatternsImplementBudget, BudgetTypedHolds, PTL DEF PatternsSpec

\* Every variable of the budget and the engine keeps its type, for any calls,
\* files and limits.
THEOREM PatternsTyped == PatternsSpec => []Typed
<1>1. Consulting => Typed BY DEF Consulting, Underway
<1>. QED BY <1>1, ConsultingHolds, PTL

-----------------------------------------------------------------------------
(***************************************************************************)
(* The caps.  Each timestamp of a key is that of one armed call, and no    *)
(* call armed within the day is missing.                                   *)
(***************************************************************************)
\* a tells whose arming each timestamp of w is; nobody who was armed for k
\* within span is missing.
Placed(k, w, span, a) ==
  /\ a \in [1 .. Len(w) -> Armed(k)]
  /\ \A i \in 1 .. Len(w) : w[i] = armedAt[a[i]]
  /\ \A d \in Armed(k) : armedAt[d] + span > now => \E i \in 1 .. Len(w) : a[i] = d

\* d was armed with c, and the pattern d was armed by allows what there was then.
Fits(k, c, d) ==
  /\ armedAt[d] = armedAt[c]
  /\ pick[d].perHour > 0 => Cardinality(Sooner(k, c, Hour)) <= pick[d].perHour
  /\ pick[d].perDay > 0 => Cardinality(Sooner(k, c, Day)) <= pick[d].perDay

\* The timestamps that a key keeps are those of its armed calls, the younger
\* than a day all among them; and the caps hold.
CapsInv ==
  /\ \A k \in Keys : \A d \in Armed(k) : armedAt[d] <= now
  /\ \A k \in Keys : \E a : Placed(k, arms[k], Day, a)
  /\ CapsHold

\* Filtering by a shorter span loses nobody that is within it.
LEMMA WithinPlaced ==
  ASSUME NEW k, NEW w \in Seq(Nat), NEW span \in Nat, NEW less \in Nat, less <= span,
         NEW a, Placed(k, w, span, a),
         now \in Nat, \A d \in Armed(k) : armedAt[d] \in Nat
  PROVE  \E e : Placed(k, Within(w, less), less, e)
<1> DEFINE v == Within(w, less)
<1>1. v \in Seq(Nat) BY WithinPicks
<1>2. PICK b : Picks(w, less, v, Len(w), b) BY WithinPicks
<1> HIDE DEF v
<1>3. Len(v) \in Nat /\ Len(w) \in Nat BY <1>1
<1> DEFINE young == {i \in 1 .. Len(w) : w[i] + less > now}
           e == [j \in 1 .. Len(v) |-> a[b[j]]]
<1>4. /\ \A j \in 1 .. Len(v) : b[j] \in 1 .. Len(w) /\ v[j] = w[b[j]]
      /\ \A i \in 1 .. Len(w) : w[i] + less > now => \E j \in 1 .. Len(v) : b[j] = i
  BY <1>2 DEF Picks
<1>5. e \in [1 .. Len(v) -> Armed(k)] BY <1>4 DEF Placed
<1>6. \A j \in 1 .. Len(v) : v[j] = armedAt[e[j]] BY <1>4 DEF Placed
<1>7. ASSUME NEW d \in Armed(k), armedAt[d] + less > now PROVE \E j \in 1 .. Len(v) : e[j] = d
  <2>1. armedAt[d] + span > now BY <1>7
  <2>2. PICK i \in 1 .. Len(w) : a[i] = d BY <2>1 DEF Placed
  <2>3. w[i] + less > now BY <1>7, <2>2 DEF Placed
  <2>4. PICK j \in 1 .. Len(v) : b[j] = i BY <1>4, <2>3
  <2>. QED BY <2>2, <2>4
<1>. QED BY <1>5, <1>6, <1>7 DEF Placed, v

\* There are no more calls armed within the span than timestamps.
LEMMA PlacedBounds ==
  ASSUME NEW k, NEW w \in Seq(Nat), NEW span, NEW a, Placed(k, w, span, a)
  PROVE  LET young == {d \in Armed(k) : armedAt[d] + span > now} IN
         IsFiniteSet(young) /\ Cardinality(young) <= Len(w)
<1> DEFINE young == {d \in Armed(k) : armedAt[d] + span > now}
           placed == {a[i] : i \in 1 .. Len(w)}
<1>1. Len(w) \in Nat OBVIOUS
<1>2. IsFiniteSet(1 .. Len(w)) /\ Cardinality(1 .. Len(w)) = Len(w)
  <2>1. \A n \in Nat : IsFiniteSet(1 .. n) /\ Cardinality(1 .. n) = n BY FS_Interval
  <2>. QED BY <1>1, <2>1
<1>3. a \in [1 .. Len(w) -> placed] /\ \A d \in placed : \E i \in 1 .. Len(w) : a[i] = d BY DEF Placed
<1>4. a \in Surjection(1 .. Len(w), placed) BY <1>3, Fun_IsSurj
<1>5. IsFiniteSet(placed) /\ Cardinality(placed) <= Len(w) BY <1>2, <1>4, FS_Surjection
<1>6. young \in SUBSET placed BY DEF Placed
<1> HIDE DEF young, placed
<1>7. IsFiniteSet(young) /\ Cardinality(young) <= Cardinality(placed) BY <1>5, <1>6, FS_Subset
<1>8. Cardinality(young) \in Nat /\ Cardinality(placed) \in Nat BY <1>5, <1>7, FS_CardinalityType
<1>. QED BY <1>1, <1>5, <1>7, <1>8 DEF young

\* A step that arms nobody, and leaves the timestamps and the armed alone.
LEMMA NobodyArmed ==
  ASSUME CapsInv, \A k \in Keys : Armed(k)' = Armed(k),
         \A k \in Keys : \A d \in Armed(k) : pick'[d] = pick[d] /\ armedAt'[d] = armedAt[d] /\ armedAt[d] \in Nat,
         now \in Nat, now' \in Nat, now <= now',
         \A k \in Keys : arms'[k] = arms[k] \/ \E a : Placed(k, arms[k], Day, a)'
  PROVE  CapsInv'
<1> USE PatternRecords
<1>1. \A k \in Keys : \A d \in Armed(k)' : armedAt'[d] <= now'
  BY DEF CapsInv
<1>2. ASSUME NEW k \in Keys PROVE \E a : Placed(k, arms[k], Day, a)'
  <2>1. CASE arms'[k] = arms[k]
    <3>1. PICK a : Placed(k, arms[k], Day, a) BY DEF CapsInv
    <3>2. \A d \in Armed(k) : armedAt[d] + Day > now' => armedAt[d] + Day > now OBVIOUS
    <3>3. Placed(k, arms[k], Day, a)' BY <2>1, <3>1, <3>2 DEF Placed
    <3>. QED BY <3>3
  <2>. QED BY <2>1
<1>3. ASSUME NEW k \in Keys, NEW c \in Armed(k)' PROVE \E d \in Armed(k)' : Fits(k, c, d)'
  <2>1. c \in Armed(k) /\ armedAt'[c] = armedAt[c] OBVIOUS
  <2>2. Sooner(k, c, Hour)' = Sooner(k, c, Hour) /\ Sooner(k, c, Day)' = Sooner(k, c, Day)
    BY <2>1 DEF Sooner
  <2>3. PICK d \in Armed(k) : Fits(k, c, d)
    BY <2>1 DEF CapsInv, CapsHold, Fits
  <2>4. Fits(k, c, d)'
    BY <2>1, <2>2, <2>3 DEF Fits
  <2>. QED BY <2>4
<1>. QED BY <1>1, <1>2, <1>3 DEF CapsInv, CapsHold, Fits

\* Arming under the caps: nobody's window holds more than was allowed.
LEMMA ArmKeepsCaps ==
  ASSUME BudgetTyped, Consulting, CapsInv, NEW c \in Calls, Arm(c)
  PROVE  CapsInv'
<1> USE PatternRecords
<1>1. at[c] = "arm" /\ UNCHANGED <<now, finger, pick>> BY DEF Arm, vars
<1>2. PICK k \in Keys : k = Key(c) BY <1>1, KeyTyped
<1>3. PICK w : w = IF now < until[k] THEN arms[k] ELSE Within(arms[k], Day) OBVIOUS
<1>4. PICK granted \in BOOLEAN : granted = (now >= until[k] /\ ~Capped(pick[c], w)) OBVIOUS
<1>5. /\ at[c] = "arm"
      /\ at' = [at EXCEPT ![c] = IF granted THEN "armed" ELSE "unarmed"]
      /\ arms' = [arms EXCEPT ![k] = IF granted THEN Append(w, now) ELSE w]
      /\ armedAt' = [armedAt EXCEPT ![c] = IF granted THEN now ELSE @]
      /\ UNCHANGED <<now, finger, pick>>
  BY <1>1, <1>2, <1>3, <1>4 DEF Arm
<1>6. pick[c] \in Contents BY <1>5 DEF Consulting, Underway
<1>7. /\ now \in Nat
      /\ at \in [Calls -> {"none", "glance", "install", "settle", "choose", "arm", "armed", "unarmed", "reported"}]
      /\ armedAt \in [Calls -> Nat]
      /\ arms \in [Keys -> Seq(Nat)]
  <2>1. arms \in [Keys -> Seq(Nat)]
    <3>1. ASSUME NEW i \in Keys PROVE arms[i] \in Seq(Nat)
      <4>1. arms[i] \in Seq(0 .. MaxTime) BY DEF Consulting, Typed
      <4>2. 0 .. MaxTime \subseteq Nat BY LimitsAreNumbers
      <4>. QED BY <4>1, <4>2, SeqMonotonic
    <3>2. DOMAIN arms = Keys /\ arms = [i \in Keys |-> arms[i]] BY DEF Consulting, Typed
    <3>. QED BY <3>1, <3>2, Zenon
  <2>. QED BY <2>1, LimitsAreNumbers DEF Consulting, Typed, TypeOK
<1>8. \A d \in Calls : Key(d)' = Key(d) BY <1>5 DEF Key
<1>9. c \notin Armed(k) /\ Armed(k) \subseteq Calls BY <1>5 DEF Armed
<1>10. PICK a : Placed(k, w, Day, a)
  <2>1. PICK a : Placed(k, arms[k], Day, a) BY <1>6 DEF CapsInv
  <2>2. arms[k] \in Seq(Nat) /\ \A d \in Armed(k) : armedAt[d] \in Nat BY <1>6, <1>7, <1>9
  <2>3. \E e : Placed(k, Within(arms[k], Day), Day, e)
    <3>1. Day \in Nat /\ Day <= Day OBVIOUS
    <3>. QED BY <1>7, <2>1, <2>2, <3>1, WithinPlaced, Zenon
  <2>. QED BY <1>3, <2>1, <2>3
<1>11. w \in Seq(Nat)
  <2>1. arms[k] \in Seq(Nat) BY <1>6, <1>7
  <2>2. Within(arms[k], Day) \in Seq(Nat) BY <2>1, WithinPicks
  <2>. QED BY <1>3, <2>1, <2>2
<1>12. CASE ~granted
  <2>1. \A i \in Keys : Armed(i)' = Armed(i) BY <1>5, <1>7, <1>8, <1>12 DEF Armed
  <2>2. armedAt' = armedAt BY <1>5, <1>7, <1>12
  <2>3. arms'[k] = w /\ \A i \in Keys : i # k => arms'[i] = arms[i] BY <1>5, <1>6, <1>7, <1>12
  <2>4. Placed(k, arms[k], Day, a)'
    BY <1>5, <1>6, <1>10, <2>1, <2>2, <2>3 DEF Placed
  <2>5. \A i \in Keys : \A d \in Armed(i) : armedAt[d] \in Nat BY <1>7 DEF Armed
  <2>. QED BY <1>5, <1>7, <2>1, <2>2, <2>3, <2>4, <2>5, NobodyArmed
<1>13. CASE granted
  <2>1. Armed(k)' = Armed(k) \cup {c} /\ \A i \in Keys : i # k => Armed(i)' = Armed(i)
    BY <1>5, <1>7, <1>8, <1>13, <1>2 DEF Armed
  <2>2. armedAt'[c] = now /\ \A d \in Calls : d # c => armedAt'[d] = armedAt[d] BY <1>5, <1>7, <1>13
  <2>3. arms'[k] = Append(w, now) /\ \A i \in Keys : i # k => arms'[i] = arms[i] BY <1>5, <1>6, <1>7, <1>13
  <2>4. \A i \in Keys : \A d \in Armed(i)' : armedAt'[d] <= now'
    BY <1>5, <1>7, <2>1, <2>2 DEF CapsInv, Armed
  <2>5. \E e : Placed(k, arms[k], Day, e)'
    <3> DEFINE n == Len(w)
               e == [i \in 1 .. n + 1 |-> IF i = n + 1 THEN c ELSE a[i]]
    <3>1. /\ n \in Nat /\ Len(Append(w, now)) = n + 1 /\ Append(w, now)[n + 1] = now
          /\ \A i \in 1 .. n : Append(w, now)[i] = w[i]
      BY <1>7, <1>11
    <3>2. /\ e[n + 1] = c /\ \A i \in 1 .. n : e[i] = a[i]
          /\ 1 .. n + 1 = (1 .. n) \cup {n + 1} /\ e = [i \in 1 .. n + 1 |-> e[i]]
      BY <3>1
    <3>3. \A i \in 1 .. n : a[i] \in Armed(k) /\ w[i] = armedAt[a[i]] BY <1>10 DEF Placed
    <3> HIDE DEF n, e
    <3>4. \A i \in 1 .. n + 1 : e[i] \in Armed(k) \cup {c} BY <3>2, <3>3
    <3>5. e \in [1 .. n + 1 -> Armed(k) \cup {c}] BY <3>2, <3>4, Zenon
    <3>6. \A i \in 1 .. n + 1 : Append(w, now)[i] = armedAt'[e[i]]
      <4>1. ASSUME NEW i \in 1 .. n PROVE Append(w, now)[i] = armedAt'[e[i]]
        <5>1. a[i] \in Calls /\ a[i] # c BY <1>9, <3>3
        <5>2. armedAt'[a[i]] = armedAt[a[i]] BY <2>2, <5>1
        <5>3. Append(w, now)[i] = w[i] /\ e[i] = a[i] BY <3>1, <3>2
        <5>. QED BY <3>3, <5>2, <5>3
      <4>. QED BY <2>2, <3>1, <3>2, <4>1
    <3>7. \A d \in Armed(k) \cup {c} : armedAt'[d] + Day > now => \E i \in 1 .. n + 1 : e[i] = d
      <4>1. ASSUME NEW d \in Armed(k), armedAt'[d] + Day > now PROVE \E i \in 1 .. n + 1 : e[i] = d
        <5>1. armedAt'[d] = armedAt[d] BY <1>9, <2>2
        <5>2. PICK i \in 1 .. Len(w) : a[i] = d BY <1>10, <4>1, <5>1 DEF Placed
        <5>. QED BY <3>2, <5>2 DEF n
      <4>. QED BY <3>2, <4>1
    <3>8. Placed(k, arms[k], Day, e)'
      BY <1>5, <2>1, <2>3, <3>1, <3>5, <3>6, <3>7, <1>8, Zenon DEF Placed
    <3>. QED BY <3>8
  <2>6. ASSUME NEW i \in Keys, i # k PROVE \E e : Placed(i, arms[i], Day, e)'
    <3>1. PICK e : Placed(i, arms[i], Day, e) BY DEF CapsInv
    <3>2. \A d \in Armed(i) : armedAt'[d] = armedAt[d] BY <2>2, <1>5, <2>6 DEF Armed
    <3>3. Placed(i, arms[i], Day, e)' BY <1>5, <2>1, <2>3, <2>6, <3>1, <3>2 DEF Placed
    <3>. QED BY <3>3
  <2>7. ASSUME NEW i \in Keys, NEW e \in Armed(i)', i # k PROVE \E d \in Armed(i)' : Fits(i, e, d)'
    <3>1. Armed(i)' = Armed(i) /\ \A d \in Armed(i) : armedAt'[d] = armedAt[d] /\ pick'[d] = pick[d]
      BY <1>5, <2>1, <2>2, <2>7 DEF Armed
    <3>2. Sooner(i, e, Hour)' = Sooner(i, e, Hour) /\ Sooner(i, e, Day)' = Sooner(i, e, Day)
      BY <3>1 DEF Sooner
    <3>3. PICK d \in Armed(i) : Fits(i, e, d)
      BY <3>1 DEF CapsInv, CapsHold, Fits
    <3>4. Fits(i, e, d)'
      BY <3>1, <3>2, <3>3 DEF Fits
    <3>. QED BY <3>1, <3>4
  <2>8. ASSUME NEW span \in Nat, NEW cap \in Nat, NEW v \in Seq(Nat), NEW b,
               Placed(k, v, span, b), cap > 0 => Len(v) < cap
        PROVE  cap > 0 => Cardinality(Sooner(k, c, span)') <= cap
    <3> DEFINE young == {d \in Armed(k) : armedAt[d] + span > now}
    <3>1. IsFiniteSet(young) /\ Cardinality(young) <= Len(v) BY <2>8, PlacedBounds
    <3>2. Sooner(k, c, span)' \subseteq young \cup {c}
      BY <1>5, <1>7, <1>9, <2>1, <2>2 DEF Sooner
    <3>3. IsFiniteSet(young \cup {c}) /\ Cardinality(young \cup {c}) <= Cardinality(young) + 1
      <4>1. Cardinality(young) \in Nat BY <3>1, FS_CardinalityType
      <4> HIDE DEF young
      <4>2. /\ IsFiniteSet(young \cup {c})
            /\ Cardinality(young \cup {c}) = IF c \in young THEN Cardinality(young) ELSE Cardinality(young) + 1
        BY <3>1, FS_AddElement, Zenon
      <4>. QED BY <4>1, <4>2
    <3> HIDE DEF young
    <3>4. Cardinality(Sooner(k, c, span)') <= Cardinality(young \cup {c}) /\ IsFiniteSet(Sooner(k, c, span)')
      BY <3>2, <3>3, FS_Subset
    <3>5. Cardinality(Sooner(k, c, span)') \in Nat /\ Cardinality(young \cup {c}) \in Nat /\ Cardinality(young) \in Nat
          /\ Len(v) \in Nat
      BY <3>1, <3>3, <3>4, FS_CardinalityType
    <3>. QED BY <2>8, <3>1, <3>3, <3>4, <3>5
  <2>9. /\ pick[c].perHour > 0 => Cardinality(Sooner(k, c, Hour)') <= pick[c].perHour
        /\ pick[c].perDay > 0 => Cardinality(Sooner(k, c, Day)') <= pick[c].perDay
    <3>1. pick[c].perHour \in Nat /\ pick[c].perDay \in Nat BY <1>6
    <3>2. Within(w, Hour) \in Seq(Nat) /\ \E e : Placed(k, Within(w, Hour), Hour, e)
      <4>1. \A d \in Armed(k) : armedAt[d] \in Nat BY <1>7, <1>9
      <4>2. Hour \in Nat /\ Day \in Nat /\ Hour <= Day OBVIOUS
      <4>3. Within(w, Hour) \in Seq(Nat) BY <1>11, WithinPicks
      <4>. QED BY <1>7, <1>10, <1>11, <4>1, <4>2, <4>3, WithinPlaced, Zenon
    <3>3. /\ pick[c].perHour > 0 => Len(Within(w, Hour)) < pick[c].perHour
          /\ pick[c].perDay > 0 => Len(w) < pick[c].perDay
      <4>1. ~Capped(pick[c], w) BY <1>13, <1>4
      <4>2. Len(w) \in Nat /\ Len(Within(w, Hour)) \in Nat BY <1>11, <3>2
      <4>. QED BY <3>1, <4>1, <4>2 DEF Capped
    <3>4. Hour \in Nat /\ Day \in Nat OBVIOUS
    <3>. QED BY <1>10, <1>11, <2>8, <3>1, <3>2, <3>3, <3>4
  <2>10. ASSUME NEW e \in Armed(k)' PROVE \E d \in Armed(k)' : Fits(k, e, d)'
    <3>1. CASE armedAt'[e] = now
      <4>1. Sooner(k, e, Hour)' = Sooner(k, c, Hour)' /\ Sooner(k, e, Day)' = Sooner(k, c, Day)'
        BY <2>2, <3>1 DEF Sooner
      <4>2. Fits(k, e, c)' BY <1>5, <2>2, <2>9, <3>1, <4>1 DEF Fits
      <4>. QED BY <2>1, <4>2
    <3>2. CASE armedAt'[e] # now
      <4>1. e \in Armed(k) /\ armedAt'[e] = armedAt[e] /\ e \in Calls BY <1>9, <2>1, <2>2, <3>2
      <4>2. armedAt[e] < now /\ armedAt[e] \in Nat BY <1>7, <3>2, <4>1 DEF CapsInv
      <4>3. Sooner(k, e, Hour)' = Sooner(k, e, Hour) /\ Sooner(k, e, Day)' = Sooner(k, e, Day)
        <5>1. \A d \in Armed(k) : d # c /\ armedAt'[d] = armedAt[d] BY <1>9, <2>2
        <5>2. ~(armedAt'[c] <= armedAt'[e]) BY <1>7, <2>2, <4>1, <4>2
        <5>. QED BY <2>1, <4>1, <5>1, <5>2 DEF Sooner
      <4>4. PICK d \in Armed(k) : Fits(k, e, d) BY <4>1 DEF CapsInv, CapsHold, Fits
      <4>5. d \in Calls /\ d # c /\ armedAt'[d] = armedAt[d] BY <1>9, <2>2
      <4>6. Fits(k, e, d)' BY <1>5, <4>1, <4>3, <4>4, <4>5 DEF Fits
      <4>. QED BY <2>1, <4>6
    <3>. QED BY <3>1, <3>2
  <2>11. CapsHold' BY <2>7, <2>10 DEF CapsHold, Fits
  <2>. QED BY <2>4, <2>5, <2>6, <2>11 DEF CapsInv
<1>. QED BY <1>12, <1>13

\* A step that starts no call over and arms none.
LEMMA CapsStep ==
  ASSUME BudgetTyped, BudgetTyped', Consulting, Consulting', CapsInv, [PatternsNext]_allVars
  PROVE  CapsInv'
<1>1. /\ now \in Nat /\ now' \in Nat
      /\ at \in [Calls -> {"none", "glance", "install", "settle", "choose", "arm", "armed", "unarmed", "reported"}]
      /\ pick \in [Calls -> Contents \cup {Absent}]
      /\ armedAt \in [Calls -> Nat] /\ finger \in [Calls -> SUBSET Fingerprints]
  BY LimitsAreNumbers DEF Consulting, Typed, TypeOK
<1>2. ASSUME UNCHANGED <<arms, armedAt>>, now <= now',
             \A d \in Calls : (at'[d] \in {"armed", "reported"}) = (at[d] \in {"armed", "reported"}),
             \A d \in Calls : at[d] \in {"armed", "reported"} => pick'[d] = pick[d] /\ finger'[d] = finger[d]
      PROVE  CapsInv'
  <2>1. \A k \in Keys : Armed(k)' = Armed(k) BY <1>2 DEF Armed, Key
  <2>2. \A k \in Keys : \A d \in Armed(k) : pick'[d] = pick[d] /\ armedAt'[d] = armedAt[d] /\ armedAt[d] \in Nat
    BY <1>1, <1>2 DEF Armed
  <2>. QED BY <1>1, <1>2, <2>1, <2>2, NobodyArmed
<1>3. CASE UNCHANGED allVars
  BY <1>1, <1>2, <1>3 DEF allVars, vars, patternVars, engine, consult
<1>4. CASE Tick /\ UNCHANGED patternVars
  BY <1>1, <1>2, <1>4 DEF Tick, patternVars, engine, consult
<1>5. ASSUME NEW f \in Files, Edit(f) PROVE CapsInv'
  BY <1>1, <1>2, <1>5 DEF Edit, vars, engine, consult
<1>6. ASSUME NEW c \in Calls, Stamp(c), UNCHANGED patternVars PROVE CapsInv'
  <2>1. at[c] = "none" BY <1>6 DEF Stamp, Consulting, Underway
  <2>2. \A d \in Calls : d # c => finger'[d] = finger[d] BY <1>1, <1>6 DEF Stamp
  <2>. QED BY <1>1, <1>2, <1>6, <2>1, <2>2 DEF Stamp, patternVars, engine, consult
<1>7. ASSUME NEW c \in Calls, Admit(c) PROVE CapsInv'
  <2>1. pc[c] = "stamped" /\ UNCHANGED <<now, finger>> BY <1>7, CheckDoes DEF Admit, Checks
  <2>2. at[c] = "none" BY <2>1 DEF Consulting, Underway
  <2>. QED BY <1>1, <1>2, <1>7, <2>1, <2>2 DEF Admit, engine
<1>8. ASSUME NEW c \in Calls, Glance(c) \/ Install(c) \/ Settle(c) \/ Choose(c) PROVE CapsInv'
  <2>1. /\ at[c] \in {"glance", "install", "settle", "choose"}
        /\ \E q \in {"choose", "install", "settle", "unarmed", "arm"} : at' = [at EXCEPT ![c] = q]
        /\ pick' = pick \/ \E p : pick' = [pick EXCEPT ![c] = p]
        /\ UNCHANGED <<vars, arms, armedAt>>
    BY <1>8 DEF Glance, Install, Settle, Choose, engine
  <2>. QED BY <1>1, <1>2, <2>1 DEF vars
<1>9. ASSUME NEW c \in Calls, Arm(c) PROVE CapsInv'
  BY <1>9, ArmKeepsCaps
<1>10. ASSUME NEW c \in Calls, Finish(c) \/ Report(c) PROVE CapsInv'
  <2>1. /\ at' = at \/ (at[c] = "armed" /\ at' = [at EXCEPT ![c] = "reported"])
        /\ UNCHANGED <<now, finger, pick, arms, armedAt>>
    BY <1>10 DEF Finish, Report, End, patternVars, engine, consult
  <2>. QED BY <1>1, <1>2, <2>1
<1>. QED BY <1>3, <1>4, <1>5, <1>6, <1>7, <1>8, <1>9, <1>10 DEF PatternsNext

\* However the calls overlap and whatever is reloaded between them, no window
\* of an hour or of a day holds more armed calls of one pattern and target than
\* the pattern allowed when they were armed, for any caps (match).
THEOREM CapsAreHeld == PatternsSpec => []CapsHold
<1>1. PatternsInit => CapsInv
  <2> SUFFICES ASSUME PatternsInit PROVE CapsInv OBVIOUS
  <2>1. \A k \in Keys : Armed(k) = {} /\ arms[k] = <<>> BY DEF PatternsInit, Armed
  <2>2. ASSUME NEW k \in Keys PROVE \E a : Placed(k, arms[k], Day, a)
    <3>1. Placed(k, <<>>, Day, <<>>) BY <2>1 DEF Placed
    <3>. QED BY <2>1, <3>1
  <2>. QED BY <2>1, <2>2 DEF CapsInv, CapsHold
<1>2. CapsInv => CapsHold BY DEF CapsInv
<1>. QED BY <1>1, <1>2, CapsStep, ConsultingHolds, PTL DEF PatternsSpec
=============================================================================
