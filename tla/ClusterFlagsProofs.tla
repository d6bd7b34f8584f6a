--------------------------- MODULE ClusterFlagsProofs ---------------------------
(***************************************************************************)
(* Proofs about ClusterFlags, for any flags, calls and number of changes   *)
(* by others: types, that a lost update needs an overlap, and that the     *)
(* inverse of a real change restores the flag.                             *)
(***************************************************************************)
EXTENDS ClusterFlags, TLAPS

\* A token is that of a call that succeeded, and so is a replay's origin.
TokensAreOfEnded ==
  /\ \A c \in token : pc[c] = "ok"
  /\ \A c \in Calls : \A d \in origin[c] : pc[d] = "ok"

\* What a call that is about to write has read differs from the flags only
\* where somebody has moved them since; or it is nothing.
SeenButForMoves ==
  \A c \in Calls : pc[c] = "write" =>
    IF c \in blank THEN seen[c] = {} ELSE Difference(flags, seen[c]) \subseteq moved[c]

Inductive == TypeOK /\ TokensAreOfEnded /\ SeenButForMoves

-----------------------------------------------------------------------------
LEMMA InitInductive == Init => Inductive
  BY MaxOthersIsNat DEF Init, Inductive, TypeOK, Stages, TokensAreOfEnded, SeenButForMoves

\* The set a call writes back differs from what it has read in its flag only.
LEMMA WantedIsSeen ==
  ASSUME TypeOK, NEW c \in Calls
  PROVE  /\ Wanted(c) \subseteq Flags
         /\ Difference(seen[c], Wanted(c)) \subseteq flag[c]
  BY DEF Wanted, Difference, TypeOK

\* The cluster taking a call's set keeps the types, and whoever else is about to
\* write has the changes among its moves.
LEMMA PutIsTracked ==
  ASSUME Inductive, NEW c \in Calls, Put(c)
  PROVE  /\ flags' \subseteq Flags
         /\ moved' \in [Calls -> SUBSET Flags]
         /\ found' \in [Calls -> BOOLEAN]
         /\ \A d \in Calls \ {c} :
              pc[d] = "write" /\ d \notin blank => Difference(flags', seen[d]) \subseteq moved'[d]
<1>1. flags' = Wanted(c) /\ Wanted(c) \subseteq Flags
  BY WantedIsSeen DEF Put, Inductive
<1>2. \A d \in Calls : moved'[d] \subseteq Flags
  BY <1>1 DEF Put, Inductive, TypeOK
<1>3. moved' \in [Calls -> SUBSET Flags]
  <2>1. moved' = [d \in Calls |-> moved'[d]]
    BY DEF Put
  <2> QED BY <1>2, <2>1
<1>4. found' \in [Calls -> BOOLEAN]
  BY DEF Put, Inductive, TypeOK
<1>5. ASSUME NEW d \in Calls \ {c}, pc[d] = "write", d \notin blank
      PROVE  Difference(flags', seen[d]) \subseteq moved'[d]
  <2>1. d \notin origin[c]
    BY <1>5 DEF Inductive, TokensAreOfEnded
  <2>2. moved'[d] = moved[d] \cup (flags \ Wanted(c)) \cup (Wanted(c) \ flags)
    BY <1>5, <2>1 DEF Put
  <2>3. Difference(flags, seen[d]) \subseteq moved[d]
    BY <1>5 DEF Inductive, SeenButForMoves
  <2> QED BY <1>1, <2>2, <2>3 DEF Difference
<1> QED BY <1>1, <1>3, <1>4, <1>5

-----------------------------------------------------------------------------
LEMMA NextInductive ==
  ASSUME Inductive, [Next]_vars
  PROVE  Inductive'
<1> USE DEF Inductive
<1>1. CASE UNCHANGED vars
  BY <1>1 DEF vars, TypeOK, TokensAreOfEnded, SeenButForMoves
<1>2. CASE Other
  <2>1. TypeOK'
    BY <1>2, MaxOthersIsNat DEF Other, TypeOK
  <2>2. TokensAreOfEnded'
    BY <1>2 DEF Other, TokensAreOfEnded
  <2>3. SeenButForMoves'
    <3>1. PICK f \in Flags :
            /\ flags' = IF f \in flags THEN flags \ {f} ELSE flags \cup {f}
            /\ moved' = [c \in Calls |-> moved[c] \cup {f}]
      BY <1>2 DEF Other
    <3>2. pc' = pc /\ seen' = seen /\ blank' = blank
      BY <1>2 DEF Other
    <3> QED BY <3>1, <3>2 DEF SeenButForMoves, Difference
  <2> QED BY <2>1, <2>2, <2>3
<1>3. ASSUME NEW c \in Calls, NEW f \in SUBSET Flags, NEW on \in BOOLEAN,
             NEW from \in SUBSET Calls, Begin(c, f, on, from),
             \A d \in from : pc[d] = "ok"
      PROVE  Inductive'
  <2>1. TypeOK'
    BY <1>3 DEF Begin, Goto, TypeOK, Stages
  <2>2. TokensAreOfEnded'
    BY <1>3 DEF Begin, Goto, TypeOK, TokensAreOfEnded
  <2>3. SeenButForMoves'
    BY <1>3 DEF Begin, Goto, TypeOK, SeenButForMoves
  <2> QED BY <2>1, <2>2, <2>3
<1>4. ASSUME NEW c \in Calls, Start(c) PROVE Inductive'
  BY <1>4, <1>3 DEF Start
<1>5. ASSUME NEW c \in Calls, Replay(c) PROVE Inductive'
  <2>1. PICK d \in token : Begin(c, flag[d], ~enable[d], {d})
    BY <1>5 DEF Replay
  <2>2. d \in Calls /\ flag[d] \in SUBSET Flags /\ (~enable[d]) \in BOOLEAN
    BY <2>1 DEF TypeOK
  <2>3. pc[d] = "ok"
    BY <2>1 DEF TokensAreOfEnded
  <2> QED BY <2>1, <2>2, <2>3, <1>3
<1>6. ASSUME NEW c \in Calls, Read(c) \/ ReadBlank(c) PROVE Inductive'
  <2>1. TypeOK'
    BY <1>6 DEF Read, ReadBlank, Goto, TypeOK, Stages
  <2>2. TokensAreOfEnded'
    BY <1>6 DEF Read, ReadBlank, Goto, TypeOK, TokensAreOfEnded
  <2>3. SeenButForMoves'
    BY <1>6 DEF Read, ReadBlank, Goto, TypeOK, SeenButForMoves, Difference
  <2> QED BY <2>1, <2>2, <2>3
<1>7. ASSUME NEW c \in Calls, ReadFails(c) \/ WriteRefused(c) PROVE Inductive'
  <2>1. TypeOK'
    BY <1>7 DEF ReadFails, WriteRefused, Goto, TypeOK, Stages
  <2>2. TokensAreOfEnded'
    BY <1>7 DEF ReadFails, WriteRefused, Goto, TypeOK, TokensAreOfEnded
  <2>3. SeenButForMoves'
    BY <1>7 DEF ReadFails, WriteRefused, Goto, TypeOK, SeenButForMoves
  <2> QED BY <2>1, <2>2, <2>3
<1>8. ASSUME NEW c \in Calls, Write(c) PROVE Inductive'
  <2>1. /\ pc[c] = "write" /\ Put(c)
        /\ pc' = [pc EXCEPT ![c] = "ok"]
        /\ token' = token \/ token' = token \cup {c}
        /\ UNCHANGED <<flag, enable, seen, blank, origin, others>>
    BY <1>8 DEF Write, Goto, RecordInverse
  <2>2. /\ flags' \subseteq Flags
        /\ moved' \in [Calls -> SUBSET Flags]
        /\ found' \in [Calls -> BOOLEAN]
        /\ \A d \in Calls \ {c} :
             pc[d] = "write" /\ d \notin blank => Difference(flags', seen[d]) \subseteq moved'[d]
    BY <2>1, PutIsTracked
  <2>3. TypeOK'
    BY <2>1, <2>2 DEF TypeOK, Stages
  <2>4. TokensAreOfEnded'
    BY <2>1 DEF TypeOK, TokensAreOfEnded
  <2>5. SeenButForMoves'
    BY <2>1, <2>2 DEF TypeOK, SeenButForMoves
  <2> QED BY <2>3, <2>4, <2>5
<1>9. ASSUME NEW c \in Calls, WriteLost(c) PROVE Inductive'
  <2>1. /\ pc[c] = "write"
        /\ Put(c) \/ UNCHANGED <<flags, moved, found>>
        /\ pc' = [pc EXCEPT ![c] = "lost"]
        /\ UNCHANGED <<flag, enable, seen, blank, origin, token, others>>
    BY <1>9 DEF WriteLost, Goto
  <2>2. /\ flags' \subseteq Flags
        /\ moved' \in [Calls -> SUBSET Flags]
        /\ found' \in [Calls -> BOOLEAN]
        /\ \A d \in Calls \ {c} :
             pc[d] = "write" /\ d \notin blank => Difference(flags', seen[d]) \subseteq moved'[d]
    <3>1. CASE Put(c)
      BY <3>1, PutIsTracked
    <3>2. CASE UNCHANGED <<flags, moved, found>>
      BY <3>2 DEF TypeOK, SeenButForMoves
    <3> QED BY <2>1, <3>1, <3>2
  <2>3. TypeOK'
    BY <2>1, <2>2 DEF TypeOK, Stages
  <2>4. TokensAreOfEnded'
    BY <2>1 DEF TypeOK, TokensAreOfEnded
  <2>5. SeenButForMoves'
    BY <2>1, <2>2 DEF TypeOK, SeenButForMoves
  <2> QED BY <2>3, <2>4, <2>5
<1> QED
  BY <1>1, <1>2, <1>4, <1>5, <1>6, <1>7, <1>8, <1>9 DEF Next

\* Every reachable state types, and what a call has read differs from the
\* cluster's flags only where others moved them, unless it has read nothing.
THEOREM Tracked == Spec => []Inductive
<1>1. Inductive /\ [Next]_vars => Inductive'
  BY NextInductive
<1> QED BY <1>1, InitInductive, PTL DEF Spec

\* The type invariant of the module.
THEOREM TypeCorrect == Spec => []TypeOK
  BY Tracked, PTL DEF Inductive

\* set_cluster_flag writes the whole set of flags back, and yet a write changes
\* another flag than its own only if somebody moved that flag since its read, or
\* clears it because the answer to that read had no flags in it.
THEOREM LossesNeedOverlaps == Spec => LossNeedsAnOverlap
<1>1. ASSUME Inductive, [Next]_vars
      PROVE  [\A c \in Calls : Writes(c) =>
                Difference(flags, flags') \ flag[c] \subseteq AtRisk(c)]_vars
  <2>1. SUFFICES ASSUME NEW c \in Calls, Writes(c), Next
                 PROVE  Difference(flags, flags') \ flag[c] \subseteq AtRisk(c)
    BY <1>1 DEF vars
  <2>2. flags' = flags \/ flags' = Wanted(c)
    <3>1. \A d \in Calls : Write(d) \/ WriteLost(d) => d = c
      BY <2>1, <1>1 DEF Write, WriteLost, Writes, Goto, Inductive, TypeOK
    <3>2. \A d \in Calls : ~(Start(d) \/ Replay(d) \/ Read(d) \/ ReadBlank(d) \/ ReadFails(d) \/ WriteRefused(d))
      BY <2>1, <1>1 DEF Start, Replay, Begin, Read, ReadBlank, ReadFails, WriteRefused, Writes, Goto, Inductive, TypeOK
    <3>3. ~Other
      BY <2>1 DEF Other, Writes
    <3>4. Write(c) \/ WriteLost(c)
      BY <2>1, <3>1, <3>2, <3>3 DEF Next
    <3> QED BY <3>4 DEF Write, WriteLost, Put
  <2>3. IF c \in blank THEN seen[c] = {} ELSE Difference(flags, seen[c]) \subseteq moved[c]
    BY <1>1, <2>1 DEF Inductive, SeenButForMoves, Writes
  <2>4. Difference(seen[c], Wanted(c)) \subseteq flag[c]
    BY <1>1, WantedIsSeen DEF Inductive
  <2>5. CASE c \in blank
    BY <2>2, <2>3, <2>4, <2>5 DEF Difference, AtRisk
  <2>6. CASE c \notin blank
    BY <2>2, <2>3, <2>4, <2>6 DEF Difference, AtRisk
  <2> QED BY <2>5, <2>6
<1> QED BY <1>1, Tracked, PTL DEF Spec, LossNeedsAnOverlap

-----------------------------------------------------------------------------
\* A call has one flag.  A replay has its origin's, the other way round, and no
\* token is replayed twice.
ReplaysArePaired ==
  /\ \A c \in Calls : pc[c] # "idle" => \E f \in Flags : flag[c] = {f}
  /\ \A c \in Calls : pc[c] = "idle" => origin[c] = {}
  /\ \A c \in Calls : \A d \in origin[c] :
       /\ flag[c] = flag[d] /\ enable[c] = ~enable[d]
       /\ \A e \in Calls : d \in origin[e] => e = c

On(c) == flag[c] \subseteq flags
Untouched(c) == flag[c] \cap moved[c] = {}

\* While nobody touches the flag of a call that succeeded, it is as the call set
\* it, and after a successful replay the other way round.
FlagsAreSettled ==
  \A d \in Calls : pc[d] = "ok" /\ Untouched(d) =>
    /\ (\A c \in Calls : d \in origin[c] => pc[c] \notin {"ok", "lost"}) => (On(d) <=> enable[d])
    /\ \A c \in Calls : d \in origin[c] /\ pc[c] = "ok" => (On(d) <=> ~enable[d])

Restoring == Inductive /\ ReplaysArePaired /\ FlagsAreSettled

\* Beginning a call keeps replays paired.
LEMMA BeginIsPaired ==
  ASSUME Restoring, NEW c \in Calls, NEW f \in Flags, NEW on \in BOOLEAN, NEW from \in SUBSET Calls,
         Begin(c, {f}, on, from),
         \A d \in from : /\ pc[d] = "ok" /\ flag[d] = {f} /\ on = ~enable[d]
                         /\ \A e \in Calls : d \notin origin[e]
  PROVE  ReplaysArePaired' /\ FlagsAreSettled'
<1>1. /\ pc[c] = "idle" /\ pc' = [pc EXCEPT ![c] = "read"]
      /\ flag' = [flag EXCEPT ![c] = {f}]
      /\ enable' = [enable EXCEPT ![c] = on]
      /\ origin' = [origin EXCEPT ![c] = from]
      /\ flags' = flags /\ moved' = moved
  BY DEF Begin, Goto
<1>2. TypeOK /\ TokensAreOfEnded /\ ReplaysArePaired /\ FlagsAreSettled
  BY DEF Restoring, Inductive
<1>3. \A e \in Calls : \A d \in origin'[e] : pc[d] = "ok" /\ d \in Calls /\ d # c
  BY <1>1, <1>2 DEF TypeOK, TokensAreOfEnded
<1>4. \A e \in Calls \ {c} : /\ pc'[e] = pc[e] /\ flag'[e] = flag[e]
                             /\ enable'[e] = enable[e] /\ origin'[e] = origin[e]
  BY <1>1, <1>2 DEF TypeOK
<1>5. pc'[c] = "read" /\ flag'[c] = {f} /\ enable'[c] = on /\ origin'[c] = from
  BY <1>1, <1>2 DEF TypeOK
<1>6. ReplaysArePaired'
  <2>1. \A e \in Calls : pc'[e] # "idle" => \E g \in Flags : flag'[e] = {g}
    BY <1>2, <1>4, <1>5 DEF ReplaysArePaired
  <2>2. \A e \in Calls : pc'[e] = "idle" => origin'[e] = {}
    BY <1>2, <1>4, <1>5 DEF ReplaysArePaired
  <2>3. ASSUME NEW e \in Calls, NEW d \in origin'[e]
        PROVE  /\ flag'[e] = flag'[d] /\ enable'[e] = ~enable'[d]
               /\ \A x \in Calls : d \in origin'[x] => x = e
    <3>1. flag'[d] = flag[d] /\ enable'[d] = enable[d] /\ d # c /\ d \in Calls
      BY <1>3, <1>4, <2>3
    <3>2. CASE e = c
      BY <3>1, <3>2, <1>4, <1>5, <2>3
    <3>3. CASE e # c
      <4>1. d \in origin[e] /\ flag'[e] = flag[e] /\ enable'[e] = enable[e]
        BY <3>3, <1>4, <2>3
      <4>2. d \notin from
        BY <4>1
      <4> QED BY <4>1, <4>2, <3>1, <3>3, <1>2, <1>4, <1>5 DEF ReplaysArePaired
    <3> QED BY <3>2, <3>3
  <2> QED BY <2>1, <2>2, <2>3 DEF ReplaysArePaired
<1>7. FlagsAreSettled'
  <2>1. SUFFICES ASSUME NEW d \in Calls, pc'[d] = "ok", Untouched(d)'
                 PROVE  /\ (\A e \in Calls : d \in origin'[e] => pc'[e] \notin {"ok", "lost"})
                            => (On(d)' <=> enable'[d])
                        /\ \A e \in Calls : d \in origin'[e] /\ pc'[e] = "ok" => (On(d)' <=> ~enable'[d])
    BY DEF FlagsAreSettled
  <2>2. d # c /\ pc[d] = "ok" /\ enable'[d] = enable[d] /\ (On(d)' <=> On(d)) /\ Untouched(d)
    BY <2>1, <1>1, <1>4, <1>5 DEF On, Untouched
  <2>3. /\ (\A e \in Calls : d \in origin[e] => pc[e] \notin {"ok", "lost"}) => (On(d) <=> enable[d])
        /\ \A e \in Calls : d \in origin[e] /\ pc[e] = "ok" => (On(d) <=> ~enable[d])
    BY <2>2, <1>2 DEF FlagsAreSettled
  <2>4. (\A e \in Calls : d \in origin'[e] => pc'[e] \notin {"ok", "lost"})
          => (\A e \in Calls : d \in origin[e] => pc[e] \notin {"ok", "lost"})
    BY <1>1, <1>4, <1>2 DEF ReplaysArePaired
  <2>5. \A e \in Calls : d \in origin'[e] /\ pc'[e] = "ok" => d \in origin[e] /\ pc[e] = "ok"
    BY <1>4, <1>5
  <2> QED BY <2>2, <2>3, <2>4, <2>5
<1> QED BY <1>6, <1>7

\* A step that only moves one call to a stage where it has changed nothing, and
\* perhaps touches flags as somebody else, settles nothing anew.
LEMMA MoveIsSettled ==
  ASSUME Restoring, NEW c \in Calls, NEW stage \in {"read", "write", "refused", "lost"},
         pc[c] \in {"read", "write"}, pc' = [pc EXCEPT ![c] = stage],
         UNCHANGED <<flag, enable, origin>>,
         \A d \in Calls \ {c} : pc[d] = "ok" /\ d \notin origin[c] /\ Untouched(d)'
                                  => Untouched(d) /\ (On(d)' <=> On(d)),
         \A d \in origin[c] : stage = "lost" \/ (Untouched(d)' => Untouched(d) /\ (On(d)' <=> On(d)))
  PROVE  ReplaysArePaired' /\ FlagsAreSettled'
<1>1. TypeOK /\ TokensAreOfEnded /\ ReplaysArePaired /\ FlagsAreSettled
  BY DEF Restoring, Inductive
<1>2. pc'[c] = stage /\ \A d \in Calls \ {c} : pc'[d] = pc[d]
  BY <1>1 DEF TypeOK
<1>3. ReplaysArePaired'
  BY <1>1, <1>2 DEF ReplaysArePaired
<1>4. FlagsAreSettled'
  <2>1. SUFFICES ASSUME NEW d \in Calls, pc'[d] = "ok", Untouched(d)'
                 PROVE  /\ (\A e \in Calls : d \in origin[e] => pc'[e] \notin {"ok", "lost"})
                            => (On(d)' <=> enable[d])
                        /\ \A e \in Calls : d \in origin[e] /\ pc'[e] = "ok" => (On(d)' <=> ~enable[d])
    BY DEF FlagsAreSettled
  <2>2. d # c /\ pc[d] = "ok"
    BY <2>1, <1>2
  <2>3. CASE d \in origin[c] /\ stage = "lost"
    BY <2>2, <2>3, <1>1, <1>2 DEF ReplaysArePaired
  <2>4. CASE ~(d \in origin[c] /\ stage = "lost")
    <3>1. Untouched(d) /\ (On(d)' <=> On(d))
      BY <2>1, <2>2, <2>4
    <3>2. /\ (\A e \in Calls : d \in origin[e] => pc[e] \notin {"ok", "lost"}) => (On(d) <=> enable[d])
          /\ \A e \in Calls : d \in origin[e] /\ pc[e] = "ok" => (On(d) <=> ~enable[d])
      BY <3>1, <2>2, <1>1 DEF FlagsAreSettled
    <3>3. (\A e \in Calls : d \in origin[e] => pc'[e] \notin {"ok", "lost"})
            => (\A e \in Calls : d \in origin[e] => pc[e] \notin {"ok", "lost"})
      BY <1>2
    <3>4. \A e \in Calls : d \in origin[e] /\ pc'[e] = "ok" => pc[e] = "ok"
      BY <1>2
    <3> QED BY <3>1, <3>2, <3>3, <3>4
  <2> QED BY <2>3, <2>4
<1> QED BY <1>3, <1>4

\* Whom a write overtakes: a call it does not undo has the changes among its moves.
LEMMA PutSparesUntouched ==
  ASSUME TypeOK, NEW c \in Calls, Put(c), flag' = flag, NEW d \in Calls \ {c}, d \notin origin[c], Untouched(d)'
  PROVE  Untouched(d) /\ (On(d)' <=> On(d))
<1>1. flags' = Wanted(c)
  BY DEF Put
<1>2. moved'[d] = moved[d] \cup (flags \ Wanted(c)) \cup (Wanted(c) \ flags)
  BY DEF Put
<1> QED BY <1>1, <1>2 DEF Untouched, On

\* What the flag of a call is once the cluster has taken its set.
LEMMA PutSets ==
  ASSUME TypeOK, NEW c \in Calls, Put(c), NEW f \in Flags, flag[c] = {f}
  PROVE  flag[c] \subseteq flags' <=> enable[c]
  BY DEF Put, Wanted, TypeOK

\* A write settles its own flag, or its original's, and touches what it overtakes.
LEMMA WriteIsSettled ==
  ASSUME Restoring, NEW c \in Calls, Write(c)
  PROVE  ReplaysArePaired' /\ FlagsAreSettled'
<1>1. TypeOK /\ TokensAreOfEnded /\ ReplaysArePaired /\ FlagsAreSettled
  BY DEF Restoring, Inductive
<1>2. /\ pc[c] = "write" /\ Put(c)
      /\ pc'[c] = "ok" /\ \A d \in Calls \ {c} : pc'[d] = pc[d]
      /\ flag' = flag /\ enable' = enable /\ origin' = origin
  BY <1>1 DEF Write, Goto, TypeOK
<1>3. flag[c] \subseteq flags' <=> enable[c]
  BY <1>1, <1>2, PutSets DEF ReplaysArePaired
<1>4. \A e \in Calls : c \notin origin[e]
  BY <1>1, <1>2 DEF TokensAreOfEnded
<1>5. ReplaysArePaired'
  BY <1>1, <1>2 DEF ReplaysArePaired
<1>6. FlagsAreSettled'
  <2>1. SUFFICES ASSUME NEW d \in Calls, pc'[d] = "ok", Untouched(d)'
                 PROVE  /\ (\A e \in Calls : d \in origin[e] => pc'[e] \notin {"ok", "lost"})
                            => (On(d)' <=> enable[d])
                        /\ \A e \in Calls : d \in origin[e] /\ pc'[e] = "ok" => (On(d)' <=> ~enable[d])
    BY <1>2 DEF FlagsAreSettled
  <2>2. CASE d = c
    BY <2>2, <1>2, <1>3, <1>4 DEF On
  <2>3. CASE d \in origin[c]
    <3>1. flag[c] = flag[d] /\ enable[c] = ~enable[d] /\ \A e \in Calls : d \in origin[e] => e = c
      BY <2>3, <1>1 DEF ReplaysArePaired
    <3>2. On(d)' <=> enable[c]
      BY <3>1, <1>2, <1>3 DEF On
    <3>3. ~(\A e \in Calls : d \in origin[e] => pc'[e] \notin {"ok", "lost"})
      BY <2>3, <1>2
    <3> QED BY <3>1, <3>2, <3>3
  <2>4. CASE d # c /\ d \notin origin[c]
    <3>1. Untouched(d) /\ (On(d)' <=> On(d))
      BY <2>1, <2>4, <1>1, <1>2, PutSparesUntouched
    <3>2. /\ (\A e \in Calls : d \in origin[e] => pc[e] \notin {"ok", "lost"}) => (On(d) <=> enable[d])
          /\ \A e \in Calls : d \in origin[e] /\ pc[e] = "ok" => (On(d) <=> ~enable[d])
      BY <3>1, <2>1, <2>4, <1>1, <1>2 DEF FlagsAreSettled
    <3>3. \A e \in Calls : d \in origin[e] => pc'[e] = pc[e]
      BY <2>4, <1>2
    <3> QED BY <3>1, <3>2, <3>3
  <2> QED BY <2>2, <2>3, <2>4
<1> QED BY <1>5, <1>6

\* Every step keeps the flags settled.
LEMMA NextRestoring ==
  ASSUME Restoring, [Next]_vars
  PROVE  Restoring'
<1>1. Inductive'
  BY NextInductive DEF Restoring
<1>2. TypeOK /\ TokensAreOfEnded /\ ReplaysArePaired /\ FlagsAreSettled
  BY DEF Restoring, Inductive
<1> DEFINE Goal == ReplaysArePaired' /\ FlagsAreSettled'
<1>3. ASSUME UNCHANGED vars PROVE Goal
  BY <1>2, <1>3 DEF vars, ReplaysArePaired, FlagsAreSettled, On, Untouched
<1>4. ASSUME Other PROVE Goal
  <2>1. /\ pc' = pc /\ flag' = flag /\ enable' = enable /\ origin' = origin
        /\ \E f \in Flags : /\ flags' = IF f \in flags THEN flags \ {f} ELSE flags \cup {f}
                            /\ moved' = [c \in Calls |-> moved[c] \cup {f}]
    BY <1>4 DEF Other
  <2>2. \A d \in Calls : Untouched(d)' => Untouched(d) /\ (On(d)' <=> On(d))
    BY <2>1, <1>2 DEF Untouched, On, TypeOK
  <2>3. ReplaysArePaired'
    BY <2>1, <1>2 DEF ReplaysArePaired
  <2>4. FlagsAreSettled'
    BY <2>1, <2>2, <1>2 DEF FlagsAreSettled
  <2> QED BY <2>3, <2>4
<1>5. ASSUME NEW c \in Calls, Start(c) PROVE Goal
  <2>1. PICK f \in Flags, on \in BOOLEAN : Begin(c, {f}, on, {})
    BY <1>5 DEF Start
  <2> QED BY <2>1, BeginIsPaired
<1>6. ASSUME NEW c \in Calls, Replay(c) PROVE Goal
  <2>1. PICK d \in token : /\ \A e \in Calls : d \notin origin[e]
                           /\ Begin(c, flag[d], ~enable[d], {d})
    BY <1>6 DEF Replay
  <2>2. d \in Calls /\ pc[d] = "ok"
    BY <1>2, <2>1 DEF TypeOK, TokensAreOfEnded
  <2>3. PICK f \in Flags : flag[d] = {f}
    BY <1>2, <2>2 DEF ReplaysArePaired
  <2>4. PICK on \in BOOLEAN, from \in SUBSET Calls : on = ~enable[d] /\ from = {d}
    BY <2>2
  <2>5. Begin(c, {f}, on, from)
    BY <2>1, <2>3, <2>4
  <2>6. \A x \in from : /\ pc[x] = "ok" /\ flag[x] = {f} /\ on = ~enable[x]
                        /\ \A e \in Calls : x \notin origin[e]
    BY <2>1, <2>2, <2>3, <2>4
  <2>7. ReplaysArePaired' /\ FlagsAreSettled'
    BY <2>5, <2>6, BeginIsPaired
  <2> QED BY <2>7
<1>7. ASSUME NEW c \in Calls, Read(c) \/ ReadBlank(c) PROVE Goal
  <2>1. /\ pc[c] = "read" /\ pc' = [pc EXCEPT ![c] = "write"]
        /\ moved' = [moved EXCEPT ![c] = {}]
        /\ UNCHANGED <<flags, flag, enable, origin>>
    BY <1>7 DEF Read, ReadBlank, Goto
  <2>2. \A d \in Calls \ {c} : Untouched(d)' => Untouched(d) /\ (On(d)' <=> On(d))
    BY <2>1, <1>2 DEF Untouched, On, TypeOK
  <2>3. \A d \in origin[c] : d \in Calls \ {c}
    BY <2>1, <1>2 DEF TypeOK, TokensAreOfEnded
  <2> QED BY <2>1, <2>2, <2>3, MoveIsSettled
<1>8. ASSUME NEW c \in Calls, ReadFails(c) \/ WriteRefused(c) PROVE Goal
  <2>1. /\ pc[c] \in {"read", "write"} /\ pc' = [pc EXCEPT ![c] = "refused"]
        /\ UNCHANGED <<flags, moved, flag, enable, origin>>
    BY <1>8 DEF ReadFails, WriteRefused, Goto
  <2>2. \A d \in Calls : Untouched(d)' => Untouched(d) /\ (On(d)' <=> On(d))
    BY <2>1 DEF Untouched, On
  <2>3. \A d \in origin[c] : d \in Calls
    BY <1>2 DEF TypeOK
  <2> QED BY <2>1, <2>2, <2>3, MoveIsSettled
<1>9. ASSUME NEW c \in Calls, Write(c) PROVE Goal
  BY <1>9, WriteIsSettled
<1>10. ASSUME NEW c \in Calls, WriteLost(c) PROVE Goal
  <2>1. /\ pc[c] = "write" /\ pc' = [pc EXCEPT ![c] = "lost"]
        /\ Put(c) \/ UNCHANGED <<flags, moved, found>>
        /\ UNCHANGED <<flag, enable, origin>>
    BY <1>10 DEF WriteLost, Goto
  <2>2. \A d \in Calls \ {c} : d \notin origin[c] /\ Untouched(d)' => Untouched(d) /\ (On(d)' <=> On(d))
    <3>1. CASE Put(c)
      BY <3>1, <2>1, <1>2, PutSparesUntouched
    <3>2. CASE UNCHANGED <<flags, moved, found>>
      BY <3>2, <2>1 DEF Untouched, On
    <3> QED BY <2>1, <3>1, <3>2
  <2> QED BY <2>1, <2>2, MoveIsSettled
<1>11. Goal
  BY <1>3, <1>4, <1>5, <1>6, <1>7, <1>8, <1>9, <1>10 DEF Next
<1> QED BY <1>1, <1>11 DEF Restoring

\* The inverse only toggles the flag, and yet a replay that succeeded restores
\* what the original call found, if the call changed it and nobody touched it since.
THEOREM RealChangesAreUndone == Spec => []RealChangeIsUndone
<1>1. Init => Restoring
  BY InitInductive DEF Init, Restoring, ReplaysArePaired, FlagsAreSettled
<1>2. Restoring /\ [Next]_vars => Restoring'
  BY NextRestoring
<1>3. Restoring => RealChangeIsUndone
  <2>1. SUFFICES ASSUME Restoring, NEW c \in Calls, NEW d \in origin[c], pc[c] = "ok",
                        found[d] # enable[d], Untouched(d)
                 PROVE  On(d) = found[d]
    BY DEF RealChangeIsUndone, On, Untouched
  <2>2. d \in Calls /\ pc[d] = "ok" /\ found[d] \in BOOLEAN /\ enable[d] \in BOOLEAN
    BY <2>1 DEF Restoring, Inductive, TypeOK, TokensAreOfEnded
  <2>3. On(d) <=> ~enable[d]
    BY <2>1, <2>2 DEF Restoring, FlagsAreSettled
  <2>4. found[d] <=> ~enable[d]
    BY <2>1, <2>2
  <2> QED BY <2>2, <2>3, <2>4 DEF On
<1> QED BY <1>1, <1>2, <1>3, PTL DEF Spec
=============================================================================
