------------------------ MODULE ReversibleWritesProofs ------------------------
(***************************************************************************)
(* Theorems about ReversibleWrites, for any calls, replays, values and     *)
(* changes by others.                                                      *)
(***************************************************************************)
EXTENDS ReversibleWrites, TLAPS

\* The requests of a call: two for a throttle, one for everything else.
LEMMA OfBatches ==
  ASSUME NEW c \in Calls, TypeOK
  PROVE  /\ kind[c] = "throttle" => Len(Batches(c)) = 2 /\ Batches(c)[1] = {First} /\ Batches(c)[2] = {Second}
         /\ kind[c] # "throttle" => Len(Batches(c)) = 1 /\ Batches(c)[1] \in {Settings, Given(change[c])}
         /\ kind[c] # "throttle" => Given(change[c]) \cap Batches(c)[1] = Given(change[c])
<1>1. CASE kind[c] = "throttle"
  <2>1. Batches(c) = <<{First}, {Second}>> BY <1>1 DEF Batches
  <2>. QED BY <1>1, <2>1
<1>2. CASE kind[c] = "quota"
  <2>1. Batches(c) = <<Settings>> BY <1>2 DEF Batches
  <2>. QED BY <1>2, <2>1 DEF Given
<1>3. CASE kind[c] \notin {"throttle", "quota"}
  <2>1. Batches(c) = <<Given(change[c])>> BY <1>3 DEF Batches
  <2>. QED BY <1>3, <2>1
<1>. QED BY <1>1, <1>2, <1>3

\* Where a call stands in its requests, and what it has set by then.
Progress(c) ==
  /\ kind[c] # "throttle" \/ pc[c] \notin {"read", "write"} => batch[c] = 1
  /\ pc[c] = "idle" => prior[c] = Nothing /\ origin[c] = NoCall
  /\ pc[c] \in {"idle", "read"} => wrote[c] = {}
  /\ pc[c] = "write" => wrote[c] = IF batch[c] = 1 THEN {} ELSE Given(change[c]) \cap {First}
  /\ token[c] # NoToken => pc[c] = "ok" /\ token[c] = prior[c]
  /\ pc[c] = "ok" => wrote[c] = Given(change[c])
  /\ kind[c] # "throttle" /\ pc[c] = "refused" => wrote[c] = {}
  /\ kind[c] # "throttle" => wrote[c] \in {{}, Given(change[c])}
  /\ Second \in wrote[c] /\ change[c][First] # None => First \in wrote[c]

InProgress == TypeOK /\ \A c \in Calls : Progress(c)

LEMMA ProgressInit == Init => InProgress
<1>1. Init => TypeOK
  BY ConstantsAreWellFormed DEF Init, TypeOK, Partial, Nothing, NoCall, AllKinds
<1>. QED BY <1>1 DEF Init, InProgress, Progress

\* A step of one call leaves the progress of the others as it is.
LEMMA ProgressOfOthers ==
  ASSUME NEW d \in Calls, Progress(d),
         UNCHANGED <<pc[d], kind[d], change[d], origin[d], batch[d], prior[d], token[d], wrote[d]>>
  PROVE  Progress(d)'
BY DEF Progress, Given

LEMMA InverseIsPrior ==
  ASSUME NEW c \in Calls
  PROVE  Inverse(c) \in {prior[c], NoToken}
BY DEF Inverse

LEMMA BeginProgress ==
  ASSUME InProgress, family' = family, NEW c \in Calls, Start(c) \/ Replay(c)
  PROVE  InProgress'
<1>1. PICK k \in AllKinds, values \in Partial, from \in SUBSET Calls : Begin(c, k, values, from)
  <2>1. CASE Start(c)
    <3>1. family \subseteq AllKinds
      BY ConstantsAreWellFormed DEF InProgress, TypeOK
    <3>. QED BY <2>1, <3>1 DEF Start, NoCall
  <2>2. CASE Replay(c)
    <3>1. PICK d \in Calls :
            /\ token[d] # NoToken
            /\ Begin(c, IF kind[d] = "mark_in" THEN "mark_out" ELSE kind[d], token[d], {d})
      BY <2>2 DEF Replay
    <3>. QED BY <3>1 DEF InProgress, TypeOK, AllKinds
  <2>. QED BY <2>1, <2>2
<1>2. TypeOK'
  BY <1>1 DEF InProgress, TypeOK, Begin
<1>3. Progress(c)'
  BY <1>1 DEF InProgress, TypeOK, Begin, Progress
<1>4. ASSUME NEW d \in Calls \ {c} PROVE Progress(d)'
  BY <1>1, <1>4, ProgressOfOthers DEF InProgress, TypeOK, Begin
<1>. QED BY <1>2, <1>3, <1>4 DEF InProgress

LEMMA ReadProgress ==
  ASSUME InProgress, family' = family, NEW c \in Calls, Read(c) \/ ReadFails(c)
  PROVE  InProgress'
<1> USE DEF InProgress
<1>1. pc[c] = "read" BY DEF Read, ReadFails
<1>2. \/ batch' = [batch EXCEPT ![c] = 2] /\ pc' = pc /\ kind[c] = "throttle"
      \/ batch' = [batch EXCEPT ![c] = 1] /\ pc' = [pc EXCEPT ![c] = "write"]
      \/ batch' = batch /\ batch[c] = 1 /\ pc' = [pc EXCEPT ![c] = "refused"]
  <2>1. \/ Advance(c, "write")
        \/ kind[c] # "throttle" /\ pc' = [pc EXCEPT ![c] = "refused"] /\ UNCHANGED batch
    BY DEF Read, ReadFails
  <2>2. /\ batch[c] \in 1 .. 2 /\ (kind[c] # "throttle" => batch[c] = 1 /\ Len(Batches(c)) = 1)
        /\ kind[c] = "throttle" => Len(Batches(c)) = 2
    BY OfBatches DEF TypeOK, Progress
  <2>3. CASE Advance(c, "write") /\ kind[c] = "throttle"
    <3>1. Len(Batches(c)) = 2 /\ batch[c] \in 1 .. 2
      BY <2>2, <2>3, Zenon
    <3>2. batch[c] < Len(Batches(c)) => batch[c] + 1 = 2
      BY <3>1
    <3>. QED BY <2>3, <3>2 DEF Advance
  <2>4. CASE Advance(c, "write") /\ kind[c] # "throttle"
    <3>1. ~(batch[c] < Len(Batches(c)))
      BY <2>2, <2>4
    <3>. QED BY <2>4, <3>1 DEF Advance
  <2>. QED BY <2>1, <2>2, <2>3, <2>4
<1>3. /\ prior' \in [Calls -> Partial]
      /\ \A d \in Calls \ {c} : prior'[d] = prior[d]
  <2>1. CASE Read(c)
    <3>1. prior' = [prior EXCEPT ![c] = [s \in Settings |-> IF s \in Batch(c) THEN conf[s] ELSE prior[c][s]]]
      BY <2>1 DEF Read, Capture, TypeOK
    <3>. QED BY <3>1 DEF TypeOK, Partial
  <2>. QED BY <2>1 DEF ReadFails, TypeOK
<1>4. UNCHANGED <<conf, kind, change, origin, token, over, wrote, dirty, others>>
  BY DEF Read, ReadFails
<1>5. TypeOK'
  BY <1>2, <1>3, <1>4 DEF TypeOK
<1>6. Progress(c)'
  BY <1>1, <1>2, <1>4, <1>5 DEF Progress, TypeOK, Given
<1>7. ASSUME NEW d \in Calls \ {c} PROVE Progress(d)'
  BY <1>2, <1>3, <1>4, <1>7, ProgressOfOthers DEF TypeOK
<1>. QED BY <1>5, <1>6, <1>7

\* What a request that is applied changes, all others' progress apart.
LEMMA ApplyFrame ==
  ASSUME TypeOK, NEW c \in Calls, Apply(c)
  PROVE  LET set == Given(change[c]) \cap Batch(c) IN
         /\ conf' \in Partial /\ over' \in [Calls -> Partial]
         /\ wrote' = [wrote EXCEPT ![c] = @ \cup set]
         /\ wrote' \in [Calls -> SUBSET Settings] /\ dirty' \in [Calls -> SUBSET Settings]
<1> DEFINE set == Given(change[c]) \cap Batch(c)
<1>1. set \subseteq Settings /\ \A s \in set : change[c][s] \in Values
  BY DEF TypeOK, Given, Partial
<1> HIDE DEF set
<1>2. /\ conf' = [s \in Settings |-> IF s \in set THEN change[c][s] ELSE conf[s]]
      /\ over' = [over EXCEPT ![c] = [s \in Settings |-> IF s \in set THEN conf[s] ELSE over[c][s]]]
      /\ wrote' = [wrote EXCEPT ![c] = @ \cup set]
      /\ dirty' = [d \in Calls |->
                     IF d = c \/ d \in origin[c] \/ pc[d] = "idle" THEN dirty[d] ELSE dirty[d] \cup set]
  BY DEF Apply, set, TypeOK
<1>3. conf' \in Partial /\ over' \in [Calls -> Partial]
  BY <1>1, <1>2 DEF TypeOK, Partial
<1>4. wrote' \in [Calls -> SUBSET Settings] /\ dirty' \in [Calls -> SUBSET Settings]
  BY <1>1, <1>2 DEF TypeOK
<1>. QED BY <1>2, <1>3, <1>4 DEF set

LEMMA WriteProgress ==
  ASSUME InProgress, family' = family, NEW c \in Calls, Write(c) \/ WriteRefused(c) \/ WriteLost(c)
  PROVE  InProgress'
<1> USE DEF InProgress
<1> DEFINE set == Given(change[c]) \cap Batch(c)
<1>1. pc[c] = "write" BY DEF Write, WriteRefused, WriteLost, Sends
<1>2. UNCHANGED <<kind, change, origin, prior, others>>
  BY DEF Write, WriteRefused, WriteLost, Fail
<1>3. /\ kind[c] # "throttle" => batch[c] = 1 /\ set = Given(change[c])
      /\ kind[c] = "throttle" /\ batch[c] = 1 => set = Given(change[c]) \cap {First}
      /\ kind[c] = "throttle" /\ batch[c] = 2 => set = Given(change[c]) \cap {Second}
  BY <1>1, OfBatches DEF Progress, Batch
<1>4. /\ wrote[c] = IF batch[c] = 1 THEN {} ELSE Given(change[c]) \cap {First}
      /\ token[c] = NoToken
      /\ Given(change[c]) \subseteq Settings
  BY <1>1 DEF Progress, Given
<1> HIDE DEF set
<1>5. CASE Write(c)
  <2>1. wrote' = [wrote EXCEPT ![c] = @ \cup set]
    BY <1>5, ApplyFrame DEF Write, set
  <2>2. \/ /\ kind[c] = "throttle" /\ batch[c] = 1 /\ batch' = [batch EXCEPT ![c] = 2]
           /\ pc' = pc /\ token' = token
        \/ /\ kind[c] # "throttle" \/ batch[c] = 2
           /\ batch' = [batch EXCEPT ![c] = 1] /\ pc' = [pc EXCEPT ![c] = "ok"]
           /\ \E t \in {prior[c], NoToken} : token' = [token EXCEPT ![c] = t]
    <3>1. Write(c) => Advance(c, "ok") /\ IF batch[c] = Len(Batches(c)) THEN Finish(c) ELSE UNCHANGED token
      BY DEF Write
    <3>2. Finish(c) => \E t \in {prior[c], NoToken} : token' = [token EXCEPT ![c] = t]
      BY InverseIsPrior DEF Finish
    <3>3. /\ kind[c] = "throttle" => Len(Batches(c)) = 2
          /\ kind[c] # "throttle" => Len(Batches(c)) = 1
          /\ batch[c] \in 1 .. 2
      BY OfBatches DEF TypeOK
    <3>4. CASE kind[c] = "throttle" /\ batch[c] = 1
      <4>1. batch[c] = 1 /\ Len(Batches(c)) = 2
        BY <3>3, <3>4, Zenon
      <4>2. batch[c] < Len(Batches(c)) /\ batch[c] # Len(Batches(c)) /\ batch[c] + 1 = 2
        BY <4>1
      <4>. QED BY <1>5, <3>1, <3>4, <4>2 DEF Advance
    <3>5. CASE kind[c] # "throttle" \/ batch[c] = 2
      <4>1. \/ batch[c] = 1 /\ Len(Batches(c)) = 1
            \/ batch[c] = 2 /\ Len(Batches(c)) = 2
        <5>1. CASE kind[c] # "throttle"
          BY <1>3, <3>3, <5>1, Zenon
        <5>2. CASE kind[c] = "throttle"
          BY <3>3, <3>5, <5>2, Zenon
        <5>. QED BY <5>1, <5>2
      <4>2. batch[c] \in Nat /\ batch[c] = Len(Batches(c))
        <5>1. CASE batch[c] = 1 /\ Len(Batches(c)) = 1 BY <5>1
        <5>2. CASE batch[c] = 2 /\ Len(Batches(c)) = 2 BY <5>2
        <5>. QED BY <4>1, <5>1, <5>2, Zenon
      <4>3. ~(batch[c] < Len(Batches(c)))
        BY <4>2
      <4>. QED BY <1>5, <3>1, <3>2, <3>5, <4>2, <4>3 DEF Advance
    <3>. QED BY <3>3, <3>4, <3>5
  <2>3. TypeOK'
    <3>1. batch' \in [Calls -> 1 .. 2] /\ pc' \in [Calls -> {"idle", "read", "write", "ok", "refused", "lost"}]
      BY <2>2 DEF TypeOK
    <3>2. token' \in [Calls -> Partial \cup {NoToken}]
      BY <2>2 DEF TypeOK
    <3>. QED BY <1>2, <1>5, <3>1, <3>2, ApplyFrame DEF TypeOK, Write
  <2>4. Progress(c)'
    <3>1. batch[c] \in 1 .. 2 /\ wrote'[c] = wrote[c] \cup set
      BY <2>1 DEF TypeOK
    <3>2. CASE kind[c] = "throttle" /\ batch[c] = 1
      <4>1. batch'[c] = 2 /\ pc'[c] = "write" /\ token'[c] = NoToken
        BY <1>1, <1>4, <2>2, <3>2 DEF TypeOK
      <4>2. wrote'[c] = Given(change[c]) \cap {First}
        BY <1>3, <1>4, <3>1, <3>2
      <4>3. Second \notin wrote'[c]
        BY <4>2, ConstantsAreWellFormed
      <4>. QED BY <1>2, <3>2, <4>1, <4>2, <4>3 DEF Progress, Given
    <3>3. CASE kind[c] # "throttle" \/ batch[c] = 2
      <4>1. batch'[c] = 1 /\ pc'[c] = "ok" /\ token'[c] \in {prior[c], NoToken}
        BY <2>2, <3>3 DEF TypeOK
      <4>2. wrote'[c] = Given(change[c])
        <5>1. kind[c] = "throttle" => wrote'[c] = Given(change[c]) \cap {First, Second}
          BY <1>3, <1>4, <3>1, <3>3
        <5>. QED BY <1>3, <1>4, <3>1, <5>1 DEF Given, Settings
      <4>. QED BY <1>2, <4>1, <4>2 DEF Progress, Given, Settings
    <3>. QED BY <3>1, <3>2, <3>3
  <2>5. ASSUME NEW d \in Calls \ {c} PROVE Progress(d)'
    BY <1>2, <2>1, <2>2, <2>5, ProgressOfOthers DEF TypeOK
  <2>. QED BY <2>3, <2>4, <2>5
<1>6. CASE WriteRefused(c) \/ WriteLost(c)
  <2>1. /\ batch' = [batch EXCEPT ![c] = 1] /\ token' = token
        /\ WriteRefused(c) => pc' = [pc EXCEPT ![c] = "refused"]
        /\ WriteLost(c) => pc' = [pc EXCEPT ![c] = "lost"]
    BY <1>6 DEF WriteRefused, WriteLost, Fail
  <2>2. /\ wrote' = wrote \/ wrote' = [wrote EXCEPT ![c] = @ \cup set]
        /\ WriteRefused(c) => wrote' = wrote
        /\ conf' \in Partial /\ over' \in [Calls -> Partial]
        /\ dirty' \in [Calls -> SUBSET Settings] /\ wrote' \in [Calls -> SUBSET Settings]
    BY <1>6, ApplyFrame DEF WriteRefused, WriteLost, set, TypeOK
  <2>3. TypeOK'
    <3>1. pc' \in [Calls -> {"idle", "read", "write", "ok", "refused", "lost"}]
      BY <1>6, <2>1 DEF TypeOK
    <3>2. batch' \in [Calls -> 1 .. 2] /\ token' \in [Calls -> Partial \cup {NoToken}]
      BY <2>1 DEF TypeOK
    <3>. QED BY <1>2, <2>2, <3>1, <3>2 DEF TypeOK
  <2>4. Progress(c)'
    <3>1. pc'[c] \in {"refused", "lost"} /\ batch'[c] = 1 /\ token'[c] = NoToken
      BY <1>4, <1>6, <2>1 DEF TypeOK
    <3>2. wrote'[c] = wrote[c] \/ wrote'[c] = wrote[c] \cup set
      BY <2>2 DEF TypeOK
    <3>3. pc'[c] = "refused" => wrote'[c] = wrote[c]
      BY <1>6, <2>1, <2>2 DEF TypeOK
    <3>4. CASE kind[c] # "throttle"
      <4>1. wrote[c] = {} /\ wrote'[c] \in {{}, Given(change[c])}
        BY <1>3, <1>4, <3>2, <3>4
      <4>. QED BY <1>2, <3>1, <3>3, <3>4, <4>1 DEF Progress, Given, Settings
    <3>5. CASE kind[c] = "throttle"
      <4>1. batch[c] \in 1 .. 2 BY DEF TypeOK
      <4>2. Second \in wrote'[c] => batch[c] = 2
        BY <1>3, <1>4, <3>2, <3>5, <4>1, ConstantsAreWellFormed
      <4>3. Second \in wrote'[c] /\ change[c][First] # None => First \in wrote'[c]
        BY <1>4, <3>2, <4>2 DEF Given, Settings
      <4>. QED BY <1>2, <3>1, <3>5, <4>3 DEF Progress
    <3>. QED BY <3>4, <3>5
  <2>5. ASSUME NEW d \in Calls \ {c} PROVE Progress(d)'
    BY <1>2, <1>6, <2>1, <2>2, <2>5, ProgressOfOthers DEF TypeOK
  <2>. QED BY <2>3, <2>4, <2>5
<1>. QED BY <1>5, <1>6

LEMMA ProgressStep ==
  ASSUME InProgress, [Next]_vars
  PROVE  InProgress'
<1>1. CASE family' = family /\ Other
  <2>1. UNCHANGED <<pc, kind, change, origin, batch, prior, token, over, wrote>> BY <1>1 DEF Other
  <2>2. TypeOK'
    <3>1. PICK s \in Settings, v \in Values \cup {None} :
            /\ conf' = [conf EXCEPT ![s] = v]
            /\ dirty' = [d \in Calls |-> IF pc[d] = "idle" THEN {} ELSE dirty[d] \cup {s}]
      BY <1>1 DEF Other
    <3>2. conf' \in Partial /\ dirty' \in [Calls -> SUBSET Settings]
      BY <3>1 DEF InProgress, TypeOK, Partial
    <3>3. others' \in 0 .. MaxOthers
      BY <1>1, ConstantsAreWellFormed DEF Other, InProgress, TypeOK
    <3>. QED BY <1>1, <2>1, <3>2, <3>3 DEF InProgress, TypeOK
  <2>. QED BY <2>1, <2>2, ProgressOfOthers DEF InProgress
<1>2. CASE UNCHANGED vars
  BY <1>2, ProgressOfOthers DEF vars, InProgress, TypeOK
<1>. QED BY <1>1, <1>2, BeginProgress, ReadProgress, WriteProgress DEF Next

\* The types (the tokens included: None or what the call has read).
THEOREM ReversibleTypeCorrect == Spec => []TypeOK
<1>1. InProgress => TypeOK BY DEF InProgress
<1>. QED BY <1>1, ProgressInit, ProgressStep, PTL DEF Spec

\* What a failed call leaves behind, for any number of calls: a throttle a
\* prefix of its requests, a call of one request nothing if it was refused
\* (throttle_recovery's two POSTs, the single requests of the others).
THEOREM FailuresLeavePrefixes == Spec => []FailureLeavesAPrefix
<1>1. InProgress => FailureLeavesAPrefix
  BY DEF InProgress, Progress, FailureLeavesAPrefix
<1>. QED BY <1>1, ProgressInit, ProgressStep, PTL DEF Spec
\* The values a call has read and those its requests replaced agree in every
\* setting that nobody else has set since it began.
Faithful(c) ==
  /\ \A s \in wrote[c] \ dirty[c] : over[c][s] = prior[c][s] \/ prior[c][s] = None
  /\ pc[c] \in {"read", "write"} =>
       \A s \in Settings \ (dirty[c] \cup wrote[c]) : conf[s] = prior[c][s] \/ prior[c][s] = None

\* A replay is of a call that has ended well; it sets what that call has read.
Replays(c, d) ==
  /\ pc[c] # "idle" /\ pc[d] = "ok"
  /\ change[c] = prior[d]
  /\ \A s \in (wrote[c] \cap Given(prior[d])) \ dirty[d] : conf[s] = prior[d][s]

Kept ==
  /\ \A c \in Calls : Faithful(c)
  /\ \A c \in Calls : \A d \in origin[c] : Replays(c, d)

LEMMA KeptInit == Init => Kept
BY DEF Init, Kept, Faithful, NoCall

\* A change of settings by somebody else is noted by every call under way.
LEMMA KeptByOthers ==
  ASSUME InProgress, Kept, NEW set \in SUBSET Settings,
         \A s \in Settings \ set : conf'[s] = conf[s],
         NEW c \in Calls, pc[c] # "idle" => dirty'[c] = dirty[c] \cup set,
         UNCHANGED <<pc[c], prior[c], over[c], wrote[c]>>
  PROVE  Faithful(c)'
<1>1. wrote[c] \subseteq Settings /\ (pc[c] = "idle" => wrote[c] = {})
  BY DEF InProgress, TypeOK, Progress
<1>. QED BY <1>1 DEF Kept, Faithful

\* A call that applies a request replaces what it has read, where nobody has
\* interfered, and puts back what its origin has read, if it replays one.
LEMMA KeptByApply ==
  ASSUME InProgress, Kept, NEW c \in Calls, pc[c] = "write", Apply(c),
         UNCHANGED <<change, origin, prior>>,
         pc'[c] \in {"write", "ok", "lost"}, \A d \in Calls \ {c} : pc'[d] = pc[d]
  PROVE  Kept'
<1> DEFINE set == Given(change[c]) \cap Batch(c)
<1>1. /\ conf' = [s \in Settings |-> IF s \in set THEN change[c][s] ELSE conf[s]]
      /\ over' = [over EXCEPT ![c] = [s \in Settings |-> IF s \in set THEN conf[s] ELSE over[c][s]]]
      /\ wrote' = [wrote EXCEPT ![c] = @ \cup set]
      /\ dirty' = [d \in Calls |->
                     IF d = c \/ d \in origin[c] \/ pc[d] = "idle" THEN dirty[d] ELSE dirty[d] \cup set]
  BY DEF Apply, InProgress, TypeOK
<1>2. set \subseteq Settings /\ wrote[c] \cap set = {}
  <2>1. wrote[c] = IF batch[c] = 1 THEN {} ELSE Given(change[c]) \cap {First}
    BY DEF InProgress, Progress
  <2>2. batch[c] \in 1 .. 2 /\ (batch[c] # 1 => kind[c] = "throttle")
    BY DEF InProgress, TypeOK, Progress
  <2>3. batch[c] = 2 => Batch(c) = {Second}
    BY <2>2, OfBatches DEF InProgress, Batch
  <2>. QED BY <2>1, <2>2, <2>3, ConstantsAreWellFormed DEF Given
<1> HIDE DEF set
<1>3. \A d \in Calls : wrote[d] \subseteq Settings /\ dirty[d] \subseteq Settings /\ origin[d] \subseteq Calls
  BY DEF InProgress, TypeOK
<1>4. ASSUME NEW d \in Calls \ {c} PROVE Faithful(d)'
  <2>1. UNCHANGED <<pc[d], prior[d], over[d], wrote[d]>>
    BY <1>1, <1>4 DEF InProgress, TypeOK
  <2>2. CASE d \in origin[c]
    <3>1. pc[d] = "ok" /\ dirty'[d] = dirty[d]
      BY <1>1, <1>4, <2>2 DEF Kept, Replays
    <3>. QED BY <2>1, <3>1 DEF Kept, Faithful
  <2>3. CASE d \notin origin[c]
    <3>1. pc[d] # "idle" => dirty'[d] = dirty[d] \cup set
      BY <1>1, <1>4, <2>3
    <3>2. \A s \in Settings \ set : conf'[s] = conf[s]
      BY <1>1
    <3>. QED BY <1>2, <1>4, <2>1, <3>1, <3>2, KeptByOthers
  <2>. QED BY <2>2, <2>3
<1>5. Faithful(c)'
  <2>1. /\ wrote'[c] = wrote[c] \cup set /\ dirty'[c] = dirty[c] /\ prior'[c] = prior[c]
        /\ \A s \in Settings : over'[c][s] = IF s \in set THEN conf[s] ELSE over[c][s]
        /\ \A s \in Settings \ set : conf'[s] = conf[s]
    BY <1>1 DEF InProgress, TypeOK
  <2>. QED BY <1>2, <1>3, <2>1 DEF Kept, Faithful
<1>6. ASSUME NEW e \in Calls, NEW d \in origin'[e] PROVE Replays(e, d)'
  <2>1. d \in Calls /\ d \in origin[e] /\ Replays(e, d) /\ d # c
    BY <1>3, <1>6 DEF Kept, Replays
  <2>2. /\ UNCHANGED <<pc[d], prior[d], change[e]>> /\ pc'[e] # "idle"
        /\ dirty[d] \subseteq dirty'[d]
        /\ wrote'[e] = IF e = c THEN wrote[c] \cup set ELSE wrote[e]
    BY <1>1, <2>1 DEF InProgress, TypeOK, Replays
  <2>3. ASSUME NEW s \in (wrote'[e] \cap Given(prior[d])) \ dirty'[d]
        PROVE  conf'[s] = prior[d][s]
    <3>1. s \in Settings /\ conf'[s] = IF s \in set THEN change[c][s] ELSE conf[s]
      BY <1>1, <2>3 DEF Given
    <3>2. CASE s \notin set
      BY <2>1, <2>2, <2>3, <3>1, <3>2 DEF Replays
    <3>3. CASE s \in set
      <4>1. d \in origin[c]
        BY <1>1, <2>1, <2>3, <3>3 DEF Replays
      <4>. QED BY <3>1, <3>3, <4>1 DEF Kept, Replays
    <3>. QED BY <3>2, <3>3
  <2>. QED BY <2>1, <2>2, <2>3 DEF Replays, Given
<1>. QED BY <1>4, <1>5, <1>6 DEF Kept

\* The steps of a call that leave the cluster alone.
LEMMA KeptByRest ==
  ASSUME InProgress, Kept, NEW c \in Calls, conf' = conf, dirty' = dirty, over' = over, wrote' = wrote,
         \A d \in Calls \ {c} : UNCHANGED <<pc[d], prior[d], change[d], origin[d]>>,
         pc[c] # "ok", pc'[c] # "idle", Faithful(c)',
         origin'[c] \subseteq Calls,
         \A d \in origin'[c] : /\ pc[d] = "ok" /\ change'[c] = prior[d]
                               /\ wrote[c] = {} \/ d \in origin[c]
  PROVE  Kept'
<1>0. \A d \in Calls : origin[d] \subseteq Calls
  BY DEF InProgress, TypeOK
<1>1. ASSUME NEW d \in Calls \ {c} PROVE Faithful(d)'
  BY <1>1 DEF Kept, Faithful
<1>2. ASSUME NEW e \in Calls \ {c}, NEW d \in origin'[e] PROVE Replays(e, d)'
  <2>1. d \in Calls \ {c} /\ Replays(e, d)
    BY <1>0, <1>2 DEF Kept, Replays
  <2>. QED BY <1>2, <2>1 DEF Replays, Given
<1>3. ASSUME NEW d \in origin'[c] PROVE Replays(c, d)'
  <2>1. /\ d \in Calls \ {c} /\ pc[d] = "ok" /\ change'[c] = prior[d]
        /\ wrote[c] = {} \/ d \in origin[c]
    BY <1>3
  <2>2. \A s \in (wrote[c] \cap Given(prior[d])) \ dirty[d] : conf[s] = prior[d][s]
    BY <2>1 DEF Kept, Replays
  <2>. QED BY <2>1, <2>2 DEF Replays, Given
<1>. QED BY <1>1, <1>2, <1>3 DEF Kept

LEMMA KeptStep ==
  ASSUME InProgress, Kept, [Next]_vars
  PROVE  Kept'
<1>0. \A d \in Calls : /\ origin[d] \subseteq Calls /\ wrote[d] \subseteq Settings
                       /\ Progress(d)
  BY DEF InProgress, TypeOK
<1>1. CASE Other
  <2>1. UNCHANGED <<pc, change, origin, prior, over, wrote>> BY <1>1 DEF Other
  <2>2. PICK s \in Settings :
          /\ \A t \in Settings \ {s} : conf'[t] = conf[t]
          /\ dirty' = [d \in Calls |-> IF pc[d] = "idle" THEN {} ELSE dirty[d] \cup {s}]
    BY <1>1 DEF Other, InProgress, TypeOK, Partial
  <2>3. ASSUME NEW d \in Calls PROVE Faithful(d)'
    BY <2>1, <2>2, KeptByOthers
  <2>4. ASSUME NEW e \in Calls, NEW d \in origin'[e] PROVE Replays(e, d)'
    <3>1. d \in Calls /\ Replays(e, d)
      BY <1>0, <2>1, <2>4 DEF Kept
    <3>2. dirty'[d] = dirty[d] \cup {s}
      BY <2>2, <3>1 DEF Replays
    <3>. QED BY <2>1, <2>2, <3>1, <3>2 DEF Replays, Given
  <2>. QED BY <2>3, <2>4 DEF Kept
<1>2. ASSUME NEW c \in Calls, NEW k, NEW values, NEW from, Begin(c, k, values, from),
             from \subseteq Calls, \A d \in from : token[d] # NoToken /\ values = token[d]
      PROVE  Kept'
  <2>1. /\ pc[c] = "idle" /\ pc'[c] = "read" /\ change'[c] = values /\ origin'[c] = from
        /\ UNCHANGED <<conf, prior, over, wrote, dirty>>
        /\ \A d \in Calls \ {c} : UNCHANGED <<pc[d], prior[d], change[d], origin[d]>>
    BY <1>2 DEF Begin, InProgress, TypeOK
  <2>2. wrote[c] = {} /\ prior[c] = Nothing
    BY <1>0, <2>1 DEF Progress
  <2>3. Faithful(c)'
    BY <2>1, <2>2 DEF Faithful, Nothing
  <2>4. \A d \in from : pc[d] = "ok" /\ values = prior[d]
    BY <1>0, <1>2 DEF Progress
  <2>. QED BY <1>2, <2>1, <2>2, <2>3, <2>4, KeptByRest
<1>3. ASSUME NEW c \in Calls, Read(c) PROVE Kept'
  <2>1. /\ prior' = [prior EXCEPT ![c] = [s \in Settings |-> IF s \in Batch(c) THEN conf[s] ELSE prior[c][s]]]
        /\ pc[c] = "read" /\ pc'[c] \in {"read", "write"}
        /\ \A d \in Calls \ {c} : pc'[d] = pc[d]
        /\ UNCHANGED <<conf, change, origin, over, wrote, dirty>>
    BY <1>3 DEF Read, Capture, Advance, InProgress, TypeOK
  <2>2. wrote[c] = {}
    BY <1>0, <2>1 DEF Progress
  <2>3. Faithful(c)'
    BY <2>1, <2>2 DEF Kept, Faithful, InProgress, TypeOK
  <2>4. \A d \in origin[c] : pc[d] = "ok" /\ change[c] = prior[d] /\ prior'[d] = prior[d]
    BY <1>0, <2>1 DEF Kept, Replays, InProgress, TypeOK
  <2>5. \A d \in Calls \ {c} : prior'[d] = prior[d]
    BY <2>1 DEF InProgress, TypeOK
  <2>. QED BY <1>0, <2>1, <2>2, <2>3, <2>4, <2>5, KeptByRest
<1>4. ASSUME NEW c \in Calls, ReadFails(c) \/ WriteRefused(c) \/ WriteLost(c),
             UNCHANGED <<conf, over, wrote, dirty>>
      PROVE  Kept'
  <2>1. /\ pc[c] \in {"read", "write"} /\ pc'[c] \in {"read", "write", "refused", "lost"}
        /\ pc[c] = "read" \/ pc'[c] \in {"refused", "lost"}
        /\ \A d \in Calls \ {c} : pc'[d] = pc[d]
        /\ UNCHANGED <<change, origin, prior>>
    BY <1>4 DEF ReadFails, WriteRefused, WriteLost, Sends, Fail, Advance, InProgress, TypeOK
  <2>2. Faithful(c)'
    BY <1>4, <2>1 DEF Kept, Faithful
  <2>3. \A d \in origin[c] : pc[d] = "ok" /\ change[c] = prior[d]
    BY DEF Kept, Replays
  <2>. QED BY <1>0, <1>4, <2>1, <2>2, <2>3, KeptByRest
<1>5. ASSUME NEW c \in Calls, Write(c) \/ WriteLost(c), Apply(c) PROVE Kept'
  <2>1. /\ pc[c] = "write" /\ pc'[c] \in {"write", "ok", "lost"}
        /\ \A d \in Calls \ {c} : pc'[d] = pc[d]
        /\ UNCHANGED <<change, origin, prior>>
    BY <1>5 DEF Write, WriteLost, Sends, Fail, Advance, InProgress, TypeOK
  <2>. QED BY <1>5, <2>1, KeptByApply
<1>6. CASE UNCHANGED vars
  BY <1>6 DEF vars, Kept, Faithful, Replays, Given
<1>7. ASSUME NEW c \in Calls, Start(c) PROVE Kept'
  BY <1>2, <1>7 DEF Start, NoCall
<1>8. ASSUME NEW c \in Calls, Replay(c) PROVE Kept'
  BY <1>2, <1>8 DEF Replay
<1>. QED BY <1>1, <1>3, <1>4, <1>5, <1>6, <1>7, <1>8 DEF Next, Write, WriteRefused, WriteLost, ReadFails

Inductive == InProgress /\ Kept

LEMMA AlwaysKept == Spec => []Inductive
<1>1. Init => Inductive BY ProgressInit, KeptInit DEF Inductive
<1>2. Inductive /\ [Next]_vars => Inductive' BY ProgressStep, KeptStep DEF Inductive
<1>. QED BY <1>1, <1>2, PTL DEF Spec

\* A token holds what its call's requests replaced in every setting that nobody
\* else has set since the call began, for any calls that overlap
\* (capturing the priorState ahead of the write).
THEOREM TokensArePreStates == Spec => []UndisturbedTokenIsPreState
<1>1. Inductive => UndisturbedTokenIsPreState
  BY DEF Inductive, InProgress, Progress, Kept, Faithful, UndisturbedTokenIsPreState
<1>. QED BY <1>1, AlwaysKept, PTL

\* A replay that succeeded has put back what the original call found, where it
\* could read it and nobody else has interfered since (undo_apply of the
\* inverse descriptors of ops/osd.py, clusterops.py and pool.py).
THEOREM InversesRestore == Spec => []InverseRestores
<1>1. ASSUME Inductive, NEW c \in Calls, NEW d \in origin[c], pc[c] = "ok",
             NEW s \in Given(prior[d]) \ dirty[d]
      PROVE  conf[s] = IF s \in wrote[d] THEN over[d][s] ELSE prior[d][s]
  <2>1. d \in Calls /\ Replays(c, d) /\ Faithful(d)
    BY <1>1 DEF Inductive, InProgress, TypeOK, Kept
  <2>2. wrote[c] = Given(prior[d]) /\ prior[d][s] # None
    <3>1. Progress(c) BY <1>1 DEF Inductive, InProgress
    <3>2. change[c] = prior[d] BY <2>1 DEF Replays
    <3>3. wrote[c] = Given(change[c]) BY <1>1, <3>1 DEF Progress
    <3>. QED BY <1>1, <3>2, <3>3 DEF Given
  <2>. QED BY <1>1, <2>1, <2>2 DEF Replays, Faithful
<1>2. Inductive => InverseRestores
  BY <1>1 DEF InverseRestores
<1>. QED BY <1>2, AlwaysKept, PTL
=============================================================================
