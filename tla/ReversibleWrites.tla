--------------------------- MODULE ReversibleWrites ---------------------------
(***************************************************************************)
(* The writes that record an inverse: osd_reweight, osd_mark_in,           *)
(* set_pool_pg_num, set_pool_autoscale, set_pool_quota, throttle_recovery. *)
(* Each reads what it is about to overwrite, sends one request per batch   *)
(* of settings, and leaves a token that holds what it read.  Calls overlap *)
(* with each other, with the replays of tokens and with everybody else who *)
(* administers the cluster.                                                *)
(*                                                                         *)
(* The settings are the two that one call can change (the two quotas of a  *)
(* pool, the two recovery limits); a call for one setting changes either.  *)
(* None is Python's None: a value the cluster does not report, a parameter *)
(* that is left alone.                                                     *)
(***************************************************************************)
EXTENDS Integers, Sequences, FiniteSets

CONSTANTS
  First, Second,  \* the settings, in the order throttle_recovery writes them
  Values,         \* what a setting can be set to
  None,           \* not reported, not given
  Out,            \* the value of `in` for an OSD that is out
  Calls,          \* calls and replays, each made once
  Families,       \* the sets of tools that may be called together
  MaxOthers       \* bound on the settings that others change

Settings == {First, Second}
AllKinds == {"single", "mark_in", "mark_out", "quota", "throttle"}

ASSUME ConstantsAreWellFormed ==
  /\ First # Second
  /\ None \notin Values
  /\ Families \subseteq SUBSET AllKinds
  /\ (\E family \in Families : "mark_in" \in family) => Out \in Values
  /\ MaxOthers \in Nat

Partial == [Settings -> Values \cup {None}]
Nothing == [s \in Settings |-> None]
NoToken == <<>>
NoCall == {}

VARIABLES
  family,   \* the tools that are called in this behaviour
  conf,     \* conf[s]: the cluster's value of s, None while it has its default
  pc,       \* pc[c]: "idle", "read", "write", or what became of it
  kind,     \* kind[c]: its tool
  change,   \* change[c]: the values it was asked to set
  origin,   \* origin[c]: the call whose token it replays, as a set
  batch,    \* batch[c]: the number of the request it makes next
  prior,    \* prior[c]: the priorState it has read
  token,    \* token[c]: the parameters of the inverse it recorded
  over,     \* over[c]: the values its requests replaced (history)
  wrote,    \* wrote[c]: the settings its requests have set (history)
  dirty,    \* dirty[c]: the settings that somebody else set since (history)
  others    \* how often others have changed a setting

vars == <<family, conf, pc, kind, change, origin, batch, prior, token, over, wrote,
          dirty, others>>

TypeOK ==
  /\ family \in Families
  /\ conf \in Partial
  /\ pc \in [Calls -> {"idle", "read", "write", "ok", "refused", "lost"}]
  /\ kind \in [Calls -> AllKinds]
  /\ change \in [Calls -> Partial]
  /\ origin \in [Calls -> SUBSET Calls]
  /\ batch \in [Calls -> 1 .. 2]
  /\ prior \in [Calls -> Partial]
  /\ token \in [Calls -> Partial \cup {NoToken}]
  /\ over \in [Calls -> Partial]
  /\ wrote \in [Calls -> SUBSET Settings]
  /\ dirty \in [Calls -> SUBSET Settings]
  /\ others \in 0 .. MaxOthers

Init ==
  /\ family \in Families
  /\ conf \in Partial
  /\ pc = [c \in Calls |-> "idle"]
  /\ kind = [c \in Calls |-> "single"]
  /\ change = [c \in Calls |-> Nothing]
  /\ origin = [c \in Calls |-> NoCall]
  /\ batch = [c \in Calls |-> 1]
  /\ prior = [c \in Calls |-> Nothing]
  /\ token = [c \in Calls |-> NoToken]
  /\ over = [c \in Calls |-> Nothing]
  /\ wrote = [c \in Calls |-> {}]
  /\ dirty = [c \in Calls |-> {}]
  /\ others = 0

Given(values) == {s \in Settings : values[s] # None}

-----------------------------------------------------------------------------
\* Seeded fault: the two POSTs of a throttle in the other order.
BatchesSwapped(c) ==
  CASE kind[c] = "throttle" -> <<{Second}, {First}>>
    [] kind[c] = "quota" -> <<Settings>>
    [] OTHER -> <<Given(change[c])>>

\* The settings each request of a call is about: a quota is read and written
\* whole, the recovery limits one by one, everything else is one setting.
Batches(c) ==
  CASE kind[c] = "throttle" -> <<{First}, {Second}>>
    [] kind[c] = "quota" -> <<Settings>>
    [] OTHER -> <<Given(change[c])>>

Batch(c) == Batches(c)[batch[c]]

\* What each tool accepts.
Accepts(k, values) ==
  CASE k \in {"quota", "throttle"} -> TRUE
    [] k = "single" -> Cardinality(Given(values)) = 1
    [] k = "mark_in" -> \E s \in Settings, v \in Values \ {Out} :
                          values = [Nothing EXCEPT ![s] = v]
    [] k = "mark_out" -> \E s \in Settings : values = [Nothing EXCEPT ![s] = Out]

Begin(c, k, values, from) ==
  /\ pc[c] = "idle"
  /\ pc' = [pc EXCEPT ![c] = "read"]
  /\ kind' = [kind EXCEPT ![c] = k]
  /\ change' = [change EXCEPT ![c] = values]
  /\ origin' = [origin EXCEPT ![c] = from]
  /\ UNCHANGED <<conf, batch, prior, token, over, wrote, dirty, others>>

Start(c) ==
  \E k \in family, values \in Partial :
    Accepts(k, values) /\ Begin(c, k, values, NoCall)

\* undo_apply: the inverse is the same tool with the values of the token,
\* except that an OSD is marked out by another one.
Replay(c) ==
  \E d \in Calls :
    /\ token[d] # NoToken
    /\ \A e \in Calls : origin[e] # {d}
    /\ Begin(c, IF kind[d] = "mark_in" THEN "mark_out" ELSE kind[d], token[d], {d})

\* A call leaves its loop over the batches, or goes on to the next.
Advance(c, after) ==
  IF batch[c] < Len(Batches(c))
    THEN batch' = [batch EXCEPT ![c] = @ + 1] /\ UNCHANGED pc
    ELSE batch' = [batch EXCEPT ![c] = 1] /\ pc' = [pc EXCEPT ![c] = after]

\* Seeded faults: a read forgets what an earlier one found; the two captured
\* values change places.
CaptureOnly(c) == prior' = [prior EXCEPT ![c] = [s \in Batch(c) |-> conf[s]]]
CaptureSwapped(c) ==
  prior' = [prior EXCEPT ![c] = [s \in Settings |-> IF s = First THEN conf[Second] ELSE conf[First]]]

Capture(c) ==
  prior' = [prior EXCEPT ![c] = [s \in Settings |-> IF s \in Batch(c) THEN conf[s] ELSE @[s]]]

Read(c) ==
  /\ pc[c] = "read"
  /\ Capture(c)
  /\ Advance(c, "write")
  /\ UNCHANGED <<conf, kind, change, origin, token, over, wrote, dirty, others>>

\* A GET that fails ends the call, except that the recovery limits are read as
\* well as can be: one that cannot be read counts as not reported.  So does all
\* that a 2xx answer without a usable body leaves out, which request and as_obj
\* turn into {}; only an OSD has to be in the answer.
ReadFails(c) ==
  /\ pc[c] = "read"
  /\ \/ kind[c] # "throttle" /\ pc' = [pc EXCEPT ![c] = "refused"] /\ UNCHANGED batch
     \/ kind[c] \in {"single", "quota", "throttle"} /\ Advance(c, "write")
  /\ UNCHANGED <<conf, kind, change, origin, prior, token, over, wrote, dirty, others>>

\* A value was reported that the inverse can put back.
Restorable(c) == Given(prior[c]) # {}

\* The OSD was out before it was marked in.
WasOut(c) == \E s \in Settings : prior[c][s] = Out

\* Seeded fault: the inverse is built from the request.
InverseOfChange(c) == IF Restorable(c) THEN change[c] ELSE NoToken

\* The inverse a finished call records: what it read.  A quota has one always;
\* an OSD that was in already, and a setting without a known value, have none.
Inverse(c) ==
  IF \/ kind[c] = "quota"
     \/ kind[c] = "mark_in" /\ WasOut(c)
     \/ kind[c] \in {"single", "throttle"} /\ Restorable(c)
    THEN prior[c]
    ELSE NoToken

\* The cluster sets the batch; everybody else's inverse now meets another value.
Apply(c) ==
  LET set == Given(change[c]) \cap Batch(c) IN
  /\ conf' = [s \in Settings |-> IF s \in set THEN change[c][s] ELSE conf[s]]
  /\ over' = [over EXCEPT ![c] = [s \in Settings |-> IF s \in set THEN conf[s] ELSE @[s]]]
  /\ wrote' = [wrote EXCEPT ![c] = @ \cup set]
  /\ dirty' = [d \in Calls |->
                 IF d = c \/ d \in origin[c] \/ pc[d] = "idle" THEN dirty[d] ELSE dirty[d] \cup set]

\* The token is recorded as well as can be: UndoStore.record may fail.
Finish(c) == \E t \in {Inverse(c), NoToken} : token' = [token EXCEPT ![c] = t]

\* One request per batch, confirmed; a throttle skips what it was not given.
Write(c) ==
  /\ pc[c] = "write"
  /\ Apply(c)
  /\ Advance(c, "ok")
  /\ IF batch[c] = Len(Batches(c)) THEN Finish(c) ELSE UNCHANGED token
  /\ UNCHANGED <<kind, change, origin, prior, others>>

Sends(c) == pc[c] = "write" /\ (kind[c] = "throttle" => Given(change[c]) \cap Batch(c) # {})

Fail(c, how) ==
  /\ pc' = [pc EXCEPT ![c] = how]
  /\ batch' = [batch EXCEPT ![c] = 1]
  /\ UNCHANGED <<kind, change, origin, prior, token, others>>

WriteRefused(c) ==
  /\ Sends(c)
  /\ Fail(c, "refused")
  /\ UNCHANGED <<conf, over, wrote, dirty>>

\* No response: the batch is set or not.
WriteLost(c) ==
  /\ Sends(c)
  /\ Fail(c, "lost")
  /\ \/ Apply(c)
     \/ UNCHANGED <<conf, over, wrote, dirty>>

\* The cluster's own tools, or another administrator's.
Other ==
  /\ others < MaxOthers
  /\ others' = others + 1
  /\ \E s \in Settings, v \in Values \cup {None} :
        /\ conf' = [conf EXCEPT ![s] = v]
        /\ dirty' = [d \in Calls |-> IF pc[d] = "idle" THEN {} ELSE dirty[d] \cup {s}]
  /\ UNCHANGED <<pc, kind, change, origin, batch, prior, token, over, wrote>>

Next ==
  /\ UNCHANGED family
  /\ \/ Other
     \/ \E c \in Calls :
          \/ Start(c) \/ Replay(c)
          \/ Read(c) \/ ReadFails(c)
          \/ Write(c) \/ WriteRefused(c) \/ WriteLost(c)

Spec == Init /\ [][Next]_vars

-----------------------------------------------------------------------------
\* A replay that succeeded has put back what the original call found, in every
\* setting that the call could read and that nobody else has set since, whether
\* the call changed it or not: the inverse of an inverse included.
InverseRestores ==
  \A c \in Calls : \A d \in origin[c] :
    pc[c] = "ok" =>
      \A s \in Given(prior[d]) \ dirty[d] :
        conf[s] = IF s \in wrote[d] THEN over[d][s] ELSE prior[d][s]

\* A throttle that stops half way has not set the second limit without the
\* first, and a call of one request that is refused has set nothing: what the
\* caller is told about a failure bounds what it has to repair.
FailureLeavesAPrefix ==
  \A c \in Calls :
    /\ Second \in wrote[c] /\ change[c][First] # None => First \in wrote[c]
    /\ pc[c] = "ok" => wrote[c] = Given(change[c])
    /\ pc[c] = "refused" /\ kind[c] # "throttle" => wrote[c] = {}

\* While nobody interferes, a token is exactly the values that the call's
\* requests replaced, so it can be trusted as the state before the write.
UndisturbedTokenIsPreState ==
  \A c \in Calls :
    token[c] # NoToken =>
      \A s \in wrote[c] \ dirty[c] : over[c][s] = token[c][s] \/ prior[c][s] = None
=============================================================================
