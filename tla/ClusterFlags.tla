----------------------------- MODULE ClusterFlags -----------------------------
(***************************************************************************)
(* cluster_flag_set and its inverse (ops/osd.py, mcp_server/tools/osd.py). *)
(* The Dashboard only takes the whole set of flags: a call reads the set,  *)
(* adds or removes its flag and writes the set back.  Everybody else sets  *)
(* and clears single flags.  The inverse toggles the flag the other way.   *)
(***************************************************************************)
EXTENDS Naturals, FiniteSets

CONSTANTS
  Flags,     \* noout, noscrub, ...
  Calls,     \* calls of cluster_flag_set and replays, each made once
  MaxOthers  \* bound on the flags that others set or clear

ASSUME MaxOthersIsNat == MaxOthers \in Nat

VARIABLES
  flags,   \* the cluster's flags
  pc,      \* pc[c]: "idle", "read", "write", or what became of it
  flag,    \* flag[c]: the flag it is about, as a set
  enable,  \* enable[c]: set or clear
  seen,    \* seen[c]: the flags it has read
  blank,   \* calls whose read was answered without any flags (history)
  origin,  \* origin[c]: the call whose token it replays, as a set
  token,   \* calls that have recorded an inverse
  moved,   \* moved[c]: the flags others have set or cleared since c read them,
           \* or, when c has ended, since it wrote them (history)
  found,   \* found[c]: whether its write met its flag set (history)
  others   \* how often others have set or cleared a flag

vars == <<flags, pc, flag, enable, seen, blank, origin, token, moved, found, others>>

Stages == {"idle", "read", "write", "ok", "refused", "lost"}

TypeOK ==
  /\ flags \subseteq Flags
  /\ pc \in [Calls -> Stages]
  /\ flag \in [Calls -> SUBSET Flags]
  /\ enable \in [Calls -> BOOLEAN]
  /\ seen \in [Calls -> SUBSET Flags]
  /\ blank \subseteq Calls
  /\ origin \in [Calls -> SUBSET Calls]
  /\ token \subseteq Calls
  /\ moved \in [Calls -> SUBSET Flags]
  /\ found \in [Calls -> BOOLEAN]
  /\ others \in 0 .. MaxOthers

Init ==
  /\ flags \in SUBSET Flags
  /\ pc = [c \in Calls |-> "idle"]
  /\ flag = [c \in Calls |-> {}]
  /\ enable = [c \in Calls |-> FALSE]
  /\ seen = [c \in Calls |-> {}]
  /\ blank = {}
  /\ origin = [c \in Calls |-> {}]
  /\ token = {}
  /\ moved = [c \in Calls |-> {}]
  /\ found = [c \in Calls |-> FALSE]
  /\ others = 0

Goto(c, stage) == pc' = [pc EXCEPT ![c] = stage]

-----------------------------------------------------------------------------
Begin(c, f, on, from) ==
  /\ pc[c] = "idle"
  /\ Goto(c, "read")
  /\ flag' = [flag EXCEPT ![c] = f]
  /\ enable' = [enable EXCEPT ![c] = on]
  /\ origin' = [origin EXCEPT ![c] = from]
  /\ UNCHANGED <<flags, seen, blank, token, moved, found, others>>

Start(c) == \E f \in Flags, on \in BOOLEAN : Begin(c, {f}, on, {})

\* Seeded fault: the inverse repeats the call.
ReplayAgain(c) ==
  \E d \in token :
    /\ \A e \in Calls : d \notin origin[e]
    /\ Begin(c, flag[d], enable[d], {d})

\* undo_apply of a token: the same flag, the other way.
Replay(c) ==
  \E d \in token :
    /\ \A e \in Calls : d \notin origin[e]
    /\ Begin(c, flag[d], ~enable[d], {d})

Read(c) ==
  /\ pc[c] = "read"
  /\ seen' = [seen EXCEPT ![c] = flags]
  /\ blank' = blank \ {c}
  /\ moved' = [moved EXCEPT ![c] = {}]
  /\ Goto(c, "write")
  /\ UNCHANGED <<flags, flag, enable, origin, token, found, others>>

\* A 2xx answer without a body, or with one that is no JSON object, is {} by
\* the time as_obj(...).get("flags") looks at it: the call sees no flags.
ReadBlank(c) ==
  /\ pc[c] = "read"
  /\ seen' = [seen EXCEPT ![c] = {}]
  /\ blank' = blank \cup {c}
  /\ moved' = [moved EXCEPT ![c] = {}]
  /\ Goto(c, "write")
  /\ UNCHANGED <<flags, flag, enable, origin, token, found, others>>

ReadFails(c) ==
  /\ pc[c] = "read"
  /\ Goto(c, "refused")
  /\ UNCHANGED <<flags, flag, enable, seen, blank, origin, token, moved, found, others>>

\* Seeded fault: the set that is written back is only the one flag.
WantedAlone(c) == IF enable[c] THEN flag[c] ELSE {}

\* The set a call writes back.
Wanted(c) == IF enable[c] THEN seen[c] \cup flag[c] ELSE seen[c] \ flag[c]

\* The cluster takes the whole set.
Put(c) ==
  LET changed == (flags \ Wanted(c)) \cup (Wanted(c) \ flags) IN
  /\ flags' = Wanted(c)
  /\ found' = [found EXCEPT ![c] = flag[c] \subseteq flags]
  /\ moved' = [d \in Calls |-> CASE d = c -> {}
                                 [] d \in origin[c] -> moved[d]
                                 [] OTHER -> moved[d] \cup changed]

\* Seeded fault: the inverse is filed under the flag.
RecordFlag(c) == token' = token \/ token' = token \cup {flag[c]}

\* The inverse is recorded whatever the flag was, as well as can be.
RecordInverse(c) == token' = token \/ token' = token \cup {c}

Write(c) ==
  /\ pc[c] = "write"
  /\ Put(c)
  /\ RecordInverse(c)
  /\ Goto(c, "ok")
  /\ UNCHANGED <<flag, enable, seen, blank, origin, others>>

WriteRefused(c) ==
  /\ pc[c] = "write"
  /\ Goto(c, "refused")
  /\ UNCHANGED <<flags, flag, enable, seen, blank, origin, token, moved, found, others>>

WriteLost(c) ==
  /\ pc[c] = "write"
  /\ \/ Put(c)
     \/ UNCHANGED <<flags, moved, found>>
  /\ Goto(c, "lost")
  /\ UNCHANGED <<flag, enable, seen, blank, origin, token, others>>

\* `ceph osd set` or `unset` of one flag by somebody else.
Other ==
  /\ others < MaxOthers
  /\ others' = others + 1
  /\ \E f \in Flags :
        /\ flags' = IF f \in flags THEN flags \ {f} ELSE flags \cup {f}
        /\ moved' = [c \in Calls |-> moved[c] \cup {f}]
  /\ UNCHANGED <<pc, flag, enable, seen, blank, origin, token, found>>

Next ==
  \/ Other
  \/ \E c \in Calls :
       \/ Start(c) \/ Replay(c)
       \/ Read(c) \/ ReadBlank(c) \/ ReadFails(c)
       \/ Write(c) \/ WriteRefused(c) \/ WriteLost(c)

Spec == Init /\ [][Next]_vars

-----------------------------------------------------------------------------
Difference(a, b) == (a \ b) \cup (b \ a)
Writes(c) == pc[c] = "write" /\ pc'[c] \in {"ok", "lost"}

\* The other flags a call may get wrong: those set or cleared since it read
\* them, or all that are set if its read was answered without flags.
AtRisk(c) == moved[c] \cup (IF c \in blank THEN flags ELSE {})

\* A write changes another flag than its own only if somebody set or cleared
\* that flag after the call's read, or clears it because the answer to that
\* read had no flags in it: lost updates need an overlap or such an answer, and
\* reach no further.
LossNeedsAnOverlap ==
  [][\A c \in Calls : Writes(c) => Difference(flags, flags') \ flag[c] \subseteq AtRisk(c)]_vars

\* A replay that succeeded puts the flag back to what the original call found,
\* provided that the call had changed it and nobody has touched it since.
RealChangeIsUndone ==
  \A c \in Calls : \A d \in origin[c] :
    pc[c] = "ok" /\ found[d] # enable[d] /\ flag[d] \cap moved[d] = {}
      => (flag[d] \subseteq flags) = found[d]
=============================================================================
