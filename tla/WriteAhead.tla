----------------------------- MODULE WriteAhead -----------------------------
(***************************************************************************)
(* What the governed write path promises, without processes, files or      *)
(* locks: SECURITY.md's "Real writes first commit a pending audit intent". *)
(* A write is sent only while its intent is pending, an intent is closed   *)
(* once and for all, and the cluster changes only for a write that was     *)
(* sent (possibly after its intent was closed: the request may outlive     *)
(* its sender).                                                            *)
(***************************************************************************)
CONSTANT Calls

VARIABLES
  entry,    \* entry[c]: no intent yet, a pending one, or a closed one
  sent,     \* writes whose request was handed to the network
  changed   \* writes the cluster applied

ledger == <<entry, sent, changed>>

Init ==
  /\ entry = [c \in Calls |-> "none"]
  /\ sent = {}
  /\ changed = {}

Intend(c) ==
  /\ entry[c] = "none"
  /\ entry' = [entry EXCEPT ![c] = "pending"]
  /\ UNCHANGED <<sent, changed>>

Send(c) ==
  /\ entry[c] = "pending"
  /\ c \notin sent
  /\ sent' = sent \cup {c}
  /\ UNCHANGED <<entry, changed>>

Change(c) ==
  /\ c \in sent \ changed
  /\ changed' = changed \cup {c}
  /\ UNCHANGED <<entry, sent>>

Close(c) ==
  /\ entry[c] = "pending"
  /\ entry' = [entry EXCEPT ![c] = "closed"]
  /\ UNCHANGED <<sent, changed>>

Next == \E c \in Calls : Intend(c) \/ Send(c) \/ Change(c) \/ Close(c)

Spec == Init /\ [][Next]_ledger
=============================================================================
