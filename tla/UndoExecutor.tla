---------------------------- MODULE UndoExecutor ----------------------------
(***************************************************************************)
(* undo_apply of mcp_server/tools/undo.py over the store of                *)
(* governance/undo.py: requests of several processes replay the inverses   *)
(* recorded in undo.db.  The look at a token's status, the inverse call    *)
(* and the mark are separate steps; nothing claims a token in between.     *)
(*                                                                         *)
(* The inverse is a governed call of its own (GovernedCall); only what     *)
(* undo_apply learns of it is kept: whether its request landed and whether *)
(* it came back as a result, as an error payload or as an exception.       *)
(***************************************************************************)
EXTENDS Naturals, FiniteSets

CONSTANTS
  Tokens,     \* undo ids (uuid4, so never reused)
  Requests,   \* invocations of undo_apply, each made once
  NoToken     \* no undo id

ASSUME NoTokenIsNone == NoToken \notin Tokens

VARIABLES
  token,     \* token[t]: the status column of its row, "none" without a row
  pc,        \* pc[r]: where request r stands
  tok,       \* tok[r]: its undo_id
  dry,       \* dry[r]: its dry_run
  inflight,  \* requests whose inverse is on its way to the cluster
  landed,    \* requests whose inverse the cluster has applied
  redo,      \* redo[r]: the token the inverse, itself a write, recorded
  reply,     \* what the caller of r got
  late       \* requests that began after their token was marked (history)

vars == <<token, pc, tok, dry, inflight, landed, redo, reply, late>>

Active == {"lookup", "dispatch", "sent", "returned"}
Replies == {"none", "applied", "not_applied", "preview", "error"}

TypeOK ==
  /\ token \in [Tokens -> {"none", "recorded", "applied"}]
  /\ pc \in [Requests -> Active \cup {"idle", "done", "crashed"}]
  /\ tok \in [Requests -> Tokens \cup {NoToken}]
  /\ dry \in [Requests -> BOOLEAN]
  /\ inflight \subseteq Requests
  /\ landed \subseteq Requests
  /\ redo \in [Requests -> Tokens \cup {NoToken}]
  /\ reply \in [Requests -> Replies]
  /\ late \subseteq Requests

Init ==
  /\ token = [t \in Tokens |-> "none"]
  /\ pc = [r \in Requests |-> "idle"]
  /\ tok = [r \in Requests |-> NoToken]
  /\ dry = [r \in Requests |-> FALSE]
  /\ inflight = {}
  /\ landed = {}
  /\ redo = [r \in Requests |-> NoToken]
  /\ reply = [r \in Requests |-> "none"]
  /\ late = {}

Goto(r, label) == pc' = [pc EXCEPT ![r] = label]

Answer(r, what) ==
  /\ Goto(r, "done")
  /\ reply' = [reply EXCEPT ![r] = what]

-----------------------------------------------------------------------------
\* UndoStore.record, for a governed write that succeeded.
Record(t) ==
  /\ token[t] = "none"
  /\ token' = [token EXCEPT ![t] = "recorded"]
  /\ UNCHANGED <<pc, tok, dry, inflight, landed, redo, reply, late>>

Start(r) ==
  /\ pc[r] = "idle"
  /\ \E t \in Tokens, preview \in BOOLEAN :
        /\ tok' = [tok EXCEPT ![r] = t]
        /\ dry' = [dry EXCEPT ![r] = preview]
        /\ late' = IF token[t] = "applied" THEN late \cup {r} ELSE late
  /\ Goto(r, "lookup")
  /\ UNCHANGED <<token, inflight, landed, redo, reply>>

\* Seeded faults: the status of the token is not looked at; a preview is
\* dispatched like the real thing.
LookupUnchecked(r) ==
  /\ pc[r] = "lookup" /\ token[tok[r]] # "none"
  /\ IF dry[r] THEN Answer(r, "preview") ELSE Goto(r, "dispatch") /\ UNCHANGED reply
  /\ UNCHANGED <<token, tok, dry, inflight, landed, redo, late>>
LookupIgnoringDryRun(r) ==
  /\ pc[r] = "lookup" /\ token[tok[r]] = "recorded"
  /\ Goto(r, "dispatch")
  /\ UNCHANGED <<token, tok, dry, inflight, landed, redo, reply, late>>

\* store.get and the test of the status it returned.
Lookup(r) ==
  /\ pc[r] = "lookup" /\ token[tok[r]] = "recorded"
  /\ IF dry[r] THEN Answer(r, "preview") ELSE Goto(r, "dispatch") /\ UNCHANGED reply
  /\ UNCHANGED <<token, tok, dry, inflight, landed, redo, late>>

\* No such token, one that is not "recorded", unreadable parameters, an
\* inverse tool that is not registered: a ValueError that tool_errors reports.
LookupRefuses(r) ==
  /\ pc[r] = "lookup"
  /\ Answer(r, "error")
  /\ UNCHANGED <<token, tok, dry, inflight, landed, redo, late>>

\* The inverse's own governed call stops it before it is sent: by an exception
\* (budget, audit storage) or by an error payload (guards, login).
InverseStopped(r) ==
  /\ pc[r] = "dispatch"
  /\ \E what \in {"error", "not_applied"} : Answer(r, what)
  /\ UNCHANGED <<token, tok, dry, inflight, landed, redo, late>>

Dispatch(r) ==
  /\ pc[r] = "dispatch"
  /\ inflight' = inflight \cup {r}
  /\ Goto(r, "sent")
  /\ UNCHANGED <<token, tok, dry, landed, redo, reply, late>>

\* The cluster applies the inverse, whatever became of its sender.
Land(r) ==
  /\ r \in inflight
  /\ inflight' = inflight \ {r}
  /\ landed' = landed \cup {r}
  /\ UNCHANGED <<token, pc, tok, dry, redo, reply, late>>

\* Seeded fault: a token for the inverse before its response is in.
InverseConfirmedEarly(r) ==
  /\ pc[r] = "sent"
  /\ \E t \in Tokens :
        /\ token[t] = "none"
        /\ token' = [token EXCEPT ![t] = "recorded"]
        /\ redo' = [redo EXCEPT ![r] = t]
  /\ Goto(r, "returned")
  /\ UNCHANGED <<tok, dry, inflight, landed, reply, late>>

\* The inverse returned its result; being a write with an inverse, it may have
\* recorded a token of its own.
InverseConfirmed(r) ==
  /\ pc[r] = "sent" /\ r \in landed
  /\ \/ UNCHANGED <<token, redo>>
     \/ \E t \in Tokens :
           /\ token[t] = "none"
           /\ token' = [token EXCEPT ![t] = "recorded"]
           /\ redo' = [redo EXCEPT ![r] = t]
  /\ Goto(r, "returned")
  /\ UNCHANGED <<tok, dry, inflight, landed, reply, late>>

InverseRejected(r) ==
  /\ pc[r] = "sent" /\ r \in inflight
  /\ inflight' = inflight \ {r}
  /\ Answer(r, "not_applied")
  /\ UNCHANGED <<token, tok, dry, landed, redo, late>>

\* Seeded fault: an error payload of the inverse counts as success.
InverseLostUnseen(r) ==
  /\ pc[r] = "sent"
  /\ Goto(r, "returned")
  /\ UNCHANGED <<token, tok, dry, inflight, landed, redo, reply, late>>

\* The response is lost: an error payload, though the inverse may have landed
\* or may still land.  The token stays "recorded".
InverseLost(r) ==
  /\ pc[r] = "sent"
  /\ Answer(r, "not_applied")
  /\ UNCHANGED <<token, tok, dry, inflight, landed, redo, late>>

\* store.mark: an UPDATE by undo_id, without a look at the current status.
Mark(r) ==
  /\ pc[r] = "returned"
  /\ token' = [token EXCEPT ![tok[r]] = "applied"]
  /\ Answer(r, "applied")
  /\ UNCHANGED <<tok, dry, inflight, landed, redo, late>>

\* Seeded fault: a mark that failed is not noticed.
MarkFailsUnnoticed(r) ==
  /\ pc[r] = "returned"
  /\ Answer(r, "applied")
  /\ UNCHANGED <<token, tok, dry, inflight, landed, redo, late>>

\* The inverse's finish_write or the UPDATE itself raises after the inverse
\* landed: an error for the caller, and a token that stays "recorded".
MarkFails(r) ==
  /\ pc[r] = "returned"
  /\ Answer(r, "error")
  /\ UNCHANGED <<token, tok, dry, inflight, landed, redo, late>>

Crash(r) ==
  /\ pc[r] \in Active
  /\ Goto(r, "crashed")
  /\ UNCHANGED <<token, tok, dry, inflight, landed, redo, reply, late>>

RequestStep(r) ==
  \/ Lookup(r) \/ LookupRefuses(r) \/ InverseStopped(r) \/ Dispatch(r)
  \/ InverseConfirmed(r) \/ InverseRejected(r) \/ InverseLost(r) \/ Mark(r) \/ MarkFails(r)

Next ==
  \/ \E t \in Tokens : Record(t)
  \/ \E r \in Requests : Start(r) \/ RequestStep(r) \/ Land(r) \/ Crash(r)

Spec == Init /\ [][Next]_vars

-----------------------------------------------------------------------------
(* Properties.                                                             *)

\* A token is marked applied only when an inverse of it has really landed.
MarkedMeansLanded ==
  \A t \in Tokens : token[t] = "applied" => \E r \in landed : tok[r] = t

\* "applied: true" is never said of an inverse that did not land, or whose
\* token could be replayed by a later request.
AppliedReplyIsTrue ==
  \A r \in Requests : reply[r] = "applied" => r \in landed /\ token[tok[r]] = "applied"

\* A request that begins after the token was marked changes nothing.
LateRequestsAreRefused ==
  \A r \in late : r \notin inflight \cup landed /\ reply[r] \in {"none", "error"}

\* A preview changes nothing, whatever runs beside it.
PreviewChangesNothing ==
  \A r \in Requests : dry[r] => r \notin inflight \cup landed /\ redo[r] = NoToken

\* A token recorded for an inverse reverses a change that was made.
RedoMeansLanded == \A r \in Requests : redo[r] # NoToken => r \in landed

\* The inductive invariant behind the five above: an inverse in flight or
\* landed belongs to a real request whose token was still recorded when it
\* began, and a token marked for a late request stays marked.
Inductive ==
  /\ TypeOK
  /\ \A r \in Requests :
       /\ pc[r] = "idle" => r \notin late /\ ~dry[r] /\ reply[r] = "none"
       /\ pc[r] # "idle" => tok[r] \in Tokens
       /\ pc[r] = "returned" => r \in landed
       /\ pc[r] \in {"idle", "lookup", "dispatch"} => r \notin inflight \cup landed
       /\ pc[r] \in {"dispatch", "sent", "returned"} => ~dry[r] /\ r \notin late
       /\ r \in inflight \cup landed => ~dry[r] /\ r \notin late
       /\ r \in late => token[tok[r]] = "applied" /\ reply[r] \in {"none", "error"}
  /\ MarkedMeansLanded
  /\ AppliedReplyIsTrue
  /\ RedoMeansLanded

\* "A token can only be applied once" (undo_apply's docstring, and the text of
\* the refusal).
AppliedOnce == \A t \in Tokens : Cardinality({r \in landed : tok[r] = t}) <= 1
=============================================================================
