------------------------- MODULE UndoExecutorProofs -------------------------
(***************************************************************************)
(* The invariants of UndoExecutor, for any number of tokens and requests.  *)
(***************************************************************************)
EXTENDS UndoExecutor, TLAPS

USE DEF Active, Replies

\* Inductive, taken apart: what it says of one request.
OfRequest(r) ==
  /\ pc[r] = "idle" => r \notin late /\ ~dry[r] /\ reply[r] = "none"
  /\ pc[r] # "idle" => tok[r] \in Tokens
  /\ pc[r] = "returned" => r \in landed
  /\ pc[r] \in {"idle", "lookup", "dispatch"} => r \notin inflight \cup landed
  /\ pc[r] \in {"dispatch", "sent", "returned"} => ~dry[r] /\ r \notin late
  /\ r \in inflight \cup landed => ~dry[r] /\ r \notin late
  /\ r \in late => token[tok[r]] = "applied" /\ reply[r] \in {"none", "error"}

\* The initial state types, and nothing has happened in it.
LEMMA InductiveInit == Init => Inductive
  <1> SUFFICES ASSUME Init PROVE Inductive
    OBVIOUS
  <1>1. TypeOK
    BY DEF Init, TypeOK
  <1>2. \A r \in Requests : OfRequest(r)
    BY DEF Init, OfRequest
  <1>3. MarkedMeansLanded /\ AppliedReplyIsTrue /\ RedoMeansLanded
    BY DEF Init, MarkedMeansLanded, AppliedReplyIsTrue, RedoMeansLanded
  <1> QED
    BY <1>1, <1>2, <1>3 DEF Inductive, OfRequest

\* Every step keeps it.
LEMMA InductiveStep == Inductive /\ [Next]_vars => Inductive'
  <1> SUFFICES ASSUME Inductive, [Next]_vars PROVE Inductive'
    OBVIOUS
  <1> USE DEF Inductive
  <1> DEFINE Others == MarkedMeansLanded /\ AppliedReplyIsTrue /\ RedoMeansLanded
             Goal == TypeOK' /\ (\A r \in Requests : OfRequest(r)') /\ Others'
  <1>0. (\A r \in Requests : OfRequest(r)) /\ Others
    BY DEF OfRequest
  <1>1. ASSUME NEW t \in Tokens, Record(t) PROVE Goal
    <2>1. TypeOK'
      BY <1>1 DEF Record, TypeOK
    <2>2. \A r \in Requests : OfRequest(r)'
      BY <1>0, <1>1 DEF Record, TypeOK, OfRequest
    <2>3. Others'
      BY <1>1 DEF Record, TypeOK, MarkedMeansLanded, AppliedReplyIsTrue, RedoMeansLanded
    <2> QED
      BY <2>1, <2>2, <2>3
  <1>2. ASSUME NEW r \in Requests, Start(r) PROVE Goal
    <2>1. TypeOK'
      BY <1>2 DEF Start, Goto, TypeOK
    <2>2. \A q \in Requests : OfRequest(q)'
      BY <1>0, <1>2 DEF Start, Goto, TypeOK, OfRequest
    <2>3. Others'
      <3>1. r \notin landed
        BY <1>0, <1>2 DEF Start, OfRequest
      <3>2. /\ \A q \in Requests : q # r => tok'[q] = tok[q]
            /\ UNCHANGED <<token, landed, redo, reply>>
        BY <1>2 DEF Start, TypeOK
      <3> QED
        BY <3>1, <3>2 DEF TypeOK, MarkedMeansLanded, AppliedReplyIsTrue, RedoMeansLanded
    <2> QED
      BY <2>1, <2>2, <2>3
  <1>3. ASSUME NEW r \in Requests, Lookup(r) PROVE Goal
    <2>1. TypeOK'
      BY <1>3 DEF Lookup, Answer, Goto, TypeOK
    <2>2. \A q \in Requests : OfRequest(q)'
      BY <1>0, <1>3 DEF Lookup, Answer, Goto, TypeOK, OfRequest
    <2>3. Others'
      BY <1>3 DEF Lookup, Answer, Goto, TypeOK, MarkedMeansLanded, AppliedReplyIsTrue, RedoMeansLanded
    <2> QED
      BY <2>1, <2>2, <2>3
  <1>4. ASSUME NEW r \in Requests, LookupRefuses(r) \/ InverseStopped(r) \/ InverseLost(r) \/ MarkFails(r)
        PROVE Goal
    <2>0. /\ pc[r] \in {"lookup", "dispatch", "sent", "returned"}
          /\ pc' = [pc EXCEPT ![r] = "done"]
          /\ UNCHANGED <<token, tok, dry, inflight, landed, redo, late>>
          /\ \E what \in {"error", "not_applied"} :
               /\ reply' = [reply EXCEPT ![r] = what]
               /\ r \in late => what = "error"
      BY <1>0, <1>4 DEF LookupRefuses, InverseStopped, InverseLost, MarkFails, Answer, Goto, OfRequest
    <2>1. TypeOK'
      BY <2>0 DEF TypeOK
    <2>2. \A q \in Requests : OfRequest(q)'
      BY <1>0, <2>0 DEF TypeOK, OfRequest
    <2>3. Others'
      BY <2>0 DEF TypeOK, MarkedMeansLanded, AppliedReplyIsTrue, RedoMeansLanded
    <2> QED
      BY <2>1, <2>2, <2>3
  <1>5. ASSUME NEW r \in Requests, Dispatch(r) PROVE Goal
    <2>1. TypeOK'
      BY <1>5 DEF Dispatch, Goto, TypeOK
    <2>2. \A q \in Requests : OfRequest(q)'
      BY <1>0, <1>5 DEF Dispatch, Goto, TypeOK, OfRequest
    <2>3. Others'
      BY <1>5 DEF Dispatch, Goto, TypeOK, MarkedMeansLanded, AppliedReplyIsTrue, RedoMeansLanded
    <2> QED
      BY <2>1, <2>2, <2>3
  <1>6. ASSUME NEW r \in Requests, InverseConfirmed(r) PROVE Goal
    <2>1. TypeOK'
      BY <1>6 DEF InverseConfirmed, Goto, TypeOK
    <2>2. \A q \in Requests : OfRequest(q)'
      BY <1>0, <1>6 DEF InverseConfirmed, Goto, TypeOK, OfRequest
    <2>3. Others'
      BY <1>6 DEF InverseConfirmed, Goto, TypeOK, MarkedMeansLanded, AppliedReplyIsTrue, RedoMeansLanded
    <2> QED
      BY <2>1, <2>2, <2>3
  <1>7. ASSUME NEW r \in Requests, InverseRejected(r) PROVE Goal
    <2>1. TypeOK'
      BY <1>7 DEF InverseRejected, Answer, Goto, TypeOK
    <2>2. \A q \in Requests : OfRequest(q)'
      BY <1>0, <1>7 DEF InverseRejected, Answer, Goto, TypeOK, OfRequest
    <2>3. Others'
      BY <1>7 DEF InverseRejected, Answer, Goto, TypeOK, MarkedMeansLanded, AppliedReplyIsTrue, RedoMeansLanded
    <2> QED
      BY <2>1, <2>2, <2>3
  <1>8. ASSUME NEW r \in Requests, Mark(r) PROVE Goal
    <2>1. TypeOK'
      BY <1>8, <1>0 DEF Mark, Answer, Goto, TypeOK, OfRequest
    <2>2. \A q \in Requests : OfRequest(q)'
      BY <1>0, <1>8 DEF Mark, Answer, Goto, TypeOK, OfRequest
    <2>3. r \in landed /\ tok[r] \in Tokens
      BY <1>0, <1>8 DEF Mark, OfRequest
    <2>4. Others'
      BY <1>8, <2>3 DEF Mark, Answer, Goto, TypeOK, MarkedMeansLanded, AppliedReplyIsTrue, RedoMeansLanded
    <2> QED
      BY <2>1, <2>2, <2>4
  <1>9. ASSUME NEW r \in Requests, Land(r) PROVE Goal
    <2>1. TypeOK'
      BY <1>9 DEF Land, TypeOK
    <2>2. \A q \in Requests : OfRequest(q)'
      BY <1>0, <1>9 DEF Land, TypeOK, OfRequest
    <2>3. Others'
      BY <1>9 DEF Land, TypeOK, MarkedMeansLanded, AppliedReplyIsTrue, RedoMeansLanded
    <2> QED
      BY <2>1, <2>2, <2>3
  <1>10. ASSUME NEW r \in Requests, Crash(r) PROVE Goal
    <2>1. TypeOK'
      BY <1>10 DEF Crash, Goto, TypeOK
    <2>2. \A q \in Requests : OfRequest(q)'
      BY <1>0, <1>10 DEF Crash, Goto, TypeOK, OfRequest
    <2>3. Others'
      BY <1>10 DEF Crash, Goto, TypeOK, MarkedMeansLanded, AppliedReplyIsTrue, RedoMeansLanded
    <2> QED
      BY <2>1, <2>2, <2>3
  <1>11. ASSUME UNCHANGED vars PROVE Goal
    <2>1. TypeOK'
      BY <1>11 DEF vars, TypeOK
    <2>2. \A q \in Requests : OfRequest(q)'
      BY <1>0, <1>11 DEF vars, OfRequest
    <2>3. Others'
      BY <1>11 DEF vars, MarkedMeansLanded, AppliedReplyIsTrue, RedoMeansLanded
    <2> QED
      BY <2>1, <2>2, <2>3
  <1>12. Goal
    BY <1>1, <1>2, <1>3, <1>4, <1>5, <1>6, <1>7, <1>8, <1>9, <1>10, <1>11 DEF Next, RequestStep
  <1> QED
    BY <1>12 DEF OfRequest

\* Whatever requests overlap, crash or lose their response, the tokens, the
\* replies and the inverses that landed stay in step (undo_apply, UndoStore.mark).
THEOREM UndoSafety == Spec => []Inductive
  BY InductiveInit, InductiveStep, PTL DEF Spec

\* A token is consumed only by an inverse that landed: an error payload, an
\* exception or a lost response leaves it to be tried again.
THEOREM MarksAreEarned == Spec => []MarkedMeansLanded
  <1>1. Inductive => MarkedMeansLanded
    BY DEF Inductive
  <1> QED
    BY <1>1, UndoSafety, PTL

\* "applied: true" is said only of an inverse that landed, with its token marked.
THEOREM RepliesAreTrue == Spec => []AppliedReplyIsTrue
  <1>1. Inductive => AppliedReplyIsTrue
    BY DEF Inductive
  <1> QED
    BY <1>1, UndoSafety, PTL

\* As far as "a token can only be applied once" goes: it holds of every request
\* that begins after the mark.
THEOREM LateRequestsLandNothing == Spec => []LateRequestsAreRefused
  <1>1. Inductive => LateRequestsAreRefused
    BY DEF Inductive, TypeOK, LateRequestsAreRefused
  <1> QED
    BY <1>1, UndoSafety, PTL

\* A preview of an undo sends nothing and records nothing.
THEOREM PreviewsAreInert == Spec => []PreviewChangesNothing
  <1>1. Inductive => PreviewChangesNothing
    BY DEF Inductive, PreviewChangesNothing, RedoMeansLanded
  <1> QED
    BY <1>1, UndoSafety, PTL
=============================================================================
