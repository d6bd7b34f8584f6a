------------------------------ MODULE Connection ------------------------------
(***************************************************************************)
(* The MCP server's requests to the Dashboard of one target                *)
(* (connection.py, config.py, mcp_server/_shared.py), beside the commands  *)
(* that change the password store under it.  The server runs tools in      *)
(* threads: they share the table of connections, each connection's token   *)
(* and the unlocked store, which the server reads once.  Tokens expire;    *)
(* the account's password is changed by others, in the Dashboard and in    *)
(* the store apart.                                                        *)
(*                                                                         *)
(* The server has run for a while when a behaviour looks at it (Wake), so  *)
(* it may hold a connection, a token and an older store.                   *)
(***************************************************************************)
EXTENDS SecretStore

CONSTANTS
  Requests,     \* requests, one of a thread each
  Plain,        \* the password in the environment, or None
  MaxEvents     \* bound on the tokens that expire and the passwords that change

ASSUME PlainIsValue == Plain \in Values \cup {None} /\ MaxEvents \in Nat
ASSUME RequestsAreFinite == IsFiniteSet(Requests)

VARIABLES
  up,        \* the server is looked at
  master,    \* CEPH_AIOPS_MASTER_PASSWORD of the server
  target,    \* the target of the requests
  cached,    \* _cached, the unlocked store
  account,   \* the password the Dashboard wants
  tokens,    \* the number of tokens issued
  valid,     \* those it accepts
  table,     \* the connection that _connections holds
  token,     \* token[x]: _token of connection x
  conn, rpc, \* of each request: its connection, and where it stands
  header,    \* the token in its header
  retry,     \* whether it may retry
  secret,    \* the password it logs in with
  outcome,   \* how it ended
  landed,    \* how often it took effect (history)
  upset,     \* since it retries, a token expired or its connection's was cleared (history)
  stale,     \* its password was not the account's when it was looked up, or not since, or the
             \* store could not be looked into (history)
  events     \* events so far

server == <<up, master, target, cached>>
dashboard == <<account, tokens, valid, events>>
shared == <<table, token>>
thread == <<conn, rpc, header, retry, secret, outcome, landed, upset, stale>>
connVars == <<server, dashboard, shared, thread>>
allVars == <<storeVars, connVars>>

Old == "old"
Conns == Requests \cup {Old}
EmptyToken == 0  \* the empty string, which is not None and no token either
Tokens == 0 .. 1 + Cardinality(Requests) * 2
Outcomes == {"none", "ok", "error", "lost", "unauthorized", "refused", "unreachable", "no password", "no token", "tokenless"}

Typed ==
  /\ StoreTypeOK
  /\ up \in BOOLEAN /\ master \in Passwords \cup {None} /\ target \in Names \cup {None}
  /\ cached \in Stores \cup {None} /\ account \in Values \cup {None}
  /\ tokens \in Tokens /\ valid \subseteq Tokens /\ events \in 0 .. MaxEvents
  /\ table \in Conns \cup {None} /\ token \in [Conns -> Tokens \cup {None}]
  /\ conn \in [Requests -> Conns \cup {None}]
  /\ rpc \in [Requests -> {"idle", "create", "header", "password", "login", "issued", "send", "sent", "again", "done"}]
  /\ header \in [Requests -> Tokens \cup {None}]
  /\ retry \in [Requests -> BOOLEAN]
  /\ secret \in [Requests -> Values \cup {None}]
  /\ outcome \in [Requests -> Outcomes]
  /\ landed \in [Requests -> Nat]
  /\ upset \subseteq Requests /\ stale \subseteq Requests
  /\ \A r \in Requests :
       /\ rpc[r] \in {"header", "password", "login", "issued", "send", "sent", "again"} => conn[r] \in Conns
       /\ rpc[r] = "login" => secret[r] \in Values

ConnectionInit ==
  /\ StoreInit
  /\ up = FALSE /\ master = None /\ target = None /\ cached = None /\ account = None
  /\ tokens = 0 /\ valid = {} /\ events = 0
  /\ table = None /\ token = [x \in Conns |-> None]
  /\ conn = [r \in Requests |-> None] /\ rpc = [r \in Requests |-> "idle"]
  /\ header = [r \in Requests |-> None] /\ retry = [r \in Requests |-> TRUE]
  /\ secret = [r \in Requests |-> None]
  /\ outcome = [r \in Requests |-> "none"]
  /\ landed = [r \in Requests |-> 0] /\ upset = {} /\ stale = {}

-----------------------------------------------------------------------------
\* What the server may hold from before; of the store it holds, only the
\* target's password is ever looked at.
Wake ==
  /\ ~up /\ Started < MaxActors
  /\ up' = TRUE
  /\ master' \in Passwords /\ target' \in Names
  /\ \E v \in Values \cup {None} :
       cached' \in {None, [key |-> master', data |-> [n \in Names |-> v]]}
  /\ account' \in Values
  /\ \/ UNCHANGED <<table, token, tokens, valid>>
     \/ /\ table' = Old
        /\ token' = [token EXCEPT ![Old] = 1] /\ tokens' = 1
        /\ valid' \in {{}, {1}}
  /\ UNCHANGED <<storeVars, events, thread>>

Goto(r, p) == rpc' = [rpc EXCEPT ![r] = p]
End(r, o) == Goto(r, "done") /\ outcome' = [outcome EXCEPT ![r] = o]
Drop(f, r) == f' = [f EXCEPT ![r] = None]

Asked == Cardinality({r \in Requests : rpc[r] # "idle"})

\* Seeded fault: the lookup is taken to succeed.
LookupUnchecked == "header"

Lookup == IF table = None THEN "create" ELSE "header"

\* connect: the lookup, and the creation of a connection that is missing.
Connect(r) ==
  /\ up /\ rpc[r] = "idle" /\ Started + Asked < MaxActors
  /\ conn' = [conn EXCEPT ![r] = table]
  /\ Goto(r, Lookup)
  /\ UNCHANGED <<storeVars, server, dashboard, shared, header, retry, secret, outcome, landed, upset, stale>>

Create(r) ==
  /\ rpc[r] = "create"
  /\ conn' = [conn EXCEPT ![r] = r]
  /\ table' = r
  /\ Goto(r, "header")
  /\ UNCHANGED <<storeVars, server, dashboard, token, header, retry, secret, outcome, landed, upset, stale>>

\* _auth_header.
Header(r) ==
  /\ rpc[r] = "header"
  /\ Goto(r, IF token[conn[r]] = None THEN "password" ELSE "send")
  /\ UNCHANGED <<storeVars, server, dashboard, shared, conn, header, retry, secret, outcome, landed, upset, stale>>

\* open_store: the store held in memory, or the one on disk, which is kept if
\* the file can be read.
StoreOpened(read) ==
  IF cached # None THEN {cached} ELSE {s \in {disk} \cap Stores : read /\ s.key = master}

\* Seeded fault: the environment goes before the store.
ResolveEnvFirst(read) ==
  IF Plain # None THEN Plain
  ELSE IF StoreOpened(read) = {} THEN None
  ELSE (CHOOSE s \in StoreOpened(read) : TRUE).data[target]

\* _resolve_secret: the store's password if there is a store, it opens and it
\* has one; or else the environment's.
Resolve(read) ==
  IF disk # None /\ StoreOpened(read) # {} /\ (CHOOSE s \in StoreOpened(read) : TRUE).data[target] # None
    THEN (CHOOSE s \in StoreOpened(read) : TRUE).data[target]
    ELSE Plain

\* A wrong master password is not taken for a missing secret; a store that
\* cannot be read is.
WrongMaster(read) == cached = None /\ read /\ disk \in Stores /\ disk.key # master

NoPassword(read) == WrongMaster(read) \/ Resolve(read) = None

\* _login reads the password anew each time; the opened store is kept.
PasswordRead(r, read) ==
  /\ rpc[r] = "password"
  /\ IF NoPassword(read)
       THEN End(r, "no password") /\ UNCHANGED <<secret, stale>>
       ELSE /\ secret' = [secret EXCEPT ![r] = Resolve(read)]
            /\ stale' = IF disk \in Stores /\ disk.data[target] = account /\ StoreOpened(read) = {disk}
                          THEN stale \ {r} ELSE stale \cup {r}
            /\ Goto(r, "login") /\ UNCHANGED outcome
  /\ cached' = IF disk # None /\ StoreOpened(read) # {} THEN (CHOOSE s \in StoreOpened(read) : TRUE) ELSE cached
  /\ UNCHANGED <<storeVars, up, master, target, dashboard, shared, conn, header, retry, landed, upset>>

Password(r) == \E read \in BOOLEAN : PasswordRead(r, read)

\* _login: a new token for the right password, kept with the connection.
Login(r) ==
  /\ rpc[r] = "login" /\ secret[r] = account
  /\ tokens' = tokens + 1 /\ valid' = valid \cup {tokens + 1}
  /\ token' = [token EXCEPT ![conn[r]] = tokens + 1]
  /\ Goto(r, "issued") /\ Drop(secret, r)
  /\ UNCHANGED <<storeVars, server, account, events, table, conn, header, retry, outcome, landed, upset, stale>>

\* The other requests whose token is taken from them after their own 401, or
\* before they have seen what their login brought.
Robbed(r) == {q \in Requests \ {r} : conn[q] = conn[r] /\ (~retry[q] \/ rpc[q] = "issued")}

\* A login that is answered without a token: the connection is left with none,
\* with an empty one, or, if the answer is no object, with the one it had.
LoginBlank(r) ==
  /\ rpc[r] = "login" /\ secret[r] = account
  /\ \E t \in {None, EmptyToken, token[conn[r]]} : token' = [token EXCEPT ![conn[r]] = t]
  /\ End(r, "tokenless") /\ Drop(secret, r)
  /\ upset' = upset \cup Robbed(r)
  /\ UNCHANGED <<storeVars, server, dashboard, table, conn, header, retry, landed, stale>>

\* _login looks whether the connection has a token: another thread may have
\* cleared the one that was issued.
LoginEnds(r) ==
  /\ rpc[r] = "issued"
  /\ IF token[conn[r]] \in {None, EmptyToken} THEN End(r, "no token") ELSE Goto(r, "send") /\ UNCHANGED outcome
  /\ UNCHANGED <<storeVars, server, dashboard, shared, conn, header, retry, secret, landed, upset, stale>>

LoginFails(r) ==
  /\ rpc[r] = "login"
  /\ \/ secret[r] # account /\ End(r, "refused")
     \/ End(r, "unreachable")
  /\ Drop(secret, r)
  /\ UNCHANGED <<storeVars, server, dashboard, shared, conn, header, retry, landed, upset, stale>>

\* Seeded fault: an unanswered request is tried again.
RetriesLost(r, a) == a \in {"401", "lost"} /\ retry[r]

Retries(r, a) == a = "401" /\ retry[r]

Answer(r, answers) ==
  \E a \in answers :
    IF Retries(r, a) THEN Goto(r, "again") /\ UNCHANGED outcome
    ELSE End(r, IF a = "401" THEN "unauthorized" ELSE a)

\* The header is built from the token as it is by now: it may be another's
\* newer one, or none, if another thread has cleared it.
Send(r) ==
  /\ rpc[r] = "send"
  /\ header' = [header EXCEPT ![r] = token[conn[r]]]
  /\ Goto(r, "sent")
  /\ UNCHANGED <<storeVars, server, dashboard, shared, conn, retry, secret, outcome, landed, upset, stale>>

\* The Dashboard: with a valid token the request takes effect or is refused,
\* and its answer may be lost, or the request itself.
Serve(r) ==
  /\ rpc[r] = "sent"
  /\ \/ /\ header[r] \in valid
        /\ \/ landed' = [landed EXCEPT ![r] = @ + 1] /\ Answer(r, {"ok", "lost"})
           \/ UNCHANGED landed /\ Answer(r, {"error"})
     \/ /\ header[r] \notin valid
        /\ UNCHANGED landed /\ Answer(r, {"401"})
     \/ UNCHANGED landed /\ Answer(r, {"lost"})
  /\ Drop(header, r)
  /\ UNCHANGED <<storeVars, server, dashboard, shared, conn, retry, secret, upset, stale>>

\* Seeded fault: the token is kept for the second attempt.
KeepToken(r) == UNCHANGED token

ClearToken(r) == token' = [token EXCEPT ![conn[r]] = None]

\* A 401 clears the token of the connection, whichever it is by then, and the
\* request is tried once more.
Retry(r) ==
  /\ rpc[r] = "again"
  /\ ClearToken(r)
  /\ retry' = [retry EXCEPT ![r] = FALSE]
  /\ upset' = (upset \ {r}) \cup Robbed(r)
  /\ Goto(r, "header")
  /\ UNCHANGED <<storeVars, server, dashboard, table, conn, header, secret, outcome, landed, stale>>

\* Tokens expire, or the mgr that issued them fails over.
Expire ==
  /\ events < MaxEvents /\ events' = events + 1
  /\ \E t \in valid :
       /\ valid' = valid \ {t}
       /\ upset' = upset \cup {r \in Requests : rpc[r] # "idle" /\ ~retry[r]}
  /\ UNCHANGED <<storeVars, server, account, tokens, shared, conn, rpc, header, retry, secret, outcome, landed, stale>>

\* Somebody changes the account's password; tokens stay as they are.
ChangeAccount ==
  /\ up /\ events < MaxEvents /\ events' = events + 1
  /\ account' \in Values \ {account}
  /\ stale' = stale \cup {r \in Requests : rpc[r] = "login"}
  /\ UNCHANGED <<storeVars, server, tokens, valid, shared, conn, rpc, header, retry, secret, outcome, landed, upset>>

Request(r) ==
  \/ Connect(r) \/ Create(r) \/ Header(r) \/ Password(r) \/ Login(r) \/ LoginBlank(r) \/ LoginEnds(r)
  \/ LoginFails(r) \/ Send(r) \/ Serve(r) \/ Retry(r)

\* Bound: the commands that may start, so that commands and requests together
\* are no more than MaxActors.
Alongside == IF up THEN MaxActors - (IF Asked = 0 THEN 1 ELSE Asked) ELSE MaxActors

ConnectionNext ==
  \/ StoreStep(Alongside) /\ UNCHANGED connVars
  \/ Wake \/ Expire \/ ChangeAccount
  \/ \E r \in Requests : Request(r)

ConnectionSpec == ConnectionInit /\ [][ConnectionNext]_allVars

-----------------------------------------------------------------------------
\* A request takes effect at most once, although it is tried again after a
\* 401, and its outcome says what it can: "ok" means once, a failure that is
\* not a lost answer means never (request, _login).
RequestLandsOnce ==
  \A r \in Requests :
    /\ landed[r] <= 1
    /\ outcome[r] = "ok" => landed[r] = 1
    /\ outcome[r] \in Outcomes \ {"none", "ok", "lost"} => landed[r] = 0

\* A request fails as unauthorized only if, after its own 401, a token expired
\* again or another thread cleared or replaced the one it was to send; and a
\* login that was answered with a token is reported to have brought none only if
\* another thread did so at once (request, _auth_header, _login).
UnauthorizedIsEarned ==
  \A r \in Requests : outcome[r] \in {"unauthorized", "no token"} => r \in upset

\* A login is refused only with a password that is not the store's any more or
\* not yet: when it was looked up, the store lacked the account's password or
\* could not be read, or the server held an older store; or the account has
\* changed since (_resolve_secret, open_store, unlock).
RefusalIsStale ==
  \A r \in Requests : outcome[r] = "refused" => r \in stale
=============================================================================
