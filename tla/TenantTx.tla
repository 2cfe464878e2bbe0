------------------------------ MODULE TenantTx ------------------------------
(***************************************************************************)
(* The transaction that carries a tenant's request, from the middleware     *)
(* that opens it on a pooled connection to the interceptor that commits it  *)
(* or the response's finish and close handlers that roll it back, against   *)
(* clients that disconnect, a bounded pool, and the shutdown of the         *)
(* process.  Each request runs once; its handler is Script, the statements  *)
(* of a create: rows of tables under row-level security, then the event in  *)
(* outbox_events, which has no such policy.                                 *)
(*                                                                         *)
(* External: a client of node-postgres sends its statements one at a time,  *)
(* in the order they were asked for (queue); TypeORM refuses a statement on *)
(* a query runner that was released, and releases one whose connection      *)
(* PostgreSQL has terminated.                                               *)
(***************************************************************************)
EXTENDS Integers, Sequences

CONSTANTS
    Request,
    Conn,        \* the pool: DB_POOL_MAX connections
    Script,      \* what each statement of the handler writes: "row" or "event"
    NoRequest, NoConn

ASSUME ScriptAssumption == Script \in Seq({"row", "event"})
ASSUME SentinelAssumption == NoRequest \notin Request /\ NoConn \notin Conn

VARIABLES
    phase,      \* of the process: "serving", "draining", "closing", "exited"
    pc,         \* what each request is about to do
    step,       \* the statement its handler issues next
    gone,       \* requests whose client has disconnected
    tenantTx,   \* requests admitted to their tenant: req.tenantTx is set
    settled,    \* req.tenantTxSettled
    conn,       \* the connection of the request's query runner until its release
    second,     \* the connection borrowed to load the user
    queue,      \* queue[c]: the statements a connection has yet to run
    session,    \* session[c]: the request whose transaction is open on it
    work,       \* work[c]: the statements of that transaction
    committed   \* committed[r]: the statements of a request that are permanent

process == <<phase, gone, tenantTx, settled>>
pool == <<conn, second>>
database == <<queue, session, work, committed>>
vars == <<process, pool, database, pc, step>>

Statement == 1..Len(Script)
ROLLBACK == 0
Rows == {i \in Statement : Script[i] = "row"}
Events == {i \in Statement : Script[i] = "event"}
Answered == {"ok", "error"}

TypeOK ==
    /\ phase \in {"serving", "draining", "closing", "exited"}
    /\ pc \in [Request -> {"idle", "connect", "begin", "check", "authorize", "lookup",
                           "handler", "await", "commit"} \cup Answered]
    /\ step \in [Request -> 1..(Len(Script) + 1)]
    /\ gone \subseteq Request /\ tenantTx \subseteq Request /\ settled \subseteq tenantTx
    /\ conn \in [Request -> Conn \cup {NoConn}]
    /\ second \in [Request -> Conn \cup {NoConn}]
    /\ queue \in [Conn -> Seq([by: Request, stmt: Statement \cup {ROLLBACK}])]
    /\ session \in [Conn -> Request \cup {NoRequest}]
    /\ work \in [Conn -> SUBSET Statement]
    /\ committed \in [Request -> SUBSET Statement]

Init ==
    /\ phase = "serving"
    /\ pc = [r \in Request |-> "idle"]
    /\ step = [r \in Request |-> 1]
    /\ gone = {} /\ tenantTx = {} /\ settled = {}
    /\ conn = [r \in Request |-> NoConn]
    /\ second = [r \in Request |-> NoConn]
    /\ queue = [c \in Conn |-> <<>>]
    /\ session = [c \in Conn |-> NoRequest]
    /\ work = [c \in Conn |-> {}]
    /\ committed = [r \in Request |-> {}]

Goto(r, p) == pc' = [pc EXCEPT ![r] = p]
Held(c) == \E r \in Request : conn[r] = c \/ second[r] = c
PoolOpen == phase \in {"serving", "draining"}

\* A transaction ends and what it wrote is gone, unless it was committed before.
EndTransaction(c) ==
    /\ session' = [session EXCEPT ![c] = NoRequest]
    /\ work' = [work EXCEPT ![c] = {}]

\* The query runner's connection goes back to the pool.
Release(r) == conn' = [conn EXCEPT ![r] = NoConn]

-----------------------------------------------------------------------------
(* The middleware. *)

\* Without a token of a tenant the request goes on, with no transaction.
Arrive(r) ==
    /\ phase = "serving"
    /\ pc[r] = "idle"
    /\ \E p \in {"connect", "authorize"} : Goto(r, p)
    /\ UNCHANGED <<process, pool, database, step>>

\* connect() waits, without a limit, until the pool has a connection.
Connect(r) ==
    /\ PoolOpen
    /\ pc[r] = "connect"
    /\ \E c \in Conn : ~Held(c) /\ conn' = [conn EXCEPT ![r] = c]
    /\ Goto(r, "begin")
    /\ UNCHANGED <<process, second, database, step>>

\* START TRANSACTION and set_config, after what the connection still has to run.
Begin(r) ==
    /\ pc[r] = "begin"
    /\ queue[conn[r]] = <<>>
    /\ session' = [session EXCEPT ![conn[r]] = r]
    /\ Goto(r, "check")
    /\ UNCHANGED <<process, pool, queue, work, committed, step>>

\* The tenant is active: the rollback is registered for finish and close.
Admit(r) ==
    /\ pc[r] = "check"
    /\ tenantTx' = tenantTx \cup {r}
    /\ Goto(r, "authorize")
    /\ UNCHANGED <<phase, gone, settled, pool, database, step>>

\* Mutant of TurnAway: the connection goes back with its transaction open.
TurnAwayOpen(r) ==
    /\ pc[r] \in {"begin", "check"}
    /\ Release(r)
    /\ Goto(r, "error")
    /\ UNCHANGED <<process, second, database, step>>

\* The tenant is suspended or missing, or one of these statements failed: the
\* transaction, if it is active, is rolled back before the release.
TurnAway(r) ==
    /\ pc[r] \in {"begin", "check"}
    /\ IF session[conn[r]] = r THEN EndTransaction(conn[r]) ELSE UNCHANGED <<session, work>>
    /\ Release(r)
    /\ Goto(r, "error")
    /\ UNCHANGED <<process, second, queue, committed, step>>

-----------------------------------------------------------------------------
(* The authorization checker, which loads the user over the pool. *)

AskUser(r) ==
    /\ PoolOpen
    /\ pc[r] = "authorize"
    /\ \E c \in Conn : ~Held(c) /\ second' = [second EXCEPT ![r] = c]
    /\ Goto(r, "lookup")
    /\ UNCHANGED <<process, conn, database, step>>

\* The user has the role, or is missing, lacks it, or the query failed.
Authorize(r) ==
    /\ pc[r] = "lookup"
    /\ queue[second[r]] = <<>>
    /\ second' = [second EXCEPT ![r] = NoConn]
    /\ \E p \in {"handler", "error"} : Goto(r, p)
    /\ UNCHANGED <<process, conn, database, step>>

-----------------------------------------------------------------------------
(* The handler. *)

\* A statement through the tenant's manager.
Issue(r) ==
    /\ pc[r] = "handler"
    /\ step[r] \in Statement
    /\ conn[r] # NoConn
    /\ queue' = [queue EXCEPT ![conn[r]] = Append(@, [by |-> r, stmt |-> step[r]])]
    /\ Goto(r, "await")
    /\ UNCHANGED <<process, pool, session, work, committed, step>>

\* The handler refuses the request, or its statement throws: there is no tenant
\* context, or the query runner was released.
Throw(r) ==
    /\ pc[r] = "handler"
    /\ Goto(r, "error")
    /\ UNCHANGED <<process, pool, database, step>>

\* The next statement of a connection and its request.
Due(c) == Head(queue[c]).stmt
Asker(c) == Head(queue[c]).by
Shift(c) == queue[c] # <<>> /\ queue' = [queue EXCEPT ![c] = Tail(@)]

Resume(r) ==
    /\ Goto(r, "handler")
    /\ step' = [step EXCEPT ![r] = @ + 1]

\* The statement runs in the transaction of its request.
RunInside(c) ==
    /\ Shift(c)
    /\ Due(c) # ROLLBACK
    /\ session[c] = Asker(c)
    /\ work' = [work EXCEPT ![c] = @ \cup {Due(c)}]
    /\ Resume(Asker(c))
    /\ UNCHANGED <<process, pool, session, committed>>

\* Mutant of RunAlone: no table is under row-level security.
RunAloneUnscoped(c) ==
    /\ Shift(c)
    /\ Due(c) # ROLLBACK
    /\ session[c] # Asker(c)
    /\ committed' = [committed EXCEPT ![Asker(c)] = @ \cup {Due(c)}]
    /\ Resume(Asker(c))
    /\ UNCHANGED <<process, pool, session, work>>

\* The transaction was rolled back before the statement's turn: it commits by
\* itself, unless its table is under row-level security (RunFails).
RunAlone(c) ==
    /\ Shift(c)
    /\ Due(c) \in Events
    /\ session[c] # Asker(c)
    /\ committed' = [committed EXCEPT ![Asker(c)] = @ \cup {Due(c)}]
    /\ Resume(Asker(c))
    /\ UNCHANGED <<process, pool, session, work>>

\* A constraint, a policy, a timeout or a lost connection fails it.
RunFails(c) ==
    /\ Shift(c)
    /\ Due(c) # ROLLBACK
    /\ Goto(Asker(c), "error")
    /\ UNCHANGED <<process, pool, session, work, committed, step>>

-----------------------------------------------------------------------------
(* The interceptor, and the handlers of the response's finish and close. *)

\* The interceptor finds the transaction settled and lets the content pass.
Pass(r) ==
    /\ pc[r] = "handler"
    /\ step[r] \notin Statement
    /\ r \in settled
    /\ Goto(r, "ok")
    /\ UNCHANGED <<process, pool, database, step>>

\* It settles the transaction; COMMIT throws on a released query runner.
Intercept(r) ==
    /\ pc[r] = "handler"
    /\ step[r] \notin Statement
    /\ r \in tenantTx \ settled
    /\ settled' = settled \cup {r}
    /\ Goto(r, IF conn[r] = NoConn THEN "error" ELSE "commit")
    /\ UNCHANGED <<phase, gone, tenantTx, pool, database, step>>

Commit(r) ==
    /\ pc[r] = "commit"
    /\ committed' = [committed EXCEPT ![r] = @ \cup work[conn[r]]]
    /\ EndTransaction(conn[r])
    /\ Release(r)
    /\ Goto(r, "ok")
    /\ UNCHANGED <<process, second, queue, step>>

\* Mutant of CommitFails: the error is logged and the content returned.
CommitFailsQuietly(r) ==
    /\ pc[r] = "commit"
    /\ EndTransaction(conn[r])
    /\ Release(r)
    /\ Goto(r, "ok")
    /\ UNCHANGED <<process, second, queue, committed, step>>

\* The connection is lost with the answer: the transaction may have committed.
CommitFails(r) ==
    /\ pc[r] = "commit"
    /\ \E w \in {{}, work[conn[r]]} :
           committed' = [committed EXCEPT ![r] = @ \cup w]
    /\ EndTransaction(conn[r])
    /\ Release(r)
    /\ Goto(r, "error")
    /\ UNCHANGED <<process, second, queue, step>>

\* Mutant of Rollback: the request is settled before it has a transaction.
RollbackEarly(r) ==
    IF r \notin settled
    THEN /\ settled' = settled \cup {r}
         /\ IF conn[r] = NoConn THEN UNCHANGED queue
            ELSE queue' = [queue EXCEPT
                    ![conn[r]] = Append(@, [by |-> r, stmt |-> ROLLBACK])]
    ELSE UNCHANGED <<settled, queue>>

\* rollback(): nothing if settled; ROLLBACK throws on a released query runner.
Rollback(r) ==
    IF r \in tenantTx \ settled
    THEN /\ settled' = settled \cup {r}
         /\ IF conn[r] = NoConn THEN UNCHANGED queue
            ELSE queue' = [queue EXCEPT
                    ![conn[r]] = Append(@, [by |-> r, stmt |-> ROLLBACK])]
    ELSE UNCHANGED <<settled, queue>>

\* The response is written.  One to a client that has gone may never finish.
Finish(r) ==
    /\ pc[r] \in Answered
    /\ r \in tenantTx \ settled
    /\ Rollback(r)
    /\ UNCHANGED <<phase, gone, tenantTx, pool, session, work, committed, pc, step>>

\* The client goes away: close, of which the middleware hears once it has
\* registered its handler.
Disconnect(r) ==
    /\ r \notin gone
    /\ pc[r] # "idle"
    /\ gone' = gone \cup {r}
    /\ Rollback(r)
    /\ UNCHANGED <<phase, tenantTx, pool, session, work, committed, pc, step>>

\* Mutant of RolledBack: a ROLLBACK is sent again before the connection is released.
RolledBackAgain(c) ==
    /\ queue[c] # <<>>
    /\ Due(c) = ROLLBACK
    /\ queue' = [queue EXCEPT ![c] = Append(Tail(@), Head(@))]
    /\ EndTransaction(c)
    /\ UNCHANGED <<process, pool, committed, pc, step>>

\* ROLLBACK has its turn, and the connection is released.
RolledBack(c) ==
    /\ Shift(c)
    /\ Due(c) = ROLLBACK
    /\ EndTransaction(c)
    /\ Release(Asker(c))
    /\ UNCHANGED <<process, second, committed, pc, step>>

-----------------------------------------------------------------------------
(* PostgreSQL and the process. *)

\* Mutant of IdleTimeout: an idle session is reported and kept.
IdleTimeoutReported(c) ==
    /\ session[c] # NoRequest
    /\ queue[c] = <<>>
    /\ pc[session[c]] \notin {"check", "commit"}
    /\ UNCHANGED vars

\* idle_in_transaction_session_timeout: the session is terminated and TypeORM
\* releases the query runner.
IdleTimeout(c) ==
    LET r == session[c] IN
    /\ r # NoRequest
    /\ queue[c] = <<>>
    /\ pc[r] \notin {"check", "commit"}
    /\ EndTransaction(c)
    /\ Release(r)
    /\ UNCHANGED <<process, second, queue, committed, pc, step>>

\* A signal: no new requests, and the grace period of the running ones begins.
Shutdown ==
    /\ phase = "serving"
    /\ phase' = "draining"
    /\ UNCHANGED <<gone, tenantTx, settled, pool, database, pc, step>>

\* The server has stopped: every request is answered or cut.  The pool ends.
DestroyPool ==
    /\ phase = "draining"
    /\ \A r \in Request : pc[r] \in Answered \cup {"idle"} \/ r \in gone
    /\ phase' = "closing"
    /\ UNCHANGED <<gone, tenantTx, settled, pool, database, pc, step>>

\* The pool has ended once every connection has come back.
Exit ==
    /\ phase = "closing"
    /\ \A c \in Conn : ~Held(c) /\ queue[c] = <<>>
    /\ phase' = "exited"
    /\ UNCHANGED <<gone, tenantTx, settled, pool, database, pc, step>>

Exited == phase = "exited" /\ UNCHANGED vars

-----------------------------------------------------------------------------
Running == phase # "exited"

RequestStep(r) ==
    \/ Connect(r) \/ Begin(r) \/ Admit(r) \/ TurnAway(r) \/ AskUser(r) \/ Authorize(r)
    \/ Issue(r) \/ Throw(r) \/ Pass(r) \/ Intercept(r) \/ Commit(r) \/ CommitFails(r)

ConnStep(c) == RunInside(c) \/ RunAlone(c) \/ RunFails(c) \/ RolledBack(c)

Next ==
    \/ Running /\ \E r \in Request :
           Arrive(r) \/ RequestStep(r) \/ Finish(r) \/ Disconnect(r)
    \/ Running /\ \E c \in Conn : ConnStep(c) \/ IdleTimeout(c)
    \/ Shutdown \/ DestroyPool \/ Exit \/ Exited

Spec == Init /\ [][Next]_vars

\* Running code goes on, statements are run, idle transactions are terminated,
\* a response to a client that is there finishes, and a shutdown cuts the
\* requests that outlive its grace period.
Fairness ==
    /\ \A r \in Request :
          /\ WF_vars(Running /\ RequestStep(r))
          /\ WF_vars(Running /\ r \notin gone /\ Finish(r))
          /\ WF_vars(phase = "draining" /\ Disconnect(r))
    /\ \A c \in Conn : WF_vars(Running /\ ConnStep(c)) /\ WF_vars(Running /\ IdleTimeout(c))
    /\ WF_vars(DestroyPool) /\ WF_vars(Exit)

FairSpec == Spec /\ Fairness
=============================================================================
