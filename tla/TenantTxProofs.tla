---------------------------- MODULE TenantTxProofs ----------------------------
(***************************************************************************)
(* Proofs about the transaction of a request, for any number of requests,   *)
(* any pool and any handler: type correctness, no connection returns to the *)
(* pool with its transaction open, the rows of a request stand or fall      *)
(* together, a success is durable.                                          *)
(*                                                                         *)
(* The inductive invariant relates the three places a request is known: its *)
(* own position, the connection it borrowed, and the queue of statements a  *)
(* connection still has to run, which may outlive the request's hold on it. *)
(***************************************************************************)
EXTENDS TenantTxProperties, SequenceTheorems, TLAPS

\* A connection belongs to one request, and its open transaction to that one.
Owners ==
    /\ \A r, q \in Request : conn[r] = conn[q] /\ conn[r] # NoConn => r = q
    /\ \A c \in Conn : session[c] # NoRequest =>
         conn[session[c]] = c /\ pc[session[c]] # "begin"
    /\ \A r \in Request : conn[r] # NoConn /\ pc[r] # "begin" => session[conn[r]] = r

\* What a request has and is at its position.
PositionOK(r) ==
    /\ pc[r] \in {"idle", "connect"} => conn[r] = NoConn
    /\ pc[r] \in {"begin", "check", "commit"} => conn[r] # NoConn
    /\ pc[r] \in {"idle", "connect", "begin", "check"} => r \notin tenantTx /\ step[r] = 1
    /\ pc[r] = "commit" => r \in settled /\ step[r] \notin Statement
    /\ pc[r] = "await" => step[r] \in Statement
    /\ r \in settled \ gone => pc[r] \in {"commit"} \cup Answered

\* A queued ROLLBACK holds the connection; a queued statement is the one its
\* handler awaits, and its connection may have been released meanwhile.
QueuedOK(c, e) ==
    /\ e.stmt = ROLLBACK => conn[e.by] = c /\ e.by \in settled /\ pc[e.by] # "commit"
    /\ e.stmt # ROLLBACK =>
         pc[e.by] = "await" /\ e.stmt = step[e.by] /\ conn[e.by] \in {c, NoConn}

\* Two entries of one request and one kind.
Alike(e, f) == e.by = f.by /\ (e.stmt = ROLLBACK <=> f.stmt = ROLLBACK)

Entry == [by: Request, stmt: Statement \cup {ROLLBACK}]
Queued(c, e) == \E i \in 1..Len(queue[c]) : queue[c][i] = e

QueuesOK ==
    /\ \A c \in Conn, e \in Entry : Queued(c, e) => QueuedOK(c, e)
    /\ \A c, d \in Conn : \A i \in 1..Len(queue[c]), j \in 1..Len(queue[d]) :
         Alike(queue[c][i], queue[d][j]) => c = d /\ i = j

\* A transaction has done the statements its handler has got past.
WorkOK ==
    \A c \in Conn : work[c] = IF session[c] = NoRequest THEN {} ELSE 1..(step[session[c]] - 1)

TInv ==
    /\ TypeOK /\ Owners /\ QueuesOK /\ WorkOK /\ RowsTogether /\ OkIsDurable
    /\ \A r \in Request : PositionOK(r)

-----------------------------------------------------------------------------
(* Queues. *)

LEMMA StatementFacts ==
    /\ Len(Script) \in Nat
    /\ Statement \subseteq Nat \ {0}
    /\ ROLLBACK \notin Statement
    /\ Rows \subseteq Statement /\ Events \subseteq Statement /\ Rows \cap Events = {}
  BY ScriptAssumption DEF Statement, ROLLBACK, Rows, Events

LEMMA QueueFacts ==
    ASSUME TypeOK, NEW c \in Conn
    PROVE  /\ queue[c] \in Seq(Entry)
           /\ Len(queue[c]) \in Nat
           /\ \A i \in 1..Len(queue[c]) : queue[c][i] \in Entry
  <1>1. queue[c] \in Seq(Entry)
    BY DEF TypeOK, Entry
  <1> QED
    BY <1>1, LenProperties, ElementOfSeq

\* No queue changes.
LEMMA QueuesSame ==
    ASSUME TypeOK, QueuesOK, queue' = queue,
           \A d \in Conn, f \in Entry : QueuedOK(d, f) => QueuedOK(d, f)'
    PROVE  QueuesOK'
  <1>1. \A d \in Conn, f \in Entry : Queued(d, f)' => QueuedOK(d, f)'
    BY DEF QueuesOK, Queued
  <1> QED
    BY <1>1 DEF QueuesOK, Alike

\* A statement is queued.
LEMMA QueuesAppend ==
    ASSUME TypeOK, QueuesOK, NEW c \in Conn, NEW e \in Entry,
           queue' = [queue EXCEPT ![c] = Append(@, e)],
           \A d \in Conn, f \in Entry : QueuedOK(d, f) => QueuedOK(d, f)' /\ ~Alike(f, e),
           QueuedOK(c, e)'
    PROVE  QueuesOK' /\ queue' \in [Conn -> Seq(Entry)]
  <1>1. /\ queue'[c] \in Seq(Entry) /\ Len(queue'[c]) = Len(queue[c]) + 1
        /\ \A i \in 1..Len(queue[c]) : queue'[c][i] = queue[c][i]
        /\ queue'[c][Len(queue[c]) + 1] = e
        /\ \A d \in Conn \ {c} : queue'[d] = queue[d]
        /\ queue' \in [Conn -> Seq(Entry)]
    <2>1. queue \in [Conn -> Seq(Entry)]
      BY DEF TypeOK, Entry
    <2> QED
      BY <2>1, AppendProperties
  <1>2. Len(queue[c]) \in Nat
    BY QueueFacts
  <1>3. \A d \in Conn, f \in Entry : Queued(d, f)' => Queued(d, f) \/ (d = c /\ f = e)
    BY <1>1, <1>2 DEF Queued
  <1>4. \A d \in Conn, f \in Entry : Queued(d, f)' => QueuedOK(d, f)'
    BY <1>3 DEF QueuesOK
  <1>5. \A d \in Conn : \A i \in 1..Len(queue[d]) : ~Alike(queue[d][i], e)
    BY QueueFacts DEF QueuesOK, Queued
  <1>6. ASSUME NEW a \in Conn, NEW b \in Conn,
               NEW i \in 1..Len(queue'[a]), NEW j \in 1..Len(queue'[b]),
               Alike(queue'[a][i], queue'[b][j])
        PROVE  a = b /\ i = j
    <2>1. \/ a = c /\ i = Len(queue[c]) + 1
          \/ i \in 1..Len(queue[a]) /\ queue'[a][i] = queue[a][i]
      BY <1>1, <1>2
    <2>2. \/ b = c /\ j = Len(queue[c]) + 1
          \/ j \in 1..Len(queue[b]) /\ queue'[b][j] = queue[b][j]
      BY <1>1, <1>2
    <2>3. CASE /\ i \in 1..Len(queue[a]) /\ queue'[a][i] = queue[a][i]
               /\ j \in 1..Len(queue[b]) /\ queue'[b][j] = queue[b][j]
      BY <1>6, <2>3 DEF QueuesOK
    <2> QED
      BY <1>1, <1>5, <1>6, <2>1, <2>2, <2>3 DEF Alike
  <1> QED
    BY <1>1, <1>4, <1>6 DEF QueuesOK, Alike

\* A connection takes the next statement of its queue: the only one of its kind.
LEMMA QueuesTail ==
    ASSUME TypeOK, QueuesOK, NEW c \in Conn, queue[c] # <<>>,
           queue' = [queue EXCEPT ![c] = Tail(@)],
           \A d \in Conn, f \in Entry :
              QueuedOK(d, f) /\ ~Alike(f, Head(queue[c])) => QueuedOK(d, f)'
    PROVE  QueuesOK' /\ queue' \in [Conn -> Seq(Entry)]
  <1>1. /\ queue'[c] \in Seq(Entry) /\ Len(queue'[c]) = Len(queue[c]) - 1
        /\ Len(queue[c]) \in Nat \ {0}
        /\ \A i \in 1..Len(queue'[c]) : queue'[c][i] = queue[c][i + 1]
        /\ Head(queue[c]) = queue[c][1]
        /\ \A d \in Conn \ {c} : queue'[d] = queue[d]
        /\ queue' \in [Conn -> Seq(Entry)]
    <2>1. queue \in [Conn -> Seq(Entry)]
      BY DEF TypeOK, Entry
    <2> QED
      BY <2>1, HeadTailProperties, EmptySeq
  <1>2. \A d \in Conn, f \in Entry : Queued(d, f)' => Queued(d, f) /\ ~Alike(f, Head(queue[c]))
    <2> SUFFICES ASSUME NEW d \in Conn, NEW f \in Entry, NEW i \in 1..Len(queue'[d]),
                        queue'[d][i] = f
                 PROVE  Queued(d, f) /\ ~Alike(f, Head(queue[c]))
      BY DEF Queued
    <2>1. CASE d = c
      <3>1. i + 1 \in 1..Len(queue[c]) /\ queue[c][i + 1] = f /\ 1 \in 1..Len(queue[c])
        BY <1>1, <2>1
      <3> QED
        BY <1>1, <2>1, <3>1 DEF Queued, QueuesOK
    <2>2. CASE d # c
      <3>1. i \in 1..Len(queue[d]) /\ queue[d][i] = f /\ 1 \in 1..Len(queue[c])
        BY <1>1, <2>2
      <3> QED
        BY <1>1, <2>2, <3>1 DEF Queued, QueuesOK
    <2> QED
      BY <2>1, <2>2
  <1>3. \A d \in Conn, f \in Entry : Queued(d, f)' => QueuedOK(d, f)'
    BY <1>2 DEF QueuesOK
  <1>4. ASSUME NEW a \in Conn, NEW b \in Conn,
               NEW i \in 1..Len(queue'[a]), NEW j \in 1..Len(queue'[b]),
               Alike(queue'[a][i], queue'[b][j])
        PROVE  a = b /\ i = j
    <2>1. PICK k \in 1..Len(queue[a]) :
            queue'[a][i] = queue[a][k] /\ k = IF a = c THEN i + 1 ELSE i
      BY <1>1
    <2>2. PICK l \in 1..Len(queue[b]) :
            queue'[b][j] = queue[b][l] /\ l = IF b = c THEN j + 1 ELSE j
      BY <1>1
    <2>3. a = b /\ k = l
      BY <1>4, <2>1, <2>2 DEF QueuesOK
    <2> QED
      BY <2>1, <2>2, <2>3
  <1> QED
    BY <1>1, <1>3, <1>4 DEF QueuesOK, Alike

-----------------------------------------------------------------------------
(* Steps that leave connections, queues and transactions alone. *)

LEMMA TInvInit == Init => TInv
  <1> SUFFICES ASSUME Init PROVE TInv
    OBVIOUS
  <1>1. TypeOK
    BY StatementFacts, EmptySeq DEF Init, TypeOK
  <1>2. Owners /\ WorkOK
    BY SentinelAssumption DEF Init, Owners, WorkOK
  <1>3. QueuesOK
    BY EmptySeq DEF Init, QueuesOK, Queued
  <1>4. RowsTogether /\ OkIsDurable
    BY DEF Init, RowsTogether, OkIsDurable
  <1>5. \A r \in Request : PositionOK(r)
    BY DEF Init, PositionOK
  <1> QED
    BY <1>1, <1>2, <1>3, <1>4, <1>5 DEF TInv

\* A step of the process, or none.
LEMMA TInvPhase ==
    ASSUME TInv, phase' \in {"serving", "draining", "closing", "exited"},
           UNCHANGED <<gone, tenantTx, settled, pool, database, pc, step>>
    PROVE  TInv'
  <1> USE DEF pool, database
  <1>1. TypeOK'
    BY DEF TInv, TypeOK
  <1>2. Owners' /\ WorkOK' /\ RowsTogether' /\ OkIsDurable'
    BY DEF TInv, Owners, WorkOK, RowsTogether, OkIsDurable
  <1>3. QueuesOK'
    BY QueuesSame DEF TInv, QueuedOK
  <1>4. \A r \in Request : PositionOK(r)'
    BY DEF TInv, PositionOK
  <1> QED
    BY <1>1, <1>2, <1>3, <1>4 DEF TInv

\* A request moves on, neither from an awaited statement nor to its start.
LEMMA TInvMove ==
    ASSUME TInv, NEW r \in Request, NEW p, pc' = [pc EXCEPT ![r] = p], TypeOK',
           UNCHANGED <<gone, conn, database, step>>,
           pc[r] \notin {"begin", "await"}, p # "begin",
           p = "commit" => r \notin settled, p = "ok" => r \in gone,
           settled \subseteq settled', settled' \subseteq settled \cup {r},
           tenantTx' \subseteq tenantTx \cup {r}, PositionOK(r)'
    PROVE  TInv'
  <1> USE DEF database
  <1>1. pc'[r] = p /\ \A q \in Request \ {r} : pc'[q] = pc[q]
    BY DEF TInv, TypeOK
  <1>2. Owners'
    BY <1>1 DEF TInv, Owners, TypeOK
  <1>3. QueuesOK'
    <2>1. \A d \in Conn, f \in Entry : QueuedOK(d, f) => QueuedOK(d, f)'
      BY <1>1 DEF QueuedOK, Entry
    <2> QED
      BY <2>1, QueuesSame DEF TInv
  <1>4. WorkOK' /\ RowsTogether'
    BY DEF TInv, WorkOK, RowsTogether
  <1>5. OkIsDurable'
    BY <1>1 DEF TInv, OkIsDurable
  <1>6. \A q \in Request \ {r} : PositionOK(q)'
    BY <1>1 DEF TInv, PositionOK
  <1> QED
    BY <1>2, <1>3, <1>4, <1>5, <1>6 DEF TInv

LEMMA TInvMiddleware ==
    ASSUME TInv, NEW r \in Request,
           Arrive(r) \/ Admit(r) \/ AskUser(r) \/ Authorize(r)
    PROVE  TInv'
  <1>1. PICK p \in {"connect", "authorize", "lookup", "handler", "error"} :
          pc' = [pc EXCEPT ![r] = p] /\ (p = "connect" => pc[r] = "idle")
    BY DEF Arrive, Admit, AskUser, Authorize, Goto
  <1>2. /\ pc[r] \in {"idle", "check", "authorize", "lookup"}
        /\ UNCHANGED <<phase, gone, settled, conn, database, step>>
        /\ tenantTx \subseteq tenantTx' /\ tenantTx' \subseteq tenantTx \cup {r}
        /\ pc[r] # "check" => tenantTx' = tenantTx
        /\ second' \in [Request -> Conn \cup {NoConn}]
    BY DEF Arrive, Admit, AskUser, Authorize, process, pool, TInv, TypeOK
  <1>3. TypeOK'
    BY <1>1, <1>2 DEF TInv, TypeOK, database, Answered
  <1>4. PositionOK(r)'
    BY <1>1, <1>2 DEF TInv, TypeOK, PositionOK, Answered
  <1> QED
    BY <1>1, <1>2, <1>3, <1>4, TInvMove

LEMMA TInvAnswer ==
    ASSUME TInv, NEW r \in Request, Throw(r) \/ Pass(r) \/ Intercept(r)
    PROVE  TInv'
  <1>1. PICK p \in {"error", "ok", "commit"} :
          /\ pc' = [pc EXCEPT ![r] = p]
          /\ p = "ok" => r \in settled
          /\ p = "commit" => r \notin settled /\ r \in settled' /\ conn[r] # NoConn
                               /\ step[r] \notin Statement
    BY DEF Throw, Pass, Intercept, Goto
  <1>2. /\ pc[r] = "handler"
        /\ UNCHANGED <<phase, gone, tenantTx, pool, database, step>>
        /\ settled \subseteq settled' /\ settled' \subseteq (settled \cup {r}) \cap tenantTx
    BY DEF Throw, Pass, Intercept, process, pool, TInv, TypeOK
  <1>3. TypeOK'
    BY <1>1, <1>2 DEF TInv, TypeOK, pool, database, Answered
  <1>4. pc'[r] = p
    BY <1>1 DEF TInv, TypeOK
  <1>5. p = "ok" => r \in gone
    BY <1>1, <1>2 DEF TInv, PositionOK, Answered
  <1>6. PositionOK(r)'
    BY <1>1, <1>2, <1>4 DEF TInv, PositionOK, Answered, pool
  <1> QED
    BY <1>1, <1>2, <1>3, <1>5, <1>6, TInvMove DEF pool

-----------------------------------------------------------------------------
(* A connection is borrowed and its transaction begun. *)

LEMMA TInvConnect ==
    ASSUME TInv, NEW r \in Request, Connect(r)
    PROVE  TInv'
  <1>1. PICK c \in Conn : ~Held(c) /\ conn' = [conn EXCEPT ![r] = c]
    BY DEF Connect
  <1>2. /\ pc[r] = "connect" /\ pc' = [pc EXCEPT ![r] = "begin"]
        /\ UNCHANGED <<process, second, database, step>>
    BY DEF Connect, Goto
  <1>3. /\ pc'[r] = "begin" /\ conn'[r] = c
        /\ \A q \in Request \ {r} : pc'[q] = pc[q] /\ conn'[q] = conn[q]
    BY <1>1, <1>2 DEF TInv, TypeOK
  <1>4. TypeOK'
    BY <1>1, <1>2 DEF TInv, TypeOK, process, database
  <1>5. r \notin tenantTx /\ r \notin settled /\ conn[r] = NoConn
    BY <1>2 DEF TInv, PositionOK, TypeOK
  <1>6. Owners'
    <2>1. \A q \in Request : conn[q] # c
      BY <1>1 DEF Held
    <2>2. \A q \in Request, u \in Request : conn'[q] = conn'[u] /\ conn'[q] # NoConn => q = u
      BY <1>3, <2>1 DEF TInv, Owners
    <2>3. \A d \in Conn : session[d] # NoRequest => session[d] \in Request \ {r}
      BY <1>5, SentinelAssumption DEF TInv, Owners, TypeOK
    <2>4. \A d \in Conn : session'[d] # NoRequest =>
            conn'[session'[d]] = d /\ pc'[session'[d]] # "begin"
      BY <1>2, <1>3, <2>3 DEF TInv, Owners, database
    <2>5. \A q \in Request : conn'[q] # NoConn /\ pc'[q] # "begin" => session'[conn'[q]] = q
      BY <1>2, <1>3 DEF TInv, Owners, database
    <2> QED
      BY <2>2, <2>4, <2>5 DEF Owners
  <1>7. QueuesOK'
    <2>1. \A d \in Conn, f \in Entry : QueuedOK(d, f) => QueuedOK(d, f)'
      BY <1>2, <1>3, <1>5 DEF QueuedOK, Entry, process
    <2> QED
      BY <1>2, <2>1, QueuesSame DEF TInv, database
  <1>8. WorkOK' /\ RowsTogether' /\ OkIsDurable'
    BY <1>2, <1>3 DEF TInv, WorkOK, RowsTogether, OkIsDurable, database, process
  <1>9. \A q \in Request : PositionOK(q)'
    BY <1>2, <1>3, <1>5, SentinelAssumption DEF TInv, PositionOK, process
  <1> QED
    BY <1>4, <1>6, <1>7, <1>8, <1>9 DEF TInv

LEMMA TInvBegin ==
    ASSUME TInv, NEW r \in Request, Begin(r)
    PROVE  TInv'
  <1> DEFINE c == conn[r]
  <1>1. /\ pc[r] = "begin" /\ pc' = [pc EXCEPT ![r] = "check"]
        /\ session' = [session EXCEPT ![c] = r]
        /\ UNCHANGED <<process, pool, queue, work, committed, step>>
    BY DEF Begin, Goto
  <1>2. c \in Conn
    BY <1>1 DEF TInv, TypeOK, PositionOK
  <1>3. /\ pc'[r] = "check" /\ \A q \in Request \ {r} : pc'[q] = pc[q]
        /\ session'[c] = r /\ \A d \in Conn \ {c} : session'[d] = session[d]
    BY <1>1, <1>2 DEF TInv, TypeOK
  <1>4. session[c] = NoRequest
    BY <1>1, <1>2, SentinelAssumption DEF TInv, Owners, TypeOK
  <1>5. TypeOK'
    BY <1>1, <1>2 DEF TInv, TypeOK, process, pool
  <1>6. r \notin tenantTx /\ r \notin settled
    BY <1>1 DEF TInv, PositionOK, TypeOK
  <1>7. Owners'
    <2>1. \A d \in Conn : session'[d] # NoRequest =>
            conn'[session'[d]] = d /\ pc'[session'[d]] # "begin"
      <3> SUFFICES ASSUME NEW d \in Conn, session'[d] # NoRequest
                   PROVE  conn[session'[d]] = d /\ pc'[session'[d]] # "begin"
        BY <1>1 DEF pool
      <3>1. CASE d = c
        BY <1>3, <3>1
      <3>2. CASE d # c
        BY <1>1, <1>3, <3>2 DEF TInv, Owners, TypeOK
      <3> QED
        BY <3>1, <3>2
    <2>2. \A q \in Request : conn'[q] # NoConn /\ pc'[q] # "begin" => session'[conn'[q]] = q
      <3> SUFFICES ASSUME NEW q \in Request, conn[q] # NoConn, pc'[q] # "begin"
                   PROVE  session'[conn[q]] = q
        BY <1>1 DEF pool
      <3>1. conn[q] \in Conn
        BY DEF TInv, TypeOK
      <3>2. CASE q = r
        BY <1>3, <3>2
      <3>3. CASE q # r
        BY <1>2, <1>3, <3>1, <3>3, SentinelAssumption DEF TInv, Owners
      <3> QED
        BY <3>2, <3>3
    <2> QED
      BY <1>1, <2>1, <2>2 DEF TInv, Owners, pool
  <1>8. QueuesOK'
    <2>1. \A d \in Conn, f \in Entry : QueuedOK(d, f) => QueuedOK(d, f)'
      BY <1>1, <1>3, <1>6 DEF QueuedOK, Entry, process, pool
    <2> QED
      BY <1>1, <2>1, QueuesSame DEF TInv
  <1>9. WorkOK'
    <2>1. step[r] = 1
      BY <1>1 DEF TInv, PositionOK
    <2>2. work[c] = {}
      BY <1>2, <1>4 DEF TInv, WorkOK
    <2>3. 1..(step[r] - 1) = {}
      BY <2>1
    <2>4. \A d \in Conn \ {c} : work[d] = IF session'[d] = NoRequest THEN {}
                                          ELSE 1..(step[session'[d]] - 1)
      BY <1>3 DEF TInv, WorkOK
    <2> QED
      BY <1>1, <1>3, <2>2, <2>3, <2>4, SentinelAssumption DEF WorkOK
  <1>10. RowsTogether' /\ OkIsDurable'
    BY <1>1, <1>3 DEF TInv, RowsTogether, OkIsDurable, process
  <1>11. \A q \in Request : PositionOK(q)'
    BY <1>1, <1>2, <1>3, <1>6, SentinelAssumption DEF TInv, PositionOK, process, pool
  <1> QED
    BY <1>5, <1>7, <1>8, <1>9, <1>10, <1>11 DEF TInv

-----------------------------------------------------------------------------
(* A transaction ends, and its connection is released in the same step. *)

LEMMA OwnersRelease ==
    ASSUME TypeOK, Owners, WorkOK, NEW r \in Request, conn[r] # NoConn,
           session' = [session EXCEPT ![conn[r]] = NoRequest],
           work' = [work EXCEPT ![conn[r]] = {}],
           conn' = [conn EXCEPT ![r] = NoConn],
           \A q \in Request \ {r} : pc'[q] = pc[q],
           step' = step
    PROVE  Owners' /\ WorkOK'
  <1> DEFINE c == conn[r]
  <1>1. /\ c \in Conn /\ session'[c] = NoRequest /\ work'[c] = {} /\ conn'[r] = NoConn
        /\ \A d \in Conn \ {c} : session'[d] = session[d] /\ work'[d] = work[d]
        /\ \A q \in Request \ {r} : conn'[q] = conn[q]
    BY DEF TypeOK
  <1>2. \A d \in Conn \ {c} : session[d] # NoRequest => session[d] \in Request \ {r}
    BY DEF TypeOK, Owners
  <1>3. \A q \in Request \ {r} : conn[q] # c /\ conn[q] \in Conn \cup {NoConn}
    BY DEF TypeOK, Owners
  <1>4. \A q, u \in Request : conn'[q] = conn'[u] /\ conn'[q] # NoConn => q = u
    BY <1>1 DEF Owners
  <1>5. \A d \in Conn : session'[d] # NoRequest =>
          conn'[session'[d]] = d /\ pc'[session'[d]] # "begin"
    BY <1>1, <1>2 DEF Owners
  <1>6. \A q \in Request : conn'[q] # NoConn /\ pc'[q] # "begin" => session'[conn'[q]] = q
    BY <1>1, <1>3 DEF Owners
  <1>7. WorkOK'
    BY <1>1 DEF WorkOK
  <1> QED
    BY <1>4, <1>5, <1>6, <1>7 DEF Owners

LEMMA TInvTurnAway ==
    ASSUME TInv, NEW r \in Request, TurnAway(r)
    PROVE  TInv'
  <1>1. /\ pc[r] \in {"begin", "check"} /\ pc' = [pc EXCEPT ![r] = "error"]
        /\ conn' = [conn EXCEPT ![r] = NoConn]
        /\ UNCHANGED <<process, second, queue, committed, step>>
    BY DEF TurnAway, Release, Goto
  <1>2. conn[r] \in Conn /\ conn[r] # NoConn
    BY <1>1 DEF TInv, TypeOK, PositionOK
  <1>3. /\ pc'[r] = "error" /\ conn'[r] = NoConn
        /\ \A q \in Request \ {r} : pc'[q] = pc[q] /\ conn'[q] = conn[q]
    BY <1>1 DEF TInv, TypeOK
  <1>4. /\ session' = [session EXCEPT ![conn[r]] = NoRequest]
        /\ work' = [work EXCEPT ![conn[r]] = {}]
    <2>1. CASE session[conn[r]] = r
      BY <2>1 DEF TurnAway, EndTransaction
    <2>2. CASE session[conn[r]] # r
      <3>1. session[conn[r]] = NoRequest
        BY <1>2, <2>2 DEF TInv, Owners, TypeOK
      <3>2. work[conn[r]] = {}
        BY <1>2, <3>1 DEF TInv, WorkOK
      <3>3. session' = session /\ work' = work
        BY <2>2 DEF TurnAway
      <3> QED
        BY <1>2, <3>1, <3>2, <3>3 DEF TInv, TypeOK
    <2> QED
      BY <2>1, <2>2
  <1>5. Owners' /\ WorkOK'
    BY <1>1, <1>2, <1>3, <1>4, OwnersRelease DEF TInv
  <1>6. TypeOK'
    BY <1>1, <1>4 DEF TInv, TypeOK, process, Answered
  <1>7. r \notin tenantTx /\ r \notin settled
    BY <1>1 DEF TInv, PositionOK, TypeOK
  <1>8. QueuesOK'
    <2>1. \A d \in Conn, f \in Entry : QueuedOK(d, f) => QueuedOK(d, f)'
      BY <1>1, <1>3, <1>7 DEF QueuedOK, Entry, process
    <2> QED
      BY <1>1, <2>1, QueuesSame DEF TInv
  <1>9. RowsTogether' /\ OkIsDurable'
    BY <1>1, <1>3 DEF TInv, RowsTogether, OkIsDurable, process
  <1>10. \A q \in Request : PositionOK(q)'
    BY <1>1, <1>3, <1>7 DEF TInv, PositionOK, process, Answered
  <1> QED
    BY <1>5, <1>6, <1>8, <1>9, <1>10 DEF TInv

\* What a transaction has done when it commits.
LEMMA AllDone ==
    ASSUME TInv, NEW r \in Request, pc[r] = "commit"
    PROVE  conn[r] \in Conn /\ conn[r] # NoConn /\ work[conn[r]] = Statement
  <1>1. conn[r] \in Conn /\ conn[r] # NoConn
    BY DEF TInv, TypeOK, PositionOK
  <1>2. session[conn[r]] = r
    BY <1>1 DEF TInv, Owners
  <1>3. work[conn[r]] = 1..(step[r] - 1)
    BY <1>1, <1>2, SentinelAssumption DEF TInv, WorkOK
  <1>4. step[r] = Len(Script) + 1
    BY StatementFacts DEF TInv, TypeOK, PositionOK, Statement
  <1> QED
    BY <1>1, <1>3, <1>4, StatementFacts DEF Statement

LEMMA TInvCommit ==
    ASSUME TInv, NEW r \in Request, Commit(r) \/ CommitFails(r)
    PROVE  TInv'
  <1>1. /\ pc[r] = "commit"
        /\ session' = [session EXCEPT ![conn[r]] = NoRequest]
        /\ work' = [work EXCEPT ![conn[r]] = {}]
        /\ conn' = [conn EXCEPT ![r] = NoConn]
        /\ UNCHANGED <<process, second, queue, step>>
    BY DEF Commit, CommitFails, EndTransaction, Release
  <1>2. conn[r] \in Conn /\ conn[r] # NoConn /\ work[conn[r]] = Statement
    BY <1>1, AllDone
  <1>3. PICK p \in Answered, w \in {{}, Statement} :
          /\ pc' = [pc EXCEPT ![r] = p]
          /\ committed' = [committed EXCEPT ![r] = @ \cup w]
          /\ p = "ok" => w = Statement
    BY <1>2 DEF Commit, CommitFails, Goto, Answered
  <1>4. /\ pc'[r] = p /\ conn'[r] = NoConn /\ committed'[r] = committed[r] \cup w
        /\ \A q \in Request \ {r} :
             pc'[q] = pc[q] /\ conn'[q] = conn[q] /\ committed'[q] = committed[q]
    BY <1>1, <1>3 DEF TInv, TypeOK
  <1>5. Owners' /\ WorkOK'
    BY <1>1, <1>2, <1>4, OwnersRelease DEF TInv
  <1>6. TypeOK'
    BY <1>1, <1>3 DEF TInv, TypeOK, process, Answered
  <1>7. QueuesOK'
    <2>1. \A d \in Conn, f \in Entry : QueuedOK(d, f) => QueuedOK(d, f)'
      BY <1>1, <1>4 DEF QueuedOK, Entry, process
    <2> QED
      BY <1>1, <2>1, QueuesSame DEF TInv
  <1>8. RowsTogether'
    <2>1. Rows \cap committed'[r] \in {{}, Rows}
      BY <1>4, StatementFacts DEF TInv, RowsTogether
    <2> QED
      BY <1>4, <2>1 DEF TInv, RowsTogether
  <1>9. OkIsDurable'
    <2>1. p = "ok" => committed'[r] = Statement
      BY <1>3, <1>4 DEF TInv, TypeOK
    <2> QED
      BY <1>1, <1>4, <2>1 DEF TInv, OkIsDurable, process
  <1>10. \A q \in Request : PositionOK(q)'
    BY <1>1, <1>4 DEF TInv, PositionOK, process, Answered
  <1> QED
    BY <1>5, <1>6, <1>7, <1>8, <1>9, <1>10 DEF TInv

\* The queue of a session that idles is empty, and so holds no ROLLBACK.
LEMMA TInvIdleTimeout ==
    ASSUME TInv, NEW c \in Conn, IdleTimeout(c)
    PROVE  TInv'
  <1> DEFINE r == session[c]
  <1>1. /\ r # NoRequest /\ queue[c] = <<>> /\ pc[r] \notin {"check", "commit"}
        /\ session' = [session EXCEPT ![c] = NoRequest]
        /\ work' = [work EXCEPT ![c] = {}]
        /\ conn' = [conn EXCEPT ![r] = NoConn]
        /\ UNCHANGED <<process, second, queue, committed, pc, step>>
    BY DEF IdleTimeout, EndTransaction, Release
  <1>2. r \in Request /\ conn[r] = c /\ pc[r] # "begin"
    BY <1>1 DEF TInv, TypeOK, Owners
  <1>3. c # NoConn
    BY SentinelAssumption
  <1>4. conn'[r] = NoConn /\ \A q \in Request \ {r} : conn'[q] = conn[q]
    BY <1>1, <1>2 DEF TInv, TypeOK
  <1> HIDE DEF r
  <1>5. Owners' /\ WorkOK'
    BY <1>1, <1>2, <1>3, OwnersRelease DEF TInv
  <1>6. TypeOK'
    BY <1>1 DEF TInv, TypeOK, process
  <1>7. QueuesOK'
    <2>1. \A d \in Conn, f \in Entry : Queued(d, f)' => QueuedOK(d, f)'
      <3> SUFFICES ASSUME NEW d \in Conn, NEW f \in Entry, Queued(d, f)
                   PROVE  QueuedOK(d, f)'
        BY <1>1 DEF Queued
      <3>1. QueuedOK(d, f)
        BY DEF TInv, QueuesOK
      <3>2. d # c
        BY <1>1, EmptySeq DEF Queued
      <3> QED
        BY <1>1, <1>2, <1>4, <3>1, <3>2 DEF QueuedOK, Entry, process
    <2> QED
      BY <1>1, <2>1 DEF TInv, QueuesOK, Alike
  <1>8. RowsTogether' /\ OkIsDurable'
    BY <1>1 DEF TInv, RowsTogether, OkIsDurable, process
  <1>9. \A q \in Request : PositionOK(q)'
    BY <1>1, <1>2, <1>4 DEF TInv, PositionOK, process
  <1> QED
    BY <1>5, <1>6, <1>7, <1>8, <1>9 DEF TInv

-----------------------------------------------------------------------------
(* Statements are queued. *)

LEMMA TInvIssue ==
    ASSUME TInv, NEW r \in Request, Issue(r)
    PROVE  TInv'
  <1>1. /\ pc[r] = "handler" /\ pc' = [pc EXCEPT ![r] = "await"] /\ step[r] \in Statement
        /\ queue' = [queue EXCEPT ![conn[r]] = Append(@, [by |-> r, stmt |-> step[r]])]
        /\ conn[r] # NoConn
        /\ UNCHANGED <<process, pool, session, work, committed, step>>
    BY DEF Issue, Goto
  <1>2. conn[r] \in Conn
    BY <1>1 DEF TInv, TypeOK
  <1>c. PICK c \in Conn : c = conn[r]
    BY <1>2
  <1>e. PICK e \in Entry : e = [by |-> r, stmt |-> step[r]]
    BY <1>1 DEF Entry
  <1>q. queue' = [queue EXCEPT ![c] = Append(@, e)]
    BY <1>1, <1>c, <1>e
  <1>3. pc'[r] = "await" /\ \A q \in Request \ {r} : pc'[q] = pc[q]
    BY <1>1 DEF TInv, TypeOK
  <1>4. e.by = r /\ e.stmt = step[r] /\ e.stmt # ROLLBACK
    BY <1>1, <1>e, StatementFacts
  <1>5. QueuesOK' /\ queue' \in [Conn -> Seq(Entry)]
    <2>1. \A d \in Conn, f \in Entry : QueuedOK(d, f) => QueuedOK(d, f)' /\ ~Alike(f, e)
      BY <1>1, <1>3, <1>4 DEF QueuedOK, Alike, Entry, process, pool
    <2>2. QueuedOK(c, e)'
      BY <1>1, <1>3, <1>4, <1>c DEF QueuedOK, process, pool
    <2> QED
      BY <1>q, <2>1, <2>2, QueuesAppend DEF TInv
  <1>6. TypeOK'
    BY <1>1, <1>5 DEF TInv, TypeOK, process, pool, Entry
  <1>7. Owners'
    BY <1>1, <1>3 DEF TInv, Owners, TypeOK, pool
  <1>8. WorkOK' /\ RowsTogether' /\ OkIsDurable'
    BY <1>1, <1>3 DEF TInv, WorkOK, RowsTogether, OkIsDurable, process
  <1>9. \A q \in Request : PositionOK(q)'
    BY <1>1, <1>3 DEF TInv, PositionOK, process, pool, Answered
  <1> QED
    BY <1>5, <1>6, <1>7, <1>8, <1>9 DEF TInv

\* The handlers of finish and close.
LEMMA TInvRollback ==
    ASSUME TInv, NEW r \in Request, Finish(r) \/ Disconnect(r)
    PROVE  TInv'
  <1>e. PICK e \in Entry : e = [by |-> r, stmt |-> ROLLBACK]
    BY DEF Entry
  <1>1. /\ UNCHANGED <<phase, tenantTx, pool, session, work, committed, pc, step>>
        /\ gone \subseteq gone' /\ gone' \in SUBSET Request
    BY DEF Finish, Disconnect, TInv, TypeOK
  <1>2. CASE settled' = settled /\ queue' = queue
    <2>1. TypeOK'
      BY <1>1, <1>2 DEF TInv, TypeOK, pool
    <2>2. Owners' /\ WorkOK' /\ RowsTogether' /\ OkIsDurable'
      BY <1>1 DEF TInv, Owners, WorkOK, RowsTogether, OkIsDurable, pool
    <2>3. QueuesOK'
      BY <1>1, <1>2, QueuesSame DEF TInv, QueuedOK, pool
    <2>4. \A q \in Request : PositionOK(q)'
      BY <1>1, <1>2 DEF TInv, PositionOK, pool
    <2> QED
      BY <2>1, <2>2, <2>3, <2>4 DEF TInv
  <1>3. CASE /\ r \in tenantTx \ settled /\ settled' = settled \cup {r}
             /\ \/ conn[r] = NoConn /\ queue' = queue
                \/ conn[r] # NoConn /\ queue' = [queue EXCEPT ![conn[r]] = Append(@, e)]
             /\ pc[r] \in Answered \/ r \in gone'
    <2>1. pc[r] # "commit"
      BY <1>3 DEF TInv, PositionOK
    <2>2. QueuesOK' /\ queue' \in [Conn -> Seq(Entry)]
      <3>1. CASE queue' = queue
        <4>1. QueuesOK'
          BY <1>1, <1>3, <3>1, QueuesSame DEF TInv, QueuedOK, pool
        <4> QED
          BY <3>1, <4>1 DEF TInv, TypeOK, Entry
      <3>2. CASE conn[r] # NoConn /\ queue' = [queue EXCEPT ![conn[r]] = Append(@, e)]
        <4>1. PICK c \in Conn : c = conn[r]
          BY <3>2 DEF TInv, TypeOK
        <4>2. e.by = r /\ e.stmt = ROLLBACK
          BY <1>e
        <4>3. \A d \in Conn, f \in Entry : QueuedOK(d, f) => QueuedOK(d, f)' /\ ~Alike(f, e)
          BY <1>1, <1>3, <4>2 DEF QueuedOK, Alike, Entry, pool
        <4>4. QueuedOK(c, e)'
          BY <1>1, <1>3, <2>1, <4>1, <4>2 DEF QueuedOK, pool
        <4> QED
          BY <3>2, <4>1, <4>3, <4>4, QueuesAppend DEF TInv
      <3> QED
        BY <1>3, <3>1, <3>2
    <2>3. TypeOK'
      BY <1>1, <1>3, <2>2 DEF TInv, TypeOK, pool, Entry
    <2>4. Owners' /\ WorkOK' /\ RowsTogether' /\ OkIsDurable'
      BY <1>1 DEF TInv, Owners, WorkOK, RowsTogether, OkIsDurable, pool
    <2>5. \A q \in Request : PositionOK(q)'
      BY <1>1, <1>3 DEF TInv, PositionOK, pool
    <2> QED
      BY <2>2, <2>3, <2>4, <2>5 DEF TInv
  <1>4. pc[r] \in Answered \/ r \in gone'
    BY DEF Finish, Disconnect
  <1> QED
    BY <1>2, <1>3, <1>4, <1>e DEF Finish, Disconnect, Rollback

-----------------------------------------------------------------------------
(* A connection runs the next statement. *)

\* The entry a connection is about to run.
LEMMA HeadFacts ==
    ASSUME TInv, NEW c \in Conn, queue[c] # <<>>
    PROVE  /\ Head(queue[c]) \in Entry /\ QueuedOK(c, Head(queue[c]))
           /\ Asker(c) \in Request
           /\ Due(c) # ROLLBACK => /\ pc[Asker(c)] = "await" /\ Due(c) = step[Asker(c)]
                                   /\ Due(c) \in Statement
                                   /\ conn[Asker(c)] \in {c, NoConn}
           /\ Due(c) = ROLLBACK => /\ conn[Asker(c)] = c /\ Asker(c) \in settled
                                   /\ pc[Asker(c)] # "commit"
  <1>1. queue[c] \in Seq(Entry)
    BY QueueFacts DEF TInv
  <1>2. Head(queue[c]) \in Entry /\ 1 \in 1..Len(queue[c]) /\ Head(queue[c]) = queue[c][1]
    BY <1>1, HeadTailProperties, EmptySeq
  <1>3. Queued(c, Head(queue[c]))
    BY <1>2 DEF Queued
  <1>4. QueuedOK(c, Head(queue[c]))
    BY <1>2, <1>3 DEF TInv, QueuesOK
  <1> QED
    BY <1>2, <1>4 DEF QueuedOK, Entry, Asker, Due

\* A statement is run: its request, and nothing else that is queued, moves on.
LEMMA QueuesRun ==
    ASSUME TInv, NEW c \in Conn, Shift(c), Due(c) # ROLLBACK, NEW p, p # "commit",
           pc' = [pc EXCEPT ![Asker(c)] = p],
           \A q \in Request \ {Asker(c)} : step'[q] = step[q],
           UNCHANGED <<process, pool>>
    PROVE  QueuesOK' /\ queue' \in [Conn -> Seq(Entry)]
  <1> DEFINE r == Asker(c)
  <1>1. queue[c] # <<>> /\ queue' = [queue EXCEPT ![c] = Tail(@)]
    BY DEF Shift
  <1>2. r \in Request /\ Head(queue[c]).by = r /\ Head(queue[c]).stmt # ROLLBACK
    BY <1>1, HeadFacts DEF Asker, Due
  <1>3. pc'[r] = p /\ \A q \in Request \ {r} : pc'[q] = pc[q]
    BY <1>2 DEF TInv, TypeOK
  <1> HIDE DEF r
  <1>4. \A d \in Conn, f \in Entry :
          QueuedOK(d, f) /\ ~Alike(f, Head(queue[c])) => QueuedOK(d, f)'
    BY <1>2, <1>3 DEF QueuedOK, Alike, Entry, process, pool, r
  <1> QED
    BY <1>1, <1>4, QueuesTail DEF TInv

LEMMA TInvRun ==
    ASSUME TInv, NEW c \in Conn, RunInside(c) \/ RunAlone(c)
    PROVE  TInv'
  <1> DEFINE r == Asker(c)
  <1>1. /\ Shift(c) /\ queue[c] # <<>> /\ Due(c) # ROLLBACK
        /\ pc' = [pc EXCEPT ![r] = "handler"] /\ step' = [step EXCEPT ![r] = @ + 1]
        /\ UNCHANGED <<process, pool, session>>
    BY StatementFacts DEF RunInside, RunAlone, Resume, Goto, Shift
  <1>2. /\ r \in Request /\ pc[r] = "await" /\ Due(c) = step[r] /\ Due(c) \in Statement
        /\ conn[r] \in {c, NoConn}
    BY <1>1, HeadFacts
  <1> HIDE DEF r
  <1>3. /\ pc'[r] = "handler" /\ step'[r] = step[r] + 1
        /\ \A q \in Request \ {r} : pc'[q] = pc[q] /\ step'[q] = step[q]
    BY <1>1, <1>2 DEF TInv, TypeOK
  <1>4. QueuesOK' /\ queue' \in [Conn -> Seq(Entry)]
    BY <1>1, <1>3, QueuesRun DEF r
  <1>5. step' \in [Request -> 1..(Len(Script) + 1)]
    BY <1>1, <1>2, StatementFacts DEF TInv, TypeOK, Statement
  <1>6. Owners'
    BY <1>1, <1>2, <1>3 DEF TInv, Owners, TypeOK, pool
  <1>7. \A q \in Request : PositionOK(q)'
    BY <1>1, <1>2, <1>3 DEF TInv, PositionOK, process, pool, Answered
  <1>8. CASE RunInside(c)
    <2>1. /\ session[c] = r /\ work' = [work EXCEPT ![c] = @ \cup {Due(c)}]
          /\ committed' = committed
      BY <1>8 DEF RunInside, r
    <2>2. TypeOK'
      BY <1>1, <1>2, <1>4, <1>5, <2>1 DEF TInv, TypeOK, process, pool, Entry
    <2>3. WorkOK'
      <3>1. work[c] = 1..(step[r] - 1)
        BY <1>2, <2>1, SentinelAssumption DEF TInv, WorkOK
      <3>2. work'[c] = 1..step[r]
        <4>1. work'[c] = (1..(step[r] - 1)) \cup {step[r]}
          BY <1>2, <2>1, <3>1 DEF TInv, TypeOK
        <4>2. step[r] \in Nat \ {0}
          BY <1>2, StatementFacts
        <4>3. \A n \in Nat \ {0} : (1..(n - 1)) \cup {n} = 1..n
          <5> SUFFICES ASSUME NEW n \in Nat \ {0}
                       PROVE  \A i : i \in (1..(n - 1)) \cup {n} <=> i \in 1..n
            OBVIOUS
          <5> QED
            OBVIOUS
        <4> QED
          BY <4>1, <4>2, <4>3
      <3>3. work'[c] = 1..(step'[r] - 1)
        <4>1. step[r] \in Nat
          BY <1>2, StatementFacts
        <4>2. step'[r] = step[r] + 1
          BY <1>3
        <4>3. \A n \in Nat : (n + 1) - 1 = n
          OBVIOUS
        <4> QED
          BY <3>2, <4>1, <4>2, <4>3
      <3>4. \A d \in Conn \ {c} : session[d] # NoRequest => session[d] \in Request \ {r}
        BY <1>2, <2>1, SentinelAssumption DEF TInv, Owners, TypeOK
      <3>5. \A d \in Conn \ {c} :
              work'[d] = IF session[d] = NoRequest THEN {} ELSE 1..(step'[session[d]] - 1)
        <4>1. \A d \in Conn \ {c} : work'[d] = work[d]
          BY <2>1 DEF TInv, TypeOK
        <4>2. \A d \in Conn \ {c} : session[d] # NoRequest => step'[session[d]] = step[session[d]]
          BY <1>3, <3>4
        <4> QED
          BY <4>1, <4>2 DEF TInv, WorkOK
      <3>6. work'[c] = IF session[c] = NoRequest THEN {} ELSE 1..(step'[session[c]] - 1)
        BY <1>2, <2>1, <3>3, SentinelAssumption
      <3> QED
        BY <1>1, <3>5, <3>6 DEF WorkOK
    <2>4. RowsTogether' /\ OkIsDurable'
      BY <1>1, <1>3, <2>1 DEF TInv, RowsTogether, OkIsDurable, process
    <2> QED
      BY <1>4, <1>6, <1>7, <2>2, <2>3, <2>4 DEF TInv
  <1>9. CASE RunAlone(c)
    <2>1. /\ session[c] # r /\ work' = work /\ Due(c) \in Events
          /\ committed' = [committed EXCEPT ![r] = @ \cup {Due(c)}]
      BY <1>9 DEF RunAlone, r
    <2>2. TypeOK'
      BY <1>1, <1>2, <1>4, <1>5, <2>1 DEF TInv, TypeOK, process, pool, Entry
    <2>3. conn[r] = NoConn
      BY <1>2, <2>1, SentinelAssumption DEF TInv, Owners
    <2>4. WorkOK'
      <3>1. \A d \in Conn : session[d] # NoRequest => session[d] \in Request \ {r}
        BY <2>3, SentinelAssumption DEF TInv, Owners, TypeOK
      <3> QED
        BY <1>1, <1>3, <2>1, <3>1 DEF TInv, WorkOK
    <2>5. RowsTogether'
      <3>1. Rows \cap committed'[r] = Rows \cap committed[r]
        BY <1>2, <2>1, StatementFacts DEF TInv, TypeOK
      <3>2. \A q \in Request \ {r} : committed'[q] = committed[q]
        BY <1>2, <2>1 DEF TInv, TypeOK
      <3> QED
        BY <3>1, <3>2 DEF TInv, RowsTogether
    <2>6. OkIsDurable'
      BY <1>1, <1>2, <1>3, <2>1 DEF TInv, OkIsDurable, process, TypeOK
    <2> QED
      BY <1>4, <1>6, <1>7, <2>2, <2>4, <2>5, <2>6 DEF TInv
  <1> QED
    BY <1>8, <1>9

LEMMA TInvRunFails ==
    ASSUME TInv, NEW c \in Conn, RunFails(c)
    PROVE  TInv'
  <1> DEFINE r == Asker(c)
  <1>1. /\ Shift(c) /\ queue[c] # <<>> /\ Due(c) # ROLLBACK
        /\ pc' = [pc EXCEPT ![r] = "error"]
        /\ UNCHANGED <<process, pool, session, work, committed, step>>
    BY DEF RunFails, Goto, Shift
  <1>2. r \in Request /\ pc[r] = "await"
    BY <1>1, HeadFacts
  <1> HIDE DEF r
  <1>3. pc'[r] = "error" /\ \A q \in Request \ {r} : pc'[q] = pc[q]
    BY <1>1, <1>2 DEF TInv, TypeOK
  <1>4. QueuesOK' /\ queue' \in [Conn -> Seq(Entry)]
    BY <1>1, <1>3, QueuesRun DEF r
  <1>5. TypeOK'
    BY <1>1, <1>2, <1>4 DEF TInv, TypeOK, process, pool, Entry, Answered
  <1>6. Owners'
    BY <1>1, <1>2, <1>3 DEF TInv, Owners, TypeOK, pool
  <1>7. WorkOK' /\ RowsTogether' /\ OkIsDurable'
    BY <1>1, <1>3 DEF TInv, WorkOK, RowsTogether, OkIsDurable, process
  <1>8. \A q \in Request : PositionOK(q)'
    BY <1>1, <1>2, <1>3 DEF TInv, PositionOK, process, pool, Answered
  <1> QED
    BY <1>4, <1>5, <1>6, <1>7, <1>8 DEF TInv

LEMMA TInvRolledBack ==
    ASSUME TInv, NEW c \in Conn, RolledBack(c)
    PROVE  TInv'
  <1> DEFINE r == Asker(c)
  <1>1. /\ queue[c] # <<>> /\ queue' = [queue EXCEPT ![c] = Tail(@)] /\ Due(c) = ROLLBACK
        /\ session' = [session EXCEPT ![c] = NoRequest]
        /\ work' = [work EXCEPT ![c] = {}]
        /\ conn' = [conn EXCEPT ![r] = NoConn]
        /\ UNCHANGED <<process, second, committed, pc, step>>
    BY DEF RolledBack, EndTransaction, Release, Shift
  <1>2. r \in Request /\ conn[r] = c /\ pc[r] # "commit" /\ r \in settled
    BY <1>1, HeadFacts
  <1>3. Head(queue[c]).by = r /\ Head(queue[c]).stmt = ROLLBACK
    BY <1>1 DEF Asker, Due
  <1> HIDE DEF r
  <1>4. conn'[r] = NoConn /\ \A q \in Request \ {r} : conn'[q] = conn[q]
    BY <1>1, <1>2 DEF TInv, TypeOK
  <1>5. c # NoConn
    BY SentinelAssumption
  <1>6. Owners' /\ WorkOK'
    BY <1>1, <1>2, <1>5, OwnersRelease DEF TInv
  <1>7. QueuesOK' /\ queue' \in [Conn -> Seq(Entry)]
    <2>1. \A d \in Conn, f \in Entry :
            QueuedOK(d, f) /\ ~Alike(f, Head(queue[c])) => QueuedOK(d, f)'
      BY <1>1, <1>3, <1>4 DEF QueuedOK, Alike, Entry, process
    <2> QED
      BY <1>1, <2>1, QueuesTail DEF TInv
  <1>8. TypeOK'
    BY <1>1, <1>7 DEF TInv, TypeOK, process, Entry
  <1>9. RowsTogether' /\ OkIsDurable'
    BY <1>1 DEF TInv, RowsTogether, OkIsDurable, process
  <1>10. \A q \in Request : PositionOK(q)'
    <2>1. pc[r] \notin {"begin", "check"}
      BY <1>2 DEF TInv, TypeOK, PositionOK
    <2> QED
      BY <1>1, <1>2, <1>4, <2>1 DEF TInv, PositionOK, process
  <1> QED
    BY <1>6, <1>7, <1>8, <1>9, <1>10 DEF TInv

-----------------------------------------------------------------------------
(* Theorems. *)

LEMMA TInvNext == TInv /\ [Next]_vars => TInv'
  <1> SUFFICES ASSUME TInv, [Next]_vars PROVE TInv'
    OBVIOUS
  <1>1. CASE UNCHANGED vars
    BY <1>1, TInvPhase DEF vars, process, TInv, TypeOK
  <1>2. CASE Shutdown \/ DestroyPool \/ Exit
    BY <1>2, TInvPhase DEF Shutdown, DestroyPool, Exit
  <1>3. CASE Exited
    BY <1>1, <1>3 DEF Exited
  <1>4. ASSUME NEW r \in Request, Arrive(r) \/ RequestStep(r) \/ Finish(r) \/ Disconnect(r)
        PROVE  TInv'
    BY <1>4, TInvMiddleware, TInvAnswer, TInvConnect, TInvBegin, TInvTurnAway, TInvCommit,
       TInvIssue, TInvRollback DEF RequestStep
  <1>5. ASSUME NEW c \in Conn, ConnStep(c) \/ IdleTimeout(c)
        PROVE  TInv'
    BY <1>5, TInvIdleTimeout, TInvRun, TInvRunFails, TInvRolledBack DEF ConnStep
  <1> QED
    BY <1>1, <1>2, <1>3, <1>4, <1>5 DEF Next

\* The inductive invariant of the tenant transaction holds in every reachable state.
THEOREM TenantTxInvariance == Spec => []TInv
  BY TInvInit, TInvNext, PTL DEF Spec

\* Positions, connections, queues and tables keep their types.
THEOREM TenantTxTypeCorrect == Spec => []TypeOK
  <1>1. TInv => TypeOK
    BY DEF TInv
  <1> QED
    BY <1>1, TenantTxInvariance, PTL

\* Whatever brought it back, a connection of the pool has no open transaction and
\* carries no tenant to the request that borrows it next.
THEOREM TenantTxPoolIsClean == Spec => []PoolIsClean
  <1>1. TInv => PoolIsClean
    BY DEF TInv, TypeOK, Owners, PoolIsClean, Held
  <1> QED
    BY <1>1, TenantTxInvariance, PTL

\* The rows of a request are committed together or not at all, wherever its
\* client disconnects.
THEOREM TenantTxRowsTogether == Spec => []RowsTogether
  <1>1. TInv => RowsTogether
    BY DEF TInv
  <1> QED
    BY <1>1, TenantTxInvariance, PTL

\* A client that is there when it gets a success finds all its writes committed.
THEOREM TenantTxOkIsDurable == Spec => []OkIsDurable
  <1>1. TInv => OkIsDurable
    BY DEF TInv
  <1> QED
    BY <1>1, TenantTxInvariance, PTL
=============================================================================
