------------------------- MODULE TenantTxProperties -------------------------
(***************************************************************************)
(* What the transaction of a request promises to its client, to the other   *)
(* requests that share the pool, and to the process.                        *)
(***************************************************************************)
EXTENDS TenantTx

(* A connection in the pool has no open transaction, and so carries no      *)
(* app.tenant_id to the request that borrows it next, whichever of commit,  *)
(* rollback, refusal and timeout brought it back: the reason the middleware *)
(* gives for rolling back before it releases.                               *)
PoolIsClean == \A c \in Conn : ~Held(c) => session[c] = NoRequest

(* A client that is there when it gets a success finds everything its       *)
(* request wrote committed: the interceptor commits before the response.    *)
OkIsDurable ==
    \A r \in Request \ gone : pc[r] = "ok" => committed[r] = Statement

(* The rows of a request are committed together or not at all, though a     *)
(* disconnect rolls back and releases under the running handler, which goes *)
(* on to issue statements: row-level security refuses the rows it writes    *)
(* outside its transaction.                                                 *)
RowsTogether == \A r \in Request : Rows \cap committed[r] \in {{}, Rows}

(* Requests that hold a connection and wait for a second one, to load the   *)
(* user, end all the same, although all of them may wait at once.           *)
RequestsEnd ==
    \A r \in Request :
        pc[r] # "idle" ~> (pc[r] \in Answered \/ phase = "exited")

(* A shutdown ends, whatever was running, borrowed or waiting.              *)
ShutdownEnds == phase = "draining" ~> phase = "exited"

(* The event of a change is committed only with the change, as the comments *)
(* of the outbox say.                                                       *)
EventWithItsChange ==
    \A r \in Request : Events \cap committed[r] # {} => Rows \subseteq committed[r]
=============================================================================
