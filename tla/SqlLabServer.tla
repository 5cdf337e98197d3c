---------------------------- MODULE SqlLabServer ----------------------------
(***************************************************************************)
(* The server side of SQL Lab: one POST to sql_json, from the insert of    *)
(* its `query` row to its HTTP reply.                                      *)
(*                                                                         *)
(* Four parties act on a query q:                                          *)
(*   - the request handler (views/core.py sql_json), which inserts the row *)
(*     and then, inside _Timeout (timeout_decorator.py), forks a child and *)
(*     polls a one-slot queue until the answer is there or time is up;     *)
(*   - the child, which runs get_sql_results (sql_lab.py): it executes the *)
(*     statement, writes the outcome to the row, and puts it in the queue; *)
(*   - the metadata database, which applies a COMMIT once it has been      *)
(*     sent, whether or not the sender is still alive;                     *)
(*   - the warehouse, which runs a statement once it has been sent, again  *)
(*     whether or not anyone still waits for it.                           *)
(* Any process may be killed at any point.                                 *)
(***************************************************************************)
EXTENDS Naturals

CONSTANTS
    Query,      \* the queries, each named by the client_id of its request
    Table,      \* the table names a CREATE TABLE AS request may ask for
    NoTable,    \* no table name
    NoQuery,    \* no query: the creator of a table that does not exist
    MaxClock    \* bound on the clock, for model checking

ASSUME NoTableAssumption == NoTable \notin Table
ASSUME NoQueryAssumption == NoQuery \notin Query
ASSUME MaxClockAssumption == MaxClock \in Nat

VARIABLES
    \* The metadata database: committed columns of the row of q.
    status,     \* "absent" before the insert, then a QueryStatus
    tmpTable,   \* tmp_table_name
    changedOn,  \* changed_on
    \* The child's transaction.
    pending,    \* the flushed but uncommitted write, or NoWrite
    commitSent, \* a COMMIT is on its way to the database
    \* The processes.
    handler,    \* where the request handler is
    child,      \* where the child is
    outcome,    \* what the child's call of get_sql_results came to
    queue,      \* the pipe from child to handler
    expired,    \* the time limit of the call has passed
    answer,     \* what the HTTP reply says
    \* The warehouse.
    ctas,       \* the request asks for CREATE TABLE AS
    target,     \* the table name it asks for
    statement,  \* the progress of the statement in the warehouse
    creator,    \* creator[t]: the query whose statement created table t
    clock

rowVars       == <<status, tmpTable, changedOn>>
txVars        == <<pending, commitSent>>
handlerVars   == <<handler, expired, answer>>
childVars     == <<child, outcome, queue>>
requestVars   == <<ctas, target>>
warehouseVars == <<statement, creator>>
vars == <<rowVars, txVars, handlerVars, childVars, requestVars,
          warehouseVars, clock>>

-----------------------------------------------------------------------------
RowStatus    == {"absent", "running", "success", "failed"}
HandlerState == {"idle", "inserted", "waiting", "ready", "getting",
                 "answered", "gone"}
ChildState   == {"none", "start", "executing", "executed", "flushed",
                 "committing", "reply", "writing", "done", "dead"}
Outcome      == {"none", "ok", "failed", "raised"}
Answer       == {"none", "success", "failed", "raised", "timeout", "lost"}
StatementState == {"none", "sent", "ok", "error"}

Settled == {"success", "failed"}

(* What the browser can tell about a reply.                                *)
httpReply ==
    [q \in Query |-> CASE answer[q] = "none" -> "none"
                       [] answer[q] = "success" -> "results"
                       [] OTHER -> "error"]

Write == [status : {"running", "success", "failed"},
          table : Table \cup {NoTable}, stamp : Nat]
NoWrite == [status |-> "none", table |-> NoTable, stamp |-> 0]

TypeOK ==
    /\ status \in [Query -> RowStatus]
    /\ tmpTable \in [Query -> Table \cup {NoTable}]
    /\ changedOn \in [Query -> Nat]
    /\ pending \in [Query -> Write \cup {NoWrite}]
    /\ commitSent \in [Query -> BOOLEAN]
    /\ handler \in [Query -> HandlerState]
    /\ child \in [Query -> ChildState]
    /\ outcome \in [Query -> Outcome]
    /\ queue \in [Query -> {"empty", "partial", "full"}]
    /\ expired \in [Query -> BOOLEAN]
    /\ answer \in [Query -> Answer]
    /\ ctas \in [Query -> BOOLEAN]
    /\ target \in [Query -> Table \cup {NoTable}]
    /\ statement \in [Query -> StatementState]
    /\ creator \in [Table -> Query \cup {NoQuery}]
    /\ clock \in Nat

Init ==
    /\ status = [q \in Query |-> "absent"]
    /\ tmpTable = [q \in Query |-> NoTable]
    /\ changedOn = [q \in Query |-> 0]
    /\ pending = [q \in Query |-> NoWrite]
    /\ commitSent = [q \in Query |-> FALSE]
    /\ handler = [q \in Query |-> "idle"]
    /\ child = [q \in Query |-> "none"]
    /\ outcome = [q \in Query |-> "none"]
    /\ queue = [q \in Query |-> "empty"]
    /\ expired = [q \in Query |-> FALSE]
    /\ answer = [q \in Query |-> "none"]
    /\ ctas = [q \in Query |-> FALSE]
    /\ target = [q \in Query |-> NoTable]
    /\ statement = [q \in Query |-> "none"]
    /\ creator = [t \in Table |-> NoQuery]
    /\ clock = 0

-----------------------------------------------------------------------------
(* The request handler.                                                    *)

(* Insert and commit the row, already RUNNING.  Only a CREATE TABLE AS     *)
(* request names a table, and it may leave the name empty.                 *)
SqlJson(q) ==
    /\ handler[q] = "idle"
    /\ \E c \in BOOLEAN, t \in Table \cup {NoTable} :
          /\ t # NoTable => c
          /\ ctas' = [ctas EXCEPT ![q] = c]
          /\ target' = [target EXCEPT ![q] = t]
          /\ tmpTable' = [tmpTable EXCEPT ![q] = t]
    /\ status' = [status EXCEPT ![q] = "running"]
    /\ changedOn' = [changedOn EXCEPT ![q] = clock]
    /\ handler' = [handler EXCEPT ![q] = "inserted"]
    /\ UNCHANGED <<txVars, expired, answer, childVars, warehouseVars, clock>>

Reply(q, a) ==
    /\ handler' = [handler EXCEPT ![q] = "answered"]
    /\ answer' = [answer EXCEPT ![q] = a]

(* _Timeout.__call__ up to its polling loop.                               *)
StartProcess(q) ==
    /\ handler[q] = "inserted"
    /\ handler' = [handler EXCEPT ![q] = "waiting"]
    /\ child' = [child EXCEPT ![q] = "start"]
    /\ UNCHANGED <<rowVars, txVars, expired, answer, outcome, queue,
                   requestVars, warehouseVars, clock>>

(* The fork itself may fail; nobody is left to touch the row.              *)
StartFails(q) ==
    /\ handler[q] = "inserted"
    /\ Reply(q, "raised")
    /\ UNCHANGED <<rowVars, txVars, expired, childVars, requestVars,
                   warehouseVars, clock>>

(* time.time() passes start + limit.  The handler only looks at the clock  *)
(* while it polls.                                                         *)
Expire(q) ==
    /\ handler[q] \in {"waiting", "ready"}
    /\ ~expired[q]
    /\ expired' = [expired EXCEPT ![q] = TRUE]
    /\ UNCHANGED <<rowVars, txVars, handler, answer, childVars, requestVars,
                   warehouseVars, clock>>

ChildAlive(q) == child[q] \notin {"none", "done", "dead"}

(* The child's connection goes with it, and with the connection whatever   *)
(* was flushed and not yet sent for commit.                                *)
Terminate(q) ==
    /\ child' = [child EXCEPT ![q] = IF ChildAlive(q) THEN "dead" ELSE @]
    /\ pending' = [pending EXCEPT ![q] = IF commitSent[q] THEN @ ELSE NoWrite]

(* Mutant of Cancel: the error is raised only if there is a process left   *)
(* to terminate.                                                           *)
CancelOnlyIfAlive(q) ==
    /\ handler[q] \in {"waiting", "ready"}
    /\ expired[q]
    /\ ChildAlive(q)
    /\ Terminate(q)
    /\ Reply(q, "timeout")
    /\ UNCHANGED <<rowVars, commitSent, expired, outcome, queue, requestVars,
                   warehouseVars, clock>>

(* `ready` looks at the clock before it looks at the queue: an answer that *)
(* is already there is discarded.                                          *)
Cancel(q) ==
    /\ handler[q] \in {"waiting", "ready"}
    /\ expired[q]
    /\ Terminate(q)
    /\ Reply(q, "timeout")
    /\ UNCHANGED <<rowVars, commitSent, expired, outcome, queue, requestVars,
                   warehouseVars, clock>>

Ready(q) ==
    /\ handler[q] = "waiting"
    /\ ~expired[q]
    /\ queue[q] # "empty"
    /\ handler' = [handler EXCEPT ![q] = "ready"]
    /\ UNCHANGED <<rowVars, txVars, expired, answer, childVars, requestVars,
                   warehouseVars, clock>>

(* `value` evaluates `ready` once more, then blocks in Queue.get, which no *)
(* longer looks at the clock.                                              *)
Value(q) ==
    /\ handler[q] = "ready"
    /\ ~expired[q]
    /\ handler' = [handler EXCEPT ![q] = "getting"]
    /\ UNCHANGED <<rowVars, txVars, expired, answer, childVars, requestVars,
                   warehouseVars, clock>>

Get(q) ==
    /\ handler[q] = "getting"
    /\ queue[q] = "full"
    /\ Reply(q, IF outcome[q] = "ok" THEN "success" ELSE outcome[q])
    /\ UNCHANGED <<rowVars, txVars, expired, childVars, requestVars,
                   warehouseVars, clock>>

(* The web worker dies.  A forked child survives it.                       *)
WorkerDies(q) ==
    /\ handler[q] \in {"inserted", "waiting", "ready", "getting"}
    /\ handler' = [handler EXCEPT ![q] = "gone"]
    /\ answer' = [answer EXCEPT ![q] = "lost"]
    /\ UNCHANGED <<rowVars, txVars, expired, childVars, requestVars,
                   warehouseVars, clock>>

-----------------------------------------------------------------------------
(* The child: get_sql_results inside _target.                              *)

(* An exception reaches _target; an open transaction is never committed.   *)
Raise(q) ==
    /\ child' = [child EXCEPT ![q] = "reply"]
    /\ outcome' = [outcome EXCEPT ![q] = "raised"]
    /\ pending' = [pending EXCEPT ![q] = NoWrite]
    /\ UNCHANGED commitSent

SendCommit(q, o) ==
    /\ child' = [child EXCEPT ![q] = "committing"]
    /\ outcome' = [outcome EXCEPT ![q] = o]
    /\ commitSent' = [commitSent EXCEPT ![q] = TRUE]

(* Mutant of HandleError: stores a status the readers do not know of.      *)
HandleErrorTimedOut(q) ==
    /\ pending' = [pending EXCEPT ![q] =
                     [status |-> "timed_out", table |-> NoTable,
                      stamp |-> clock]]
    /\ SendCommit(q, "failed")

(* handle_error: write FAILED, drop the table name, commit, raise.         *)
HandleError(q) ==
    /\ pending' = [pending EXCEPT ![q] =
                     [status |-> "failed", table |-> NoTable, stamp |-> clock]]
    /\ SendCommit(q, "failed")

(* Everything before engine.execute.  Refused statements and templates     *)
(* that do not render go through handle_error; anything else that raises   *)
(* does not.  Generating a name for an unnamed table always raises, since  *)
(* start_time holds milliseconds and datetime.fromtimestamp wants seconds. *)
RejectStatement(q) ==
    /\ child[q] = "start"
    /\ HandleError(q)
    /\ UNCHANGED <<rowVars, handlerVars, queue, requestVars, warehouseVars,
                   clock>>

PrepareRaises(q) ==
    /\ child[q] = "start"
    /\ Raise(q)
    /\ UNCHANGED <<rowVars, handlerVars, queue, requestVars, warehouseVars,
                   clock>>

SendStatement(q) ==
    /\ child[q] = "start"
    /\ ctas[q] => target[q] # NoTable
    /\ child' = [child EXCEPT ![q] = "executing"]
    /\ statement' = [statement EXCEPT ![q] = "sent"]
    /\ UNCHANGED <<rowVars, txVars, handlerVars, outcome, queue, requestVars,
                   creator, clock>>

(* engine.execute raises: the warehouse refused the statement, or the      *)
(* connection broke and nobody knows what became of it.                    *)
ExecuteRaises(q) ==
    /\ child[q] = "executing"
    /\ statement[q] # "ok"
    /\ HandleError(q)
    /\ UNCHANGED <<rowVars, handlerVars, queue, requestVars, warehouseVars,
                   clock>>

(* Mutant of ExecuteReturns: an error of the warehouse goes unnoticed.     *)
ExecuteReturnsUnchecked(q) ==
    /\ child[q] = "executing"
    /\ statement[q] # "sent"
    /\ child' = [child EXCEPT ![q] = "executed"]
    /\ pending' = [pending EXCEPT ![q] =
                     [status |-> "running", table |-> tmpTable[q],
                      stamp |-> clock]]
    /\ UNCHANGED <<rowVars, commitSent, handlerVars, outcome, queue,
                   requestVars, warehouseVars, clock>>

(* engine.execute returned; status RUNNING and executed_sql are flushed.   *)
ExecuteReturns(q) ==
    /\ child[q] = "executing"
    /\ statement[q] = "ok"
    /\ child' = [child EXCEPT ![q] = "executed"]
    /\ pending' = [pending EXCEPT ![q] =
                     [status |-> "running", table |-> tmpTable[q],
                      stamp |-> clock]]
    /\ UNCHANGED <<rowVars, commitSent, handlerVars, outcome, queue,
                   requestVars, warehouseVars, clock>>

(* handle_cursor of the Presto engine commits progress as it polls.  New   *)
(* progress stamps the row again; without it the flushed stamp is kept.    *)
CommitProgress(q) ==
    /\ child[q] = "executed"
    /\ \/ changedOn' = [changedOn EXCEPT ![q] = clock]
       \/ /\ pending[q] # NoWrite
          /\ changedOn' = [changedOn EXCEPT ![q] = pending[q].stamp]
    /\ pending' = [pending EXCEPT ![q] = NoWrite]
    /\ UNCHANGED <<status, tmpTable, commitSent, handlerVars, childVars,
                   requestVars, warehouseVars, clock>>

(* The rows are fetched and SUCCESS is flushed, with its stamp.            *)
FetchAndFlush(q) ==
    /\ child[q] = "executed"
    /\ child' = [child EXCEPT ![q] = "flushed"]
    /\ pending' = [pending EXCEPT ![q] =
                     [status |-> "success", table |-> tmpTable[q],
                      stamp |-> clock]]
    /\ UNCHANGED <<rowVars, commitSent, handlerVars, outcome, queue,
                   requestVars, warehouseVars, clock>>

(* Mutant of AfterExecuteRaises: handle_error covers the whole function,   *)
(* what follows the commit included.                                       *)
AfterExecuteRaisesHandled(q) ==
    /\ child[q] \in {"executed", "flushed", "reply"}
    /\ HandleError(q)
    /\ UNCHANGED <<rowVars, handlerVars, queue, requestVars, warehouseVars,
                   clock>>

(* Polling the cursor, fetching, building the data frame or serialising    *)
(* the payload raises: handle_error is not involved.                       *)
AfterExecuteRaises(q) ==
    /\ child[q] \in {"executed", "flushed"}
    /\ Raise(q)
    /\ UNCHANGED <<rowVars, handlerVars, queue, requestVars, warehouseVars,
                   clock>>

(* Mutant of CommitSuccess: the payload is returned before the commit is   *)
(* acknowledged.                                                           *)
CommitSuccessUnacknowledged(q) ==
    /\ child[q] = "flushed"
    /\ child' = [child EXCEPT ![q] = "reply"]
    /\ outcome' = [outcome EXCEPT ![q] = "ok"]
    /\ commitSent' = [commitSent EXCEPT ![q] = TRUE]
    /\ UNCHANGED <<rowVars, pending, handlerVars, queue, requestVars,
                   warehouseVars, clock>>

(* The payload is built; the transaction is sent for commit.               *)
CommitSuccess(q) ==
    /\ child[q] = "flushed"
    /\ SendCommit(q, "ok")
    /\ UNCHANGED <<rowVars, pending, handlerVars, queue, requestVars,
                   warehouseVars, clock>>

(* session.commit() raises.  The child cannot know whether the database    *)
(* still applies what it was sent.                                         *)
CommitRaises(q) ==
    /\ child[q] = "committing"
    /\ child' = [child EXCEPT ![q] = "reply"]
    /\ outcome' = [outcome EXCEPT ![q] = "raised"]
    /\ UNCHANGED <<rowVars, txVars, handlerVars, queue, requestVars,
                   warehouseVars, clock>>

(* _target puts the outcome.  Queue.put hands it to a feeder thread, which *)
(* writes it into a pipe: the reader may see the beginning of a long       *)
(* answer before its end.                                                  *)
BeginPut(q) ==
    /\ child[q] = "reply"
    /\ child' = [child EXCEPT ![q] = "writing"]
    /\ queue' = [queue EXCEPT ![q] = "partial"]
    /\ UNCHANGED <<rowVars, txVars, handlerVars, outcome, requestVars,
                   warehouseVars, clock>>

EndPut(q) ==
    /\ child[q] = "writing"
    /\ child' = [child EXCEPT ![q] = "done"]
    /\ queue' = [queue EXCEPT ![q] = "full"]
    /\ UNCHANGED <<rowVars, txVars, handlerVars, outcome, requestVars,
                   warehouseVars, clock>>

(* The child dies of its own: out of memory, a crash of the driver.        *)
ChildDies(q) ==
    /\ ChildAlive(q)
    /\ Terminate(q)
    /\ UNCHANGED <<rowVars, commitSent, handlerVars, outcome, queue,
                   requestVars, warehouseVars, clock>>

-----------------------------------------------------------------------------
(* The metadata database.                                                  *)

(* A COMMIT that was sent takes effect, and a child waiting for it goes on.*)
ApplyCommit(q) ==
    /\ commitSent[q]
    /\ status' = [status EXCEPT ![q] = pending[q].status]
    /\ tmpTable' = [tmpTable EXCEPT ![q] = pending[q].table]
    /\ changedOn' = [changedOn EXCEPT ![q] = pending[q].stamp]
    /\ pending' = [pending EXCEPT ![q] = NoWrite]
    /\ commitSent' = [commitSent EXCEPT ![q] = FALSE]
    /\ child' = [child EXCEPT ![q] = IF @ = "committing" THEN "reply" ELSE @]
    /\ UNCHANGED <<handlerVars, outcome, queue, requestVars, warehouseVars,
                   clock>>

(* The COMMIT never arrives, or is refused.                                *)
LoseCommit(q) ==
    /\ commitSent[q]
    /\ child[q] # "committing"
    /\ pending' = [pending EXCEPT ![q] = NoWrite]
    /\ commitSent' = [commitSent EXCEPT ![q] = FALSE]
    /\ UNCHANGED <<rowVars, handlerVars, childVars, requestVars,
                   warehouseVars, clock>>

-----------------------------------------------------------------------------
(* The warehouse.  CREATE TABLE fails when the table exists.               *)

StatementSucceeds(q) ==
    /\ statement[q] = "sent"
    /\ IF ctas[q]
       THEN /\ creator[target[q]] = NoQuery
            /\ creator' = [creator EXCEPT ![target[q]] = q]
       ELSE UNCHANGED creator
    /\ statement' = [statement EXCEPT ![q] = "ok"]
    /\ UNCHANGED <<rowVars, txVars, handlerVars, childVars, requestVars,
                   clock>>

StatementFails(q) ==
    /\ statement[q] = "sent"
    /\ statement' = [statement EXCEPT ![q] = "error"]
    /\ UNCHANGED <<rowVars, txVars, handlerVars, childVars, requestVars,
                   creator, clock>>

Tick ==
    /\ clock < MaxClock
    /\ clock' = clock + 1
    /\ UNCHANGED <<rowVars, txVars, handlerVars, childVars, requestVars,
                   warehouseVars>>

-----------------------------------------------------------------------------
HandlerStep(q) ==
    \/ SqlJson(q) \/ StartProcess(q) \/ StartFails(q) \/ Expire(q)
    \/ Cancel(q) \/ Ready(q) \/ Value(q) \/ Get(q) \/ WorkerDies(q)

ChildStep(q) ==
    \/ RejectStatement(q) \/ PrepareRaises(q) \/ SendStatement(q)
    \/ ExecuteRaises(q) \/ ExecuteReturns(q) \/ CommitProgress(q)
    \/ FetchAndFlush(q) \/ AfterExecuteRaises(q) \/ CommitSuccess(q)
    \/ CommitRaises(q) \/ BeginPut(q) \/ EndPut(q) \/ ChildDies(q)

StoreStep(q) ==
    \/ ApplyCommit(q) \/ LoseCommit(q)
    \/ StatementSucceeds(q) \/ StatementFails(q)

Next ==
    \/ Tick
    \/ \E q \in Query : HandlerStep(q) \/ ChildStep(q) \/ StoreStep(q)

Spec == Init /\ [][Next]_vars

(* What is sure to happen: time passes, the handler keeps polling, and a   *)
(* child that is alive finishes writing its answer.  Nothing is assumed of *)
(* the warehouse, of the metadata database, or of the child before that.   *)
Fairness ==
    \A q \in Query :
        /\ WF_vars(StartProcess(q) \/ StartFails(q))
        /\ WF_vars(Expire(q))
        /\ WF_vars(Cancel(q))
        /\ WF_vars(Get(q))
        /\ WF_vars(EndPut(q))

FairSpec == Spec /\ Fairness

-----------------------------------------------------------------------------
(* An error the user is told of may leave the row in any state, but a      *)
(* reply with results means that SUCCESS is committed, and the error of    *)
(* handle_error means that FAILED is: the row a later poll or search       *)
(* returns never contradicts the reply.                                    *)
AnswerMatchesRow ==
    \A q \in Query : answer[q] \in Settled => status[q] = answer[q]

(* A CREATE TABLE AS query recorded as SUCCESS, whose row names the table  *)
(* the CSV download and the chart builder go on to read, created that      *)
(* table itself: two requests asking for one name never both succeed.      *)
SuccessOwnsTable ==
    \A q \in Query :
        ctas[q] /\ status[q] = "success" =>
            /\ tmpTable[q] # NoTable
            /\ creator[tmpTable[q]] = q

(* The row and the reply behave as QueryLifecycle says they do.            *)
Lifecycle == INSTANCE QueryLifecycle WITH reply <- httpReply
ImplementsLifecycle == Lifecycle!Spec

(* A handler blocked in Queue.get on an answer whose writer has died.      *)
(* It holds the writing end of the pipe itself, so it never sees its end.  *)
TornAnswer(q) ==
    handler[q] = "getting" /\ queue[q] = "partial" /\ child[q] = "dead"

(* Every request is answered, however long its statement runs and whatever *)
(* becomes of its child, unless the child dies halfway through writing its *)
(* answer.                                                                 *)
CallEndsUnlessTorn ==
    \A q \in Query :
        handler[q] = "inserted" ~> answer[q] # "none" \/ TornAnswer(q)

(* _Timeout as its documentation describes it: once the limit has passed   *)
(* the call ends ...                                                       *)
CallEnds ==
    \A q \in Query : handler[q] = "inserted" ~> answer[q] # "none"

(* ... and with it the execution: a request answered with the timeout      *)
(* error changes neither its row nor the warehouse any more.               *)
TimeoutEndsExecution ==
    [][\A q \in Query :
          answer[q] = "timeout" =>
              /\ status'[q] = status[q]
              /\ statement'[q] = statement[q]]_vars
-----------------------------------------------------------------------------
(* The inductive invariant, in parts: what holds at the places the         *)
(* handler, the child and the transaction of a query can be in together.   *)

HandlerInv(q) ==
    /\ status[q] = "absent" <=> handler[q] = "idle"
    /\ child[q] = "none" =>
          status[q] \in {"absent", "running"} /\ ~commitSent[q]
    /\ handler[q] \in {"idle", "inserted"} =>
          child[q] = "none" /\ queue[q] = "empty"
    /\ answer[q] = "none" <=> handler[q] \notin {"answered", "gone"}
    /\ answer[q] \in Settled => status[q] = answer[q]

ChildInv(q) ==
    /\ child[q] \in {"start", "executing", "executed", "flushed"} =>
          status[q] = "running" /\ ~commitSent[q]
    /\ child[q] = "committing" =>
          /\ commitSent[q]
          /\ outcome[q] = IF pending[q].status = "success"
                          THEN "ok" ELSE "failed"
    /\ child[q] \in {"reply", "writing", "done"} =>
          /\ outcome[q] # "none"
          /\ outcome[q] = "ok" => status[q] = "success"
          /\ outcome[q] = "failed" => status[q] = "failed"
    /\ queue[q] = "partial" => child[q] \in {"writing", "dead"}
    /\ queue[q] = "full" => child[q] = "done"

TransactionInv(q) ==
    /\ commitSent[q] => status[q] = "running" /\ pending[q].status \in Settled
    /\ pending[q] # NoWrite =>
          /\ commitSent[q] \/ child[q] \in {"executed", "flushed"}
          /\ changedOn[q] <= pending[q].stamp
          /\ pending[q].stamp <= clock
    /\ child[q] = "flushed" => pending[q].status = "success"
    /\ changedOn[q] <= clock

TableInv(q) ==
    /\ child[q] \in {"none", "start"} => statement[q] = "none"
    /\ status[q] = "running" => tmpTable[q] = target[q]
    /\ ctas[q] /\ statement[q] # "none" => target[q] # NoTable
    /\ ctas[q] /\ statement[q] = "ok" => creator[target[q]] = q
    /\ child[q] \in {"executed", "flushed"} => statement[q] = "ok"
    /\ pending[q].status = "success" =>
          statement[q] = "ok" /\ pending[q].table = target[q]
    /\ status[q] = "success" =>
          statement[q] = "ok" /\ tmpTable[q] = target[q]

Consistent ==
    \A q \in Query :
        HandlerInv(q) /\ ChildInv(q) /\ TransactionInv(q) /\ TableInv(q)
=============================================================================
