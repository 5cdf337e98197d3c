------------------------ MODULE SqlLabServerProofs ------------------------
(***************************************************************************)
(* Proofs about SqlLabServer, for any set of queries and of table names.   *)
(* First the types, then the inductive invariant Consistent, from which    *)
(* the two safety properties follow, then the refinement of                *)
(* QueryLifecycle.                                                         *)
(***************************************************************************)
EXTENDS SqlLabServer, TLAPS

USE NoTableAssumption, NoQueryAssumption, MaxClockAssumption

(* Every state reached has the types TypeOK gives: the statuses are the    *)
(* ones the readers of the row know, and the reply is one of the six.      *)
LEMMA TypeInit == Init => TypeOK
BY DEF Init, TypeOK, RowStatus, HandlerState, ChildState, Outcome, Answer,
       StatementState, Write, NoWrite

(* A COMMIT that is on its way writes a status, not the absence of one.    *)
LEMMA TypeStep == TypeOK /\ Consistent /\ [Next]_vars => TypeOK'
<1> USE DEF TypeOK, RowStatus, HandlerState, ChildState, Outcome, Answer,
        StatementState, Write, NoWrite, rowVars, txVars, handlerVars,
        childVars, requestVars, warehouseVars
<1> SUFFICES ASSUME TypeOK, Consistent, [Next]_vars
             PROVE  TypeOK'
    OBVIOUS
<1>1. ASSUME NEW q \in Query, SqlJson(q)
      PROVE  TypeOK'
    BY <1>1 DEF SqlJson
<1>2. ASSUME NEW q \in Query, StartProcess(q)
      PROVE  TypeOK'
    BY <1>2 DEF StartProcess
<1>3. ASSUME NEW q \in Query, StartFails(q)
      PROVE  TypeOK'
    BY <1>3 DEF StartFails, Reply
<1>4. ASSUME NEW q \in Query, Expire(q)
      PROVE  TypeOK'
    BY <1>4 DEF Expire
<1>5. ASSUME NEW q \in Query, Cancel(q)
      PROVE  TypeOK'
    BY <1>5 DEF Cancel, Reply, Terminate, ChildAlive
<1>6. ASSUME NEW q \in Query, Ready(q)
      PROVE  TypeOK'
    BY <1>6 DEF Ready
<1>7. ASSUME NEW q \in Query, Value(q)
      PROVE  TypeOK'
    BY <1>7 DEF Value
<1>8. ASSUME NEW q \in Query, Get(q)
      PROVE  TypeOK'
    BY <1>8 DEF Get, Reply
<1>9. ASSUME NEW q \in Query, WorkerDies(q)
      PROVE  TypeOK'
    BY <1>9 DEF WorkerDies
<1>10. ASSUME NEW q \in Query, RejectStatement(q)
      PROVE  TypeOK'
    BY <1>10 DEF RejectStatement, HandleError, SendCommit
<1>11. ASSUME NEW q \in Query, PrepareRaises(q)
      PROVE  TypeOK'
    BY <1>11 DEF PrepareRaises, Raise
<1>12. ASSUME NEW q \in Query, SendStatement(q)
      PROVE  TypeOK'
    BY <1>12 DEF SendStatement
<1>13. ASSUME NEW q \in Query, ExecuteRaises(q)
      PROVE  TypeOK'
    BY <1>13 DEF ExecuteRaises, HandleError, SendCommit
<1>14. ASSUME NEW q \in Query, ExecuteReturns(q)
      PROVE  TypeOK'
    BY <1>14 DEF ExecuteReturns
<1>15. ASSUME NEW q \in Query, CommitProgress(q)
      PROVE  TypeOK'
    BY <1>15 DEF CommitProgress
<1>16. ASSUME NEW q \in Query, FetchAndFlush(q)
      PROVE  TypeOK'
    BY <1>16 DEF FetchAndFlush
<1>17. ASSUME NEW q \in Query, AfterExecuteRaises(q)
      PROVE  TypeOK'
    BY <1>17 DEF AfterExecuteRaises, Raise
<1>18. ASSUME NEW q \in Query, CommitSuccess(q)
      PROVE  TypeOK'
    BY <1>18 DEF CommitSuccess, SendCommit
<1>19. ASSUME NEW q \in Query, CommitRaises(q)
      PROVE  TypeOK'
    BY <1>19 DEF CommitRaises
<1>20. ASSUME NEW q \in Query, BeginPut(q)
      PROVE  TypeOK'
    BY <1>20 DEF BeginPut
<1>21. ASSUME NEW q \in Query, EndPut(q)
      PROVE  TypeOK'
    BY <1>21 DEF EndPut
<1>22. ASSUME NEW q \in Query, ChildDies(q)
      PROVE  TypeOK'
    BY <1>22 DEF ChildDies, Terminate, ChildAlive
<1>23. ASSUME NEW q \in Query, ApplyCommit(q)
      PROVE  TypeOK'
    BY <1>23 DEF ApplyCommit, Consistent, TransactionInv, Settled
<1>24. ASSUME NEW q \in Query, LoseCommit(q)
      PROVE  TypeOK'
    BY <1>24 DEF LoseCommit
<1>25. ASSUME NEW q \in Query, StatementSucceeds(q)
      PROVE  TypeOK'
    BY <1>25 DEF StatementSucceeds
<1>26. ASSUME NEW q \in Query, StatementFails(q)
      PROVE  TypeOK'
    BY <1>26 DEF StatementFails
<1>27. CASE Tick
    BY <1>27 DEF Tick
<1>28. CASE UNCHANGED vars
    BY <1>28 DEF vars
<1>29. QED
    BY <1>1, <1>2, <1>3, <1>4, <1>5, <1>6, <1>7, <1>8, <1>9, <1>10, <1>11,
       <1>12, <1>13, <1>14, <1>15, <1>16, <1>17, <1>18, <1>19, <1>20, <1>21,
       <1>22, <1>23, <1>24, <1>25, <1>26, <1>27, <1>28
       DEF Next, HandlerStep, ChildStep, StoreStep

(* Before the first request nothing is in flight.                          *)
LEMMA ConsistentInit == Init => Consistent
<1> USE DEF Init, Settled, NoWrite
<1> SUFFICES ASSUME Init, NEW q \in Query
             PROVE  HandlerInv(q) /\ ChildInv(q) /\ TransactionInv(q)
                       /\ TableInv(q)
    BY DEF Consistent
<1>1. HandlerInv(q)
    BY DEF HandlerInv
<1>2. ChildInv(q)
    BY DEF ChildInv
<1>3. TransactionInv(q)
    BY DEF TransactionInv
<1>4. TableInv(q)
    BY DEF TableInv
<1>5. QED
    BY <1>1, <1>2, <1>3, <1>4

(* Every step of the handler, the child, the database and the warehouse    *)
(* keeps the places they are in consistent with each other.                *)
LEMMA ConsistentStep == TypeOK /\ Consistent /\ [Next]_vars => Consistent'
<1> USE DEF Consistent, HandlerInv, ChildInv, TransactionInv, TableInv,
        Settled, TypeOK, RowStatus, HandlerState, ChildState, Outcome, Answer,
        StatementState, Write, NoWrite, rowVars, txVars, handlerVars,
        childVars, requestVars, warehouseVars
<1> SUFFICES ASSUME TypeOK, Consistent, [Next]_vars
             PROVE  Consistent'
    OBVIOUS
<1>1. ASSUME NEW q \in Query, SqlJson(q)
      PROVE  Consistent'
    BY <1>1 DEF SqlJson
<1>2. ASSUME NEW q \in Query, StartProcess(q)
      PROVE  Consistent'
    BY <1>2 DEF StartProcess
<1>3. ASSUME NEW q \in Query, StartFails(q)
      PROVE  Consistent'
    BY <1>3 DEF StartFails, Reply
<1>4. ASSUME NEW q \in Query, Expire(q)
      PROVE  Consistent'
    BY <1>4 DEF Expire
<1>5. ASSUME NEW q \in Query, Cancel(q)
      PROVE  Consistent'
    BY <1>5 DEF Cancel, Reply, Terminate, ChildAlive
<1>6. ASSUME NEW q \in Query, Ready(q)
      PROVE  Consistent'
    BY <1>6 DEF Ready
<1>7. ASSUME NEW q \in Query, Value(q)
      PROVE  Consistent'
    BY <1>7 DEF Value
<1>8. ASSUME NEW q \in Query, Get(q)
      PROVE  Consistent'
    BY <1>8 DEF Get, Reply
<1>9. ASSUME NEW q \in Query, WorkerDies(q)
      PROVE  Consistent'
    BY <1>9 DEF WorkerDies
<1>10. ASSUME NEW q \in Query, RejectStatement(q)
      PROVE  Consistent'
    BY <1>10 DEF RejectStatement, HandleError, SendCommit
<1>11. ASSUME NEW q \in Query, PrepareRaises(q)
      PROVE  Consistent'
    BY <1>11 DEF PrepareRaises, Raise
<1>12. ASSUME NEW q \in Query, SendStatement(q)
      PROVE  Consistent'
    BY <1>12 DEF SendStatement
<1>13. ASSUME NEW q \in Query, ExecuteRaises(q)
      PROVE  Consistent'
    BY <1>13 DEF ExecuteRaises, HandleError, SendCommit
<1>14. ASSUME NEW q \in Query, ExecuteReturns(q)
      PROVE  Consistent'
    BY <1>14 DEF ExecuteReturns
<1>15. ASSUME NEW q \in Query, CommitProgress(q)
      PROVE  Consistent'
    BY <1>15 DEF CommitProgress
<1>16. ASSUME NEW q \in Query, FetchAndFlush(q)
      PROVE  Consistent'
    BY <1>16 DEF FetchAndFlush
<1>17. ASSUME NEW q \in Query, AfterExecuteRaises(q)
      PROVE  Consistent'
    BY <1>17 DEF AfterExecuteRaises, Raise
<1>18. ASSUME NEW q \in Query, CommitSuccess(q)
      PROVE  Consistent'
    BY <1>18 DEF CommitSuccess, SendCommit
<1>19. ASSUME NEW q \in Query, CommitRaises(q)
      PROVE  Consistent'
    BY <1>19 DEF CommitRaises
<1>20. ASSUME NEW q \in Query, BeginPut(q)
      PROVE  Consistent'
    BY <1>20 DEF BeginPut
<1>21. ASSUME NEW q \in Query, EndPut(q)
      PROVE  Consistent'
    BY <1>21 DEF EndPut
<1>22. ASSUME NEW q \in Query, ChildDies(q)
      PROVE  Consistent'
    BY <1>22 DEF ChildDies, Terminate, ChildAlive
<1>23. ASSUME NEW q \in Query, ApplyCommit(q)
      PROVE  Consistent'
  <2> SUFFICES ASSUME NEW p \in Query
               PROVE  HandlerInv(p)' /\ ChildInv(p)' /\ TransactionInv(p)'
                         /\ TableInv(p)'
      OBVIOUS
  <2> USE <1>23 DEF ApplyCommit
  <2>1. HandlerInv(p)'
      OBVIOUS
  <2>2. ChildInv(p)'
      OBVIOUS
  <2>3. TransactionInv(p)'
    <3>1. pending[q] # NoWrite /\ pending[q].stamp <= clock
        OBVIOUS
    <3>2. CASE p = q
        BY <3>1, <3>2
    <3>3. CASE p # q
        BY <3>3
    <3>4. QED
        BY <3>2, <3>3
  <2>4. TableInv(p)'
      OBVIOUS
  <2>5. QED
      BY <2>1, <2>2, <2>3, <2>4
<1>24. ASSUME NEW q \in Query, LoseCommit(q)
      PROVE  Consistent'
    BY <1>24 DEF LoseCommit
<1>25. ASSUME NEW q \in Query, StatementSucceeds(q)
      PROVE  Consistent'
    BY <1>25 DEF StatementSucceeds
<1>26. ASSUME NEW q \in Query, StatementFails(q)
      PROVE  Consistent'
    BY <1>26 DEF StatementFails
<1>27. CASE Tick
    BY <1>27 DEF Tick
<1>28. CASE UNCHANGED vars
    BY <1>28 DEF vars
<1>29. QED
    BY <1>1, <1>2, <1>3, <1>4, <1>5, <1>6, <1>7, <1>8, <1>9, <1>10, <1>11,
       <1>12, <1>13, <1>14, <1>15, <1>16, <1>17, <1>18, <1>19, <1>20, <1>21,
       <1>22, <1>23, <1>24, <1>25, <1>26, <1>27, <1>28
       DEF Next, HandlerStep, ChildStep, StoreStep

(* Consistent is inductive together with the types.                        *)
THEOREM InvariantCorrect == Spec => [](TypeOK /\ Consistent)
<1>1. QED
    BY TypeInit, TypeStep, ConsistentInit, ConsistentStep, PTL DEF Spec

(* Every state reached has the types TypeOK gives: the statuses are the    *)
(* ones the readers of the row know.                                       *)
THEOREM TypeCorrect == Spec => []TypeOK
<1>1. QED
    BY InvariantCorrect, PTL

(* A reply with results is only sent for a committed SUCCESS, and the      *)
(* error of handle_error only for a committed FAILED.                      *)
THEOREM AnswerMatchesRowCorrect == Spec => []AnswerMatchesRow
<1>1. Consistent => AnswerMatchesRow
    BY DEF Consistent, HandlerInv, AnswerMatchesRow
<1>2. QED
    BY <1>1, InvariantCorrect, PTL

(* A CREATE TABLE AS query recorded as SUCCESS created the table its row   *)
(* names.                                                                  *)
THEOREM SuccessOwnsTableCorrect == Spec => []SuccessOwnsTable
<1>1. Consistent => SuccessOwnsTable
    BY DEF Consistent, TableInv, SuccessOwnsTable
<1>2. QED
    BY <1>1, InvariantCorrect, PTL

-----------------------------------------------------------------------------
(* A step that leaves the row, the answer and the clock alone is a stutter *)
(* of QueryLifecycle.                                                      *)
LEMMA Stutter ==
    ASSUME UNCHANGED <<status, changedOn, answer, clock>>
    PROVE  UNCHANGED Lifecycle!vars
BY DEF Lifecycle!vars, httpReply

(* A first answer to q is a first reply to q.                              *)
LEMMA ReplyMaps ==
    ASSUME NEW q \in Query, NEW a \in Answer \ {"none"}, TypeOK,
           answer[q] = "none", answer' = [answer EXCEPT ![q] = a]
    PROVE  /\ httpReply[q] = "none"
           /\ httpReply' = [httpReply EXCEPT ![q] =
                               IF a = "success" THEN "results" ELSE "error"]
BY DEF TypeOK, Answer, httpReply

(* The replies that are not a success answer map to the error reply.       *)
LEMMA ErrorReplyMaps ==
    ASSUME NEW q \in Query, NEW a \in Answer \ {"none", "success"},
           TypeOK, Consistent,
           answer[q] = "none", answer' = [answer EXCEPT ![q] = a],
           handler[q] # "idle", UNCHANGED <<status, changedOn, clock>>
    PROVE  Lifecycle!ReplyError(q)
BY ReplyMaps DEF Consistent, HandlerInv, Lifecycle!ReplyError

(* Before the first request there is no row and no reply.                  *)
LEMMA LifecycleInit == Init => Lifecycle!Init
BY DEF Init, Lifecycle!Init, httpReply

(* Every step is a step of QueryLifecycle or leaves its variables alone.   *)
LEMMA LifecycleStep ==
    TypeOK /\ Consistent /\ [Next]_vars => [Lifecycle!Next]_(Lifecycle!vars)
<1> USE DEF rowVars, txVars, handlerVars, childVars, requestVars,
        warehouseVars
<1> SUFFICES ASSUME TypeOK, Consistent, [Next]_vars
             PROVE  [Lifecycle!Next]_(Lifecycle!vars)
    OBVIOUS
<1>1. ASSUME NEW q \in Query, SqlJson(q)
      PROVE  [Lifecycle!Next]_(Lifecycle!vars)
  <2>1. httpReply' = httpReply
      BY <1>1 DEF SqlJson, httpReply
  <2>2. status[q] = "absent"
      BY <1>1 DEF SqlJson, Consistent, HandlerInv
  <2>3. Lifecycle!Open(q)
      BY <1>1, <2>1, <2>2 DEF SqlJson, Lifecycle!Open
  <2>4. QED
      BY <2>3 DEF Lifecycle!Next
<1>2. ASSUME NEW q \in Query, StartProcess(q)
      PROVE  [Lifecycle!Next]_(Lifecycle!vars)
    BY <1>2, Stutter DEF StartProcess
<1>3. ASSUME NEW q \in Query, StartFails(q)
      PROVE  [Lifecycle!Next]_(Lifecycle!vars)
  <2>1. answer[q] = "none" /\ handler[q] # "idle"
      BY <1>3 DEF StartFails, Consistent, HandlerInv
  <2>2. Lifecycle!ReplyError(q)
      BY <1>3, <2>1, ErrorReplyMaps DEF StartFails, Reply, Answer
  <2>3. QED
      BY <2>2 DEF Lifecycle!Next
<1>4. ASSUME NEW q \in Query, Expire(q)
      PROVE  [Lifecycle!Next]_(Lifecycle!vars)
    BY <1>4, Stutter DEF Expire
<1>5. ASSUME NEW q \in Query, Cancel(q)
      PROVE  [Lifecycle!Next]_(Lifecycle!vars)
  <2>1. answer[q] = "none" /\ handler[q] # "idle"
      BY <1>5 DEF Cancel, Consistent, HandlerInv
  <2>2. Lifecycle!ReplyError(q)
      BY <1>5, <2>1, ErrorReplyMaps DEF Cancel, Reply, Answer
  <2>3. QED
      BY <2>2 DEF Lifecycle!Next
<1>6. ASSUME NEW q \in Query, Ready(q)
      PROVE  [Lifecycle!Next]_(Lifecycle!vars)
    BY <1>6, Stutter DEF Ready
<1>7. ASSUME NEW q \in Query, Value(q)
      PROVE  [Lifecycle!Next]_(Lifecycle!vars)
    BY <1>7, Stutter DEF Value
<1>8. ASSUME NEW q \in Query, Get(q)
      PROVE  [Lifecycle!Next]_(Lifecycle!vars)
  <2>1. answer[q] = "none" /\ handler[q] # "idle"
      BY <1>8 DEF Get, Consistent, HandlerInv
  <2>2. child[q] = "done" /\ outcome[q] \in {"ok", "failed", "raised"}
      BY <1>8 DEF Get, Consistent, ChildInv, TypeOK, Outcome
  <2>3. CASE outcome[q] = "ok"
    <3>1. answer' = [answer EXCEPT ![q] = "success"]
        BY <1>8, <2>3 DEF Get, Reply
    <3>2. status[q] = "success"
        BY <2>2, <2>3 DEF Consistent, ChildInv
    <3>3. httpReply[q] = "none"
             /\ httpReply' = [httpReply EXCEPT ![q] = "results"]
        BY <2>1, <3>1, ReplyMaps DEF Answer
    <3>4. Lifecycle!ReplyResults(q)
        BY <1>8, <3>2, <3>3 DEF Get, Lifecycle!ReplyResults
    <3>5. QED
        BY <3>4 DEF Lifecycle!Next
  <2>4. CASE outcome[q] \in {"failed", "raised"}
    <3>1. answer' = [answer EXCEPT ![q] = outcome[q]]
        BY <1>8, <2>4 DEF Get, Reply
    <3>2. Lifecycle!ReplyError(q)
        BY <1>8, <2>1, <2>4, <3>1, ErrorReplyMaps DEF Get, Answer
    <3>3. QED
        BY <3>2 DEF Lifecycle!Next
  <2>5. QED
      BY <2>2, <2>3, <2>4
<1>9. ASSUME NEW q \in Query, WorkerDies(q)
      PROVE  [Lifecycle!Next]_(Lifecycle!vars)
  <2>1. answer[q] = "none" /\ handler[q] # "idle"
      BY <1>9 DEF WorkerDies, Consistent, HandlerInv
  <2>2. Lifecycle!ReplyError(q)
      BY <1>9, <2>1, ErrorReplyMaps DEF WorkerDies, Answer
  <2>3. QED
      BY <2>2 DEF Lifecycle!Next
<1>10. ASSUME NEW q \in Query, RejectStatement(q)
      PROVE  [Lifecycle!Next]_(Lifecycle!vars)
    BY <1>10, Stutter DEF RejectStatement
<1>11. ASSUME NEW q \in Query, PrepareRaises(q)
      PROVE  [Lifecycle!Next]_(Lifecycle!vars)
    BY <1>11, Stutter DEF PrepareRaises
<1>12. ASSUME NEW q \in Query, SendStatement(q)
      PROVE  [Lifecycle!Next]_(Lifecycle!vars)
    BY <1>12, Stutter DEF SendStatement
<1>13. ASSUME NEW q \in Query, ExecuteRaises(q)
      PROVE  [Lifecycle!Next]_(Lifecycle!vars)
    BY <1>13, Stutter DEF ExecuteRaises
<1>14. ASSUME NEW q \in Query, ExecuteReturns(q)
      PROVE  [Lifecycle!Next]_(Lifecycle!vars)
    BY <1>14, Stutter DEF ExecuteReturns
<1>15. ASSUME NEW q \in Query, CommitProgress(q)
      PROVE  [Lifecycle!Next]_(Lifecycle!vars)
  <2>1. status[q] = "running" /\ httpReply' = httpReply
      BY <1>15 DEF CommitProgress, Consistent, ChildInv, httpReply
  <2>2. PICK t \in {clock, pending[q].stamp} :
           /\ changedOn' = [changedOn EXCEPT ![q] = t]
           /\ t = clock \/ pending[q] # NoWrite
      BY <1>15 DEF CommitProgress
  <2>3. changedOn[q] \in Nat /\ clock \in Nat /\ changedOn[q] <= clock
      BY DEF TypeOK, Consistent, TransactionInv
  <2>4. t \in changedOn[q] .. clock
      BY <2>2, <2>3 DEF TypeOK, Consistent, TransactionInv, Write
  <2>5. Lifecycle!Touch(q)
      BY <1>15, <2>1, <2>2, <2>4
         DEF CommitProgress, Lifecycle!Touch, Lifecycle!Stamp
  <2>6. QED
      BY <2>5 DEF Lifecycle!Next
<1>16. ASSUME NEW q \in Query, FetchAndFlush(q)
      PROVE  [Lifecycle!Next]_(Lifecycle!vars)
    BY <1>16, Stutter DEF FetchAndFlush
<1>17. ASSUME NEW q \in Query, AfterExecuteRaises(q)
      PROVE  [Lifecycle!Next]_(Lifecycle!vars)
    BY <1>17, Stutter DEF AfterExecuteRaises
<1>18. ASSUME NEW q \in Query, CommitSuccess(q)
      PROVE  [Lifecycle!Next]_(Lifecycle!vars)
    BY <1>18, Stutter DEF CommitSuccess
<1>19. ASSUME NEW q \in Query, CommitRaises(q)
      PROVE  [Lifecycle!Next]_(Lifecycle!vars)
    BY <1>19, Stutter DEF CommitRaises
<1>20. ASSUME NEW q \in Query, BeginPut(q)
      PROVE  [Lifecycle!Next]_(Lifecycle!vars)
    BY <1>20, Stutter DEF BeginPut
<1>21. ASSUME NEW q \in Query, EndPut(q)
      PROVE  [Lifecycle!Next]_(Lifecycle!vars)
    BY <1>21, Stutter DEF EndPut
<1>22. ASSUME NEW q \in Query, ChildDies(q)
      PROVE  [Lifecycle!Next]_(Lifecycle!vars)
    BY <1>22, Stutter DEF ChildDies
<1>23. ASSUME NEW q \in Query, ApplyCommit(q)
      PROVE  [Lifecycle!Next]_(Lifecycle!vars)
  <2>1. status[q] = "running" /\ httpReply' = httpReply
      BY <1>23 DEF ApplyCommit, Consistent, TransactionInv, httpReply
  <2>2. pending[q] # NoWrite /\ pending[q].status \in Settled
      BY <1>23
         DEF ApplyCommit, Consistent, TransactionInv, Settled, NoWrite
  <2>3. changedOn[q] \in Nat /\ clock \in Nat /\ pending[q].stamp \in Nat
      BY <2>2 DEF TypeOK, Write
  <2>4. pending[q].stamp \in changedOn[q] .. clock
      BY <2>2, <2>3 DEF Consistent, TransactionInv
  <2>5. Lifecycle!Settle(q)
      BY <1>23, <2>1, <2>2, <2>4
         DEF ApplyCommit, Settled, Lifecycle!Settle, Lifecycle!Settled,
             Lifecycle!Stamp
  <2>6. QED
      BY <2>5 DEF Lifecycle!Next
<1>24. ASSUME NEW q \in Query, LoseCommit(q)
      PROVE  [Lifecycle!Next]_(Lifecycle!vars)
    BY <1>24, Stutter DEF LoseCommit
<1>25. ASSUME NEW q \in Query, StatementSucceeds(q)
      PROVE  [Lifecycle!Next]_(Lifecycle!vars)
    BY <1>25, Stutter DEF StatementSucceeds
<1>26. ASSUME NEW q \in Query, StatementFails(q)
      PROVE  [Lifecycle!Next]_(Lifecycle!vars)
    BY <1>26, Stutter DEF StatementFails
<1>27. CASE Tick
  <2>1. httpReply' = httpReply
      BY <1>27 DEF Tick, httpReply
  <2>2. QED
      BY <1>27, <2>1 DEF Tick, Lifecycle!Next, Lifecycle!Tick
<1>28. CASE UNCHANGED vars
    BY <1>28, Stutter DEF vars
<1>29. QED
    BY <1>1, <1>2, <1>3, <1>4, <1>5, <1>6, <1>7, <1>8, <1>9, <1>10, <1>11,
       <1>12, <1>13, <1>14, <1>15, <1>16, <1>17, <1>18, <1>19, <1>20, <1>21,
       <1>22, <1>23, <1>24, <1>25, <1>26, <1>27, <1>28
       DEF Next, HandlerStep, ChildStep, StoreStep

(* SqlLabServer implements QueryLifecycle: the row settles at most once,   *)
(* its stamp never goes back, and no results are sent for a row that is    *)
(* not a committed SUCCESS.                                                *)
THEOREM LifecycleImplemented == Spec => ImplementsLifecycle
<1>1. QED
    BY LifecycleInit, LifecycleStep, InvariantCorrect, PTL
       DEF Spec, ImplementsLifecycle, Lifecycle!Spec
=============================================================================
