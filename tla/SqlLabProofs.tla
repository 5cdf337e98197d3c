----------------------------- MODULE SqlLabProofs -----------------------------
(***************************************************************************)
(* Type correctness of SQL Lab end to end, and the two safety properties   *)
(* of its page: NoFalseSuccess and NoUpdateMissed.  The inductive          *)
(* invariant is SqlLabTypeOK /\ SqlLabInv.                                 *)
(***************************************************************************)
EXTENDS SqlLab, TLAPS

(* Initially every variable has its type.                                  *)
LEMMA TypeInit == SqlLabInit => SqlLabTypeOK
BY TimesAssumption
   DEF SqlLabInit, Init, Server!Init, SqlLabTypeOK, TypeOK, Absent, Entry,
       Idle, NoRows

(* Writing the state of one query keeps the types of the store.            *)
LEMMA AlterType ==
    ASSUME TypeOK, NEW q \in Query, NEW s \in QueryState, Alter(q, s)
    PROVE  TypeOK'
<1>1. queries[q] \in Entry \cup {Absent}
  BY DEF TypeOK
<1>2. [queries[q] EXCEPT !.state = s] \in Entry
  BY <1>1 DEF Entry, Absent, Undefined
<1> QED
  BY <1>2 DEF TypeOK, Alter

(* Merging the answer of a poll keeps the types of the store.               *)
LEMMA RefreshType ==
    ASSUME TypeOK, NEW altered \in Rows, NEW now \in Nat,
           RefreshQueries(altered, now)
    PROVE  TypeOK'
BY DEF TypeOK, RefreshQueries, Rows

(* The answer of the server consists of entries.                           *)
LEMMA RowsType ==
    ASSUME SqlLabTypeOK, NEW since \in Int
    PROVE  RowsSince(since) \in Rows
BY DEF SqlLabTypeOK, RowsSince, Rows, Entry, QueryState, Server!Settled

(* Every step keeps the types.                                             *)
LEMMA TypeStep ==
    SqlLabTypeOK /\ [SqlLabNext]_allVars => SqlLabTypeOK'
<1> SUFFICES ASSUME SqlLabTypeOK, [SqlLabNext]_allVars
             PROVE  SqlLabTypeOK'
  OBVIOUS
<1>0. Skew \in Nat /\ Buffer \in Nat
  BY TimesAssumption
<1>1. ASSUME NEW q \in Query, RunQuery(q)
      PROVE  SqlLabTypeOK'
  <2>1. PICK e \in Editor \cup {NoEditor} :
            StartQuery(q, e) /\ origin' = [origin EXCEPT ![q] = e]
    BY <1>1 DEF RunQuery
  <2>2. [state |-> "running", changedOn |-> Undefined, sqlEditorId |-> e]
            \in Entry
    BY DEF Entry, QueryState
  <2>3. TypeOK'
    BY <2>1, <2>2 DEF SqlLabTypeOK, TypeOK, StartQuery
  <2> QED
    BY <1>1, <2>1, <2>3 DEF SqlLabTypeOK, RunQuery, server
<1>2. ASSUME NEW q \in Query, RunElsewhere(q)
      PROVE  SqlLabTypeOK'
  BY <1>2 DEF SqlLabTypeOK, TypeOK, RunElsewhere, store, server
<1>3. ASSUME NEW q \in Query, Stop(q)
      PROVE  SqlLabTypeOK'
  <2>1. TypeOK'
    BY <1>3, AlterType DEF SqlLabTypeOK, Stop, StopQuery, QueryState
  <2> QED
    BY <1>3, <2>1 DEF SqlLabTypeOK, Stop, server, net
<1>4. ASSUME NEW q \in Query, Remove(q)
      PROVE  SqlLabTypeOK'
  BY <1>4 DEF SqlLabTypeOK, TypeOK, Remove, RemoveQuery, server, net
<1>5. ASSUME EditTabs
      PROVE  SqlLabTypeOK'
  <2>1. TypeOK'
    BY <1>5 DEF SqlLabTypeOK, TypeOK, EditTabs, AddQueryEditor,
                RemoveQueryEditor, ResetState
  <2> QED
    BY <1>5, <2>1 DEF SqlLabTypeOK, EditTabs, server, net
<1>6. ASSUME Reload
      PROVE  SqlLabTypeOK'
  BY <1>6 DEF SqlLabTypeOK, TypeOK, Reload, store, server
<1>7. ASSUME NEW q \in Query, ReplyArrives(q)
      PROVE  SqlLabTypeOK'
  <2>1. TypeOK'
    BY <1>7, AlterType
       DEF SqlLabTypeOK, ReplyArrives, QuerySuccess, QueryFailed, QueryState
  <2> QED
    BY <1>7, <2>1 DEF SqlLabTypeOK, ReplyArrives, server
<1>8. ASSUME NEW q \in Query, PostFails(q)
      PROVE  SqlLabTypeOK'
  <2>1. TypeOK'
    BY <1>8, AlterType DEF SqlLabTypeOK, PostFails, QueryFailed, QueryState
  <2> QED
    BY <1>8, <2>1 DEF SqlLabTypeOK, PostFails, server
<1>9. ASSUME NEW p \in Poll, SendPoll(p)
      PROVE  SqlLabTypeOK'
  <2>1. NoRows \in Rows
    BY DEF NoRows, Rows
  <2>2. [phase |-> "sent", since |-> queriesLastUpdate - Buffer,
         sent |-> clock, rows |-> NoRows] \in Request
    BY <1>0, <2>1 DEF Request, SqlLabTypeOK, TypeOK
  <2> QED
    BY <1>9, <2>2 DEF SqlLabTypeOK, TypeOK, SendPoll, store, server
<1>10. ASSUME NEW p \in Poll, Answer(p)
       PROVE  SqlLabTypeOK'
  <2>1. poll[p] \in Request
    BY <1>10 DEF SqlLabTypeOK, Answer, Idle
  <2>2. RowsSince(poll[p].since) \in Rows
    BY <2>1, RowsType DEF Request
  <2>3. [phase |-> "read", since |-> 0, sent |-> poll[p].sent,
         rows |-> RowsSince(poll[p].since)] \in Request
    BY <2>1, <2>2 DEF Request
  <2>4. poll' \in [Poll -> Request \cup {Idle}]
    BY <1>10, <2>1, <2>3 DEF SqlLabTypeOK, Answer, Request
  <2> QED
    BY <1>10, <2>4 DEF SqlLabTypeOK, TypeOK, Answer, store, server
<1>11. ASSUME NEW p \in Poll, PollReturns(p)
       PROVE  SqlLabTypeOK'
  <2>1. poll[p].rows \in Rows
    BY <1>11 DEF SqlLabTypeOK, PollReturns, Idle, Request
  <2>2. clock + Skew \in Nat
    BY <1>0 DEF SqlLabTypeOK
  <2>3. TypeOK'
    BY <1>11, <2>1, <2>2, RefreshType
       DEF SqlLabTypeOK, TypeOK, PollReturns, store
  <2> QED
    BY <1>11, <2>3 DEF SqlLabTypeOK, PollReturns, server
<1>12. ASSUME NEW p \in Poll, PollFails(p)
       PROVE  SqlLabTypeOK'
  BY <1>12 DEF SqlLabTypeOK, TypeOK, PollFails, store, server
<1>13. ASSUME NEW q \in Query, ServerStep(q)
       PROVE  SqlLabTypeOK'
  <2>1. /\ status' \in [Query -> {"absent", "running"} \cup Server!Settled]
        /\ changedOn' \in [Query -> Nat]
        /\ reply' \in [Query -> {"none", "results", "error"}]
        /\ clock' = clock
    BY <1>13 DEF SqlLabTypeOK, ServerStep, Server!Open, Server!Touch,
         Server!Settle, Server!Stamp, Server!ReplyResults, Server!ReplyError,
         Server!Settled
  <2> QED
    BY <1>13, <2>1 DEF SqlLabTypeOK, TypeOK, ServerStep, store, net
<1>14. ASSUME Tick
       PROVE  SqlLabTypeOK'
  BY <1>14 DEF SqlLabTypeOK, TypeOK, Tick, Server!Tick, store, net
<1>15. ASSUME UNCHANGED allVars
       PROVE  SqlLabTypeOK'
  BY <1>15 DEF SqlLabTypeOK, TypeOK, allVars, store, server, net
<1> QED
  BY <1>1, <1>2, <1>3, <1>4, <1>5, <1>6, <1>7, <1>8, <1>9, <1>10, <1>11,
     <1>12, <1>13, <1>14, <1>15
     DEF SqlLabNext, UserStep, PostStep, PollStep

-----------------------------------------------------------------------------
(* Success is the last thing that becomes of a row.                        *)
LEMMA SuccessStays ==
    ASSUME SqlLabTypeOK, [SqlLabNext]_allVars, NEW q \in Query,
           status[q] = "success"
    PROVE  status'[q] = "success"
<1>1. CASE UNCHANGED status
  BY <1>1
<1>2. ASSUME NEW r \in Query, ServerStep(r)
      PROVE  status'[q] = "success"
  BY <1>2 DEF SqlLabTypeOK, ServerStep, Server!Open, Server!Touch,
     Server!Settle, Server!ReplyResults, Server!ReplyError
<1> QED
  BY <1>1, <1>2
     DEF SqlLabNext, UserStep, PostStep, PollStep, RunQuery, RunElsewhere,
         Stop, Remove, EditTabs, Reload, ReplyArrives, PostFails, SendPoll,
         Answer, PollReturns, PollFails, Tick, Server!Tick, allVars, server

(* A reply with results is sent for a success only.                        *)
LEMMA ReplyTruthful ==
    ASSUME SqlLabTypeOK, Truthful, [SqlLabNext]_allVars, NEW q \in Query,
           reply'[q] = "results"
    PROVE  status'[q] = "success"
<1>1. CASE UNCHANGED reply
  BY <1>1, SuccessStays DEF Truthful
<1>2. ASSUME NEW r \in Query, ServerStep(r)
      PROVE  status'[q] = "success"
  BY <1>2, SuccessStays
     DEF Truthful, SqlLabTypeOK, ServerStep, Server!Open, Server!Touch,
         Server!Settle, Server!ReplyResults, Server!ReplyError
<1> QED
  BY <1>1, <1>2
     DEF SqlLabNext, UserStep, PostStep, PollStep, RunQuery, RunElsewhere,
         Stop, Remove, EditTabs, Reload, ReplyArrives, PostFails, SendPoll,
         Answer, PollReturns, PollFails, Tick, Server!Tick, allVars, server

(* An answer holds success only for a query that was one when it was read. *)
LEMMA RowsTruthful ==
    ASSUME SqlLabTypeOK, Truthful, [SqlLabNext]_allVars, NEW q \in Query,
           NEW p \in Poll, poll'[p].rows[q].state = "success"
    PROVE  status'[q] = "success"
<1>1. CASE poll'[p] = poll[p]
  BY <1>1, SuccessStays DEF Truthful
<1>2. CASE poll'[p] = Idle
  BY <1>2 DEF Idle, NoRows, Absent
<1>3. ASSUME NEW o \in Poll, SendPoll(o)
      PROVE  status'[q] = "success"
  <2>1. CASE o = p
    BY <1>3, <2>1 DEF SendPoll, NoRows, Absent, SqlLabTypeOK
  <2> QED
    BY <1>1, <1>3, <2>1 DEF SendPoll, SqlLabTypeOK
<1>4. ASSUME NEW o \in Poll, Answer(o)
      PROVE  status'[q] = "success"
  <2>1. CASE o = p
    <3>1. poll[p] \in Request
      BY <1>4, <2>1 DEF SqlLabTypeOK, Answer, Idle
    <3>2. poll'[p].rows = RowsSince(poll[p].since)
      BY <1>4, <2>1, <3>1 DEF Answer, SqlLabTypeOK, Request
    <3>3. status[q] = "success"
      BY <3>2 DEF RowsSince, Absent
    <3> QED
      BY <3>3, SuccessStays
  <2> QED
    BY <1>1, <1>4, <2>1 DEF Answer, SqlLabTypeOK
<1> QED
  BY <1>1, <1>2, <1>3, <1>4
     DEF SqlLabTypeOK, SqlLabNext, UserStep, PostStep, PollStep, RunQuery,
         RunElsewhere, Stop, Remove, EditTabs, Reload, ReplyArrives, PostFails,
         PollReturns, PollFails, ServerStep, Tick, allVars, net

(* The page turns a query into a success only on a reply with results and  *)
(* on an answer that says so.                                              *)
LEMMA StoreTruthful ==
    ASSUME SqlLabTypeOK, Truthful, [SqlLabNext]_allVars, NEW q \in Query,
           queries'[q].state = "success"
    PROVE  status'[q] = "success"
<1>1. CASE queries'[q].state = queries[q].state
  BY <1>1, SuccessStays DEF Truthful
<1>2. CASE queries'[q] = Absent
  BY <1>2 DEF Absent
<1>3. ASSUME NEW r \in Query, RunQuery(r)
      PROVE  status'[q] = "success"
  BY <1>1, <1>3 DEF RunQuery, StartQuery, SqlLabTypeOK, TypeOK
<1>4. ASSUME NEW r \in Query, Stop(r) \/ PostFails(r)
      PROVE  status'[q] = "success"
  BY <1>1, <1>4
     DEF Stop, PostFails, StopQuery, QueryFailed, Alter, SqlLabTypeOK, TypeOK,
         Entry, Absent
<1>5. ASSUME NEW r \in Query, ReplyArrives(r)
      PROVE  status'[q] = "success"
  <2>1. CASE r = q /\ reply[r] = "results"
    BY <2>1, SuccessStays DEF Truthful
  <2>2. CASE r # q \/ reply[r] = "error"
    BY <1>1, <1>5, <2>2
       DEF ReplyArrives, QuerySuccess, QueryFailed, Alter, SqlLabTypeOK,
           TypeOK, Entry, Absent
  <2> QED
    BY <1>5, <2>1, <2>2 DEF ReplyArrives
<1>6. ASSUME NEW p \in Poll, PollReturns(p)
      PROVE  status'[q] = "success"
  <2>1. queries'[q] = queries[q] \/ queries'[q] = poll[p].rows[q]
    BY <1>6 DEF PollReturns, RefreshQueries, store
  <2> QED
    BY <1>1, <2>1, SuccessStays DEF Truthful
<1>7. ASSUME NEW r \in Query, Remove(r)
      PROVE  status'[q] = "success"
  BY <1>1, <1>2, <1>7 DEF Remove, RemoveQuery, SqlLabTypeOK, TypeOK
<1>8. CASE EditTabs
  BY <1>1, <1>2, <1>8
     DEF EditTabs, AddQueryEditor, RemoveQueryEditor, ResetState
<1> QED
  BY <1>1, <1>3, <1>4, <1>5, <1>6, <1>7, <1>8
     DEF SqlLabNext, UserStep, PostStep, PollStep, RunElsewhere, Reload,
         SendPoll, Answer, PollFails, ServerStep, Tick, allVars, store

(* What is said of a success stays true.                                   *)
LEMMA TruthfulStep ==
    SqlLabTypeOK /\ Truthful /\ [SqlLabNext]_allVars => Truthful'
BY ReplyTruthful, StoreTruthful, RowsTruthful DEF Truthful

-----------------------------------------------------------------------------
(* A step of the page that sends and merges no poll keeps its place in     *)
(* time, if it forgets of queries only what it then fetches afresh.        *)
LEMMA PageStep ==
    ASSUME SqlLabTypeOK, Timely, NoUpdateMissed, UNCHANGED server,
           queriesLastUpdate' = queriesLastUpdate \/ queriesLastUpdate' = 0,
           \A p \in Poll : poll'[p] = poll[p] \/ poll'[p] = Idle,
           \A q \in Query : post'[q] = "none" => post[q] = "none",
           \A q \in Query : status[q] # "absent" /\ Known(q) => Known(q)'
    PROVE  Timely' /\ NoUpdateMissed'
<1>0. /\ clock \in Nat /\ clock' = clock /\ status' = status
      /\ changedOn \in [Query -> Nat] /\ changedOn' = changedOn
      /\ Skew \in Nat /\ Buffer \in Nat
      /\ queriesLastUpdate \in Nat
  BY TimesAssumption DEF SqlLabTypeOK, TypeOK, server
<1>1. queriesLastUpdate' <= clock' + Skew
  BY <1>0 DEF Timely
<1>2. \A q \in Query : post'[q] = "none" => status'[q] = "absent"
  BY <1>0 DEF Timely
<1>3. ASSUME NEW p \in Poll, poll'[p].phase # "idle"
      PROVE  /\ poll'[p] = poll[p]
             /\ poll'[p].sent <= clock' /\ clock' <= poll'[p].sent + MaxDelay
             /\ poll'[p].phase = "sent" =>
                   poll'[p].since <= poll'[p].sent + Skew - Buffer
  BY <1>0, <1>3 DEF Timely, Idle
<1>4. ASSUME NEW p \in Poll, NEW q \in Query, status'[q] # "absent"
      PROVE  /\ poll'[p].phase = "sent" =>
                   Known(q)' \/ changedOn'[q] >= poll'[p].since
             /\ poll'[p].phase = "read" => Covers(p, q)'
  BY <1>0, <1>3, <1>4 DEF Timely, Covers
<1>5. ASSUME NEW q \in Query, status'[q] # "absent"
      PROVE  Known(q)' \/ changedOn'[q] >= queriesLastUpdate' - Buffer
  <2>1. changedOn[q] \in Nat
    BY <1>0
  <2>2. Known(q) \/ changedOn[q] >= queriesLastUpdate - Buffer
    BY <1>0, <1>5 DEF NoUpdateMissed, Known
  <2> QED
    BY <1>0, <1>5, <2>1, <2>2
<1>6. NoUpdateMissed'
  BY <1>5 DEF NoUpdateMissed, Known
<1>7. Timely'
  BY <1>1, <1>2, <1>3, <1>4 DEF Timely
<1> QED
  BY <1>6, <1>7

(* What the reducer does to a query other than merging a poll either       *)
(* leaves its changedOn and its editor alone or drops its entry.           *)
LEMMA KnownStays ==
    ASSUME SqlLabTypeOK, Timely, UNCHANGED server, NEW q \in Query,
           status[q] # "absent", Known(q),
           UserStep \/ PostStep
    PROVE  Known(q)'
<1>1. post[q] # "none"
  BY DEF Timely
<1>2. CASE UNCHANGED queries
  BY <1>2 DEF Known, Ghost, server
<1>3. CASE queries'[q] = Absent
  BY <1>3 DEF Known, Ghost, Absent
<1>4. CASE \E r \in Query, s \in QueryState : Alter(r, s)
  <2>1. /\ queries'[q].changedOn = queries[q].changedOn
        /\ queries'[q].sqlEditorId = queries[q].sqlEditorId
    BY <1>4 DEF Alter, SqlLabTypeOK, TypeOK, Entry, Absent
  <2> QED
    BY <2>1 DEF Known, Ghost, server
<1>5. ASSUME NEW r \in Query, RunQuery(r)
      PROVE  Known(q)'
  <2>1. queries'[q] = queries[q]
    BY <1>1, <1>5 DEF RunQuery, StartQuery, SqlLabTypeOK, TypeOK
  <2> QED
    BY <2>1 DEF Known, Ghost, server
<1>6. ASSUME NEW r \in Query, Remove(r)
      PROVE  Known(q)'
  <2>1. queries'[q] = queries[q] \/ queries'[q] = Absent
    BY <1>6 DEF Remove, RemoveQuery, SqlLabTypeOK, TypeOK
  <2> QED
    BY <1>3, <2>1 DEF Known, Ghost, server
<1>7. CASE EditTabs
  <2>1. queries'[q] = queries[q] \/ queries'[q] = Absent
    BY <1>7 DEF EditTabs, AddQueryEditor, RemoveQueryEditor, ResetState
  <2> QED
    BY <1>3, <2>1 DEF Known, Ghost, server
<1> QED
  BY <1>2, <1>4, <1>5, <1>6, <1>7
     DEF UserStep, PostStep, RunElsewhere, Stop, Reload, ReplyArrives,
         PostFails, StopQuery, QuerySuccess, QueryFailed, QueryState, store

(* No step of the user or of a POST makes the page late.                   *)
LEMMA UserAndPostTimely ==
    ASSUME SqlLabTypeOK, Timely, NoUpdateMissed, UserStep \/ PostStep
    PROVE  Timely' /\ NoUpdateMissed'
<1>1. UNCHANGED server
  BY DEF UserStep, PostStep, RunQuery, RunElsewhere, Stop, Remove, EditTabs,
         Reload, ReplyArrives, PostFails
<1>2. queriesLastUpdate' = queriesLastUpdate \/ queriesLastUpdate' = 0
  BY DEF UserStep, PostStep, RunQuery, RunElsewhere, Stop, Remove, EditTabs,
         Reload, ReplyArrives, PostFails, StartQuery, StopQuery, RemoveQuery,
         AddQueryEditor, RemoveQueryEditor, ResetState, QuerySuccess,
         QueryFailed, Alter, store
<1>3. \A p \in Poll : poll'[p] = poll[p] \/ poll'[p] = Idle
  BY DEF UserStep, PostStep, RunQuery, RunElsewhere, Stop, Remove, EditTabs,
         Reload, ReplyArrives, PostFails, net
<1>4. \A q \in Query : post'[q] = "none" => post[q] = "none"
  BY DEF UserStep, PostStep, RunQuery, RunElsewhere, Stop, Remove, EditTabs,
         Reload, ReplyArrives, PostFails, net, SqlLabTypeOK
<1>5. \A q \in Query : status[q] # "absent" /\ Known(q) => Known(q)'
  BY <1>1, KnownStays
<1> QED
  BY <1>1, <1>2, <1>3, <1>4, <1>5, PageStep

(* A poll that fails, and one whose answer changes nothing.                *)
LEMMA PollDropped ==
    ASSUME SqlLabTypeOK, Timely, NoUpdateMissed, NEW p \in Poll,
           poll' = [poll EXCEPT ![p] = Idle],
           UNCHANGED <<store, server, post>>
    PROVE  Timely' /\ NoUpdateMissed'
<1>1. UNCHANGED server /\ queriesLastUpdate' = queriesLastUpdate
  BY DEF store
<1>2. \A o \in Poll : poll'[o] = poll[o] \/ poll'[o] = Idle
  BY DEF SqlLabTypeOK
<1>3. \A q \in Query : post'[q] = "none" => post[q] = "none"
  OBVIOUS
<1>4. \A q \in Query : status[q] # "absent" /\ Known(q) => Known(q)'
  BY DEF Known, Ghost, store, server
<1> QED
  BY <1>1, <1>2, <1>3, <1>4, PageStep

(* A poll that is sent asks for all the page does not know.                *)
LEMMA SendTimely ==
    ASSUME SqlLabTypeOK, Timely, NoUpdateMissed, NEW p \in Poll, SendPoll(p)
    PROVE  Timely' /\ NoUpdateMissed'
<1>0. /\ clock \in Nat /\ queriesLastUpdate \in Nat
      /\ Skew \in Nat /\ Buffer \in Nat /\ MaxDelay \in Nat
  BY TimesAssumption DEF SqlLabTypeOK, TypeOK
<1>1. UNCHANGED <<queries, queriesLastUpdate, status, changedOn, clock, post>>
  BY DEF SendPoll, store, server
<1>2. /\ poll'[p] = [phase |-> "sent", since |-> queriesLastUpdate - Buffer,
                     sent |-> clock, rows |-> NoRows]
      /\ \A o \in Poll : o # p => poll'[o] = poll[o]
  BY DEF SendPoll, SqlLabTypeOK
<1>3. /\ poll'[p].phase = "sent"
      /\ poll'[p].since = queriesLastUpdate - Buffer
      /\ poll'[p].sent = clock
  BY <1>2
<1>4. \A q \in Query : (Known(q)' <=> Known(q))
  BY <1>1 DEF Known, Ghost
<1>5. NoUpdateMissed'
  BY <1>1 DEF NoUpdateMissed, Ghost
<1>6. ASSUME NEW o \in Poll, poll'[o].phase # "idle"
      PROVE  /\ poll'[o].sent <= clock' /\ clock' <= poll'[o].sent + MaxDelay
             /\ poll'[o].phase = "sent" =>
                   poll'[o].since <= poll'[o].sent + Skew - Buffer
  <2>1. CASE o = p
    <3>1. queriesLastUpdate <= clock + Skew
      BY DEF Timely
    <3> QED
      BY <1>0, <1>1, <1>3, <2>1, <3>1
  <2> QED
    BY <1>1, <1>2, <1>6, <2>1 DEF Timely
<1>7. ASSUME NEW o \in Poll, NEW q \in Query, status'[q] # "absent"
      PROVE  /\ poll'[o].phase = "sent" =>
                   Known(q)' \/ changedOn'[q] >= poll'[o].since
             /\ poll'[o].phase = "read" => Covers(o, q)'
  <2>1. CASE o = p
    BY <1>1, <1>3, <1>4, <1>7, <2>1 DEF NoUpdateMissed, Known
  <2> QED
    BY <1>1, <1>2, <1>4, <1>7, <2>1 DEF Timely, Covers
<1>8. Timely'
  BY <1>0, <1>1, <1>6, <1>7 DEF Timely
<1> QED
  BY <1>5, <1>8

(* The server's answer covers every query.                                 *)
LEMMA AnswerTimely ==
    ASSUME SqlLabTypeOK, Timely, NoUpdateMissed, NEW p \in Poll, Answer(p)
    PROVE  Timely' /\ NoUpdateMissed'
<1>0. /\ Skew \in Nat /\ Buffer \in Nat /\ changedOn \in [Query -> Nat]
  BY TimesAssumption DEF SqlLabTypeOK, TypeOK
<1>1. UNCHANGED <<queries, queriesLastUpdate, status, changedOn, clock, post>>
  BY DEF Answer, store, server
<1>2. poll[p].phase = "sent" /\ poll[p] \in Request
  BY DEF SqlLabTypeOK, Answer, Idle
<1>3. /\ poll'[p].phase = "read"
      /\ poll'[p].sent = poll[p].sent
      /\ poll'[p].rows = RowsSince(poll[p].since)
      /\ \A o \in Poll : o # p => poll'[o] = poll[o]
  BY <1>2 DEF Answer, SqlLabTypeOK, Request
<1>4. \A q \in Query : (Known(q)' <=> Known(q))
  BY <1>1 DEF Known, Ghost
<1>5. NoUpdateMissed'
  BY <1>1 DEF NoUpdateMissed, Ghost
<1>6. ASSUME NEW q \in Query, status[q] # "absent"
      PROVE  Covers(p, q)'
  <2>1. CASE changedOn[q] >= poll[p].since
    <3>1. poll'[p].rows[q] = [state |-> status[q], changedOn |-> changedOn[q],
                              sqlEditorId |-> origin[q]]
      BY <1>3, <1>6, <2>1 DEF RowsSince
    <3>2. poll'[p].rows[q] # Absent
      BY <1>6, <3>1 DEF Absent
    <3> QED
      BY <1>1, <3>1, <3>2 DEF Covers, Absent
  <2>2. CASE ~(changedOn[q] >= poll[p].since)
    <3>1. poll'[p].rows[q] = Absent
      BY <1>3, <2>2 DEF RowsSince
    <3>2. Known(q)
      BY <1>2, <1>6, <2>2 DEF Timely
    <3>3. poll[p].since <= poll[p].sent + Skew - Buffer
      BY <1>2 DEF Timely
    <3>4. changedOn[q] < poll[p].sent + Skew - Buffer
      BY <1>0, <1>2, <2>2, <3>3 DEF Request
    <3> QED
      BY <1>1, <1>3, <1>4, <3>1, <3>2, <3>4 DEF Covers, Absent
  <2> QED
    BY <2>1, <2>2
<1>7. ASSUME NEW o \in Poll, poll'[o].phase # "idle"
      PROVE  /\ poll'[o].sent <= clock' /\ clock' <= poll'[o].sent + MaxDelay
             /\ poll'[o].phase = "sent" =>
                   poll'[o].since <= poll'[o].sent + Skew - Buffer
  BY <1>1, <1>2, <1>3, <1>7 DEF Timely
<1>8. ASSUME NEW o \in Poll, NEW q \in Query, status'[q] # "absent"
      PROVE  /\ poll'[o].phase = "sent" =>
                   Known(q)' \/ changedOn'[q] >= poll'[o].since
             /\ poll'[o].phase = "read" => Covers(o, q)'
  <2>1. CASE o = p
    BY <1>1, <1>3, <1>6, <1>8, <2>1
  <2> QED
    BY <1>1, <1>3, <1>4, <1>8, <2>1 DEF Timely, Covers
<1>9. Timely'
  BY <1>1, <1>7, <1>8 DEF Timely
<1> QED
  BY <1>5, <1>9

(* Merging an answer leaves of every query its current version, or one     *)
(* that is still inside the window the merge opens.                        *)
LEMMA Merged ==
    ASSUME SqlLabTypeOK, Timely, NEW p \in Poll, NEW q \in Query,
           poll[p].phase = "read", status[q] # "absent",
           RefreshQueries(poll[p].rows, clock + Skew), UNCHANGED server
    PROVE  Known(q)' \/ changedOn[q] >= clock + Skew - Buffer
<1>0. /\ clock \in Nat /\ changedOn[q] \in Nat /\ changedOn' = changedOn
      /\ Skew \in Nat /\ Buffer \in Nat /\ MaxDelay \in Nat
      /\ CommitDelay \in Nat /\ poll[p].sent \in Nat
  BY TimesAssumption DEF SqlLabTypeOK, Request, Idle, server
<1>1. queries'[q] = IF /\ poll[p].rows[q] # Absent
                       /\ \/ queries[q] = Absent
                          \/ queries[q].changedOn # poll[p].rows[q].changedOn
                    THEN poll[p].rows[q] ELSE queries[q]
  BY DEF RefreshQueries
<1>2. CASE /\ poll[p].rows[q] # Absent
           /\ poll[p].rows[q].changedOn = changedOn[q]
  <2>1. queries'[q].changedOn = changedOn[q]
    BY <1>1, <1>2
  <2> QED
    BY <1>0, <2>1 DEF Known
<1>3. CASE changedOn[q] >= poll[p].sent - CommitDelay
  <2>1. clock <= poll[p].sent + MaxDelay
    BY DEF Timely
  <2> QED
    BY <1>0, <1>3, <2>1, BufferAssumption
<1>4. CASE poll[p].rows[q] = Absent /\ Known(q)
  BY <1>0, <1>1, <1>4 DEF Known, Ghost
<1> QED
  BY <1>2, <1>3, <1>4 DEF Timely, Covers

(* The polls still under way cover what the merged one has left behind.    *)
LEMMA ReturnTimely ==
    ASSUME SqlLabTypeOK, Timely, NoUpdateMissed, NEW p \in Poll,
           PollReturns(p)
    PROVE  Timely' /\ NoUpdateMissed'
<1>0. /\ clock \in Nat /\ changedOn \in [Query -> Nat]
      /\ Skew \in Nat /\ Buffer \in Nat /\ MaxDelay \in Nat
      /\ CommitDelay \in Nat
  BY TimesAssumption DEF SqlLabTypeOK
<1>1. CASE UNCHANGED store
  BY <1>1, PollDropped DEF PollReturns
<1>2. CASE RefreshQueries(poll[p].rows, clock + Skew)
  <2>1. /\ UNCHANGED <<status, changedOn, clock, post>>
        /\ UNCHANGED server
        /\ queriesLastUpdate' = clock + Skew
        /\ poll'[p] = Idle
        /\ \A o \in Poll : o # p => poll'[o] = poll[o]
    BY <1>2 DEF PollReturns, RefreshQueries, server, SqlLabTypeOK
  <2>2. \A q \in Query : status[q] # "absent" =>
              Known(q)' \/ changedOn[q] >= clock + Skew - Buffer
    BY <1>2, <2>1, Merged DEF PollReturns
  <2>3. NoUpdateMissed'
    <3>1. ASSUME NEW q \in Query, status'[q] # "absent"
          PROVE  Known(q)' \/ changedOn'[q] >= queriesLastUpdate' - Buffer
      BY <1>0, <2>1, <2>2, <3>1
    <3> QED
      BY <3>1 DEF NoUpdateMissed, Known
  <2>4. ASSUME NEW o \in Poll, poll'[o].phase # "idle"
        PROVE  /\ o # p /\ poll'[o] = poll[o] /\ poll[o] \in Request
               /\ poll[o].sent <= clock /\ clock <= poll[o].sent + MaxDelay
               /\ poll[o].phase = "sent" =>
                     poll[o].since <= poll[o].sent + Skew - Buffer
    BY <2>1, <2>4 DEF Timely, Idle, SqlLabTypeOK
  <2>5. ASSUME NEW o \in Poll, NEW q \in Query, status[q] # "absent",
               poll'[o].phase = "sent"
        PROVE  Known(q)' \/ changedOn[q] >= poll[o].since
    <3>1. poll[o].since <= clock + Skew - Buffer
      BY <1>0, <2>4, <2>5 DEF Request
    <3> QED
      BY <1>0, <2>2, <2>4, <2>5, <3>1 DEF Request
  <2>6. ASSUME NEW o \in Poll, NEW q \in Query, status[q] # "absent",
               poll'[o].phase = "read"
        PROVE  Covers(o, q)'
    <3>1. poll'[o] = poll[o] /\ Covers(o, q)
      BY <2>4, <2>6 DEF Timely
    <3>2. CASE Known(q)'
      BY <2>1, <3>1, <3>2 DEF Covers
    <3>3. CASE changedOn[q] >= clock + Skew - Buffer
      <4>1. ~(changedOn[q] < poll[o].sent + Skew - Buffer)
        BY <1>0, <2>4, <2>6, <3>3 DEF Request
      <4> QED
        BY <2>1, <3>1, <4>1 DEF Covers
    <3> QED
      BY <2>2, <2>6, <3>2, <3>3
  <2>7. Timely'
    <3>1. queriesLastUpdate' <= clock' + Skew
      BY <1>0, <2>1
    <3> QED
      BY <2>1, <2>4, <2>5, <2>6, <3>1 DEF Timely
  <2> QED
    BY <2>3, <2>7
<1> QED
  BY <1>1, <1>2 DEF PollReturns

(* A write of the server is recent enough for every poll to cover it.      *)
LEMMA WriteTimely ==
    ASSUME SqlLabTypeOK, Timely, NoUpdateMissed, NEW r \in Query,
           NEW t \in Nat, changedOn' = [changedOn EXCEPT ![r] = t],
           clock - t <= CommitDelay, post[r] # "none",
           \A q \in Query : q # r => status'[q] = status[q],
           UNCHANGED <<store, net, clock>>
    PROVE  Timely' /\ NoUpdateMissed'
<1>0. /\ clock \in Nat /\ changedOn \in [Query -> Nat]
      /\ queriesLastUpdate \in Nat
      /\ Skew \in Nat /\ Buffer \in Nat /\ MaxDelay \in Nat
      /\ CommitDelay \in Nat
  BY TimesAssumption DEF SqlLabTypeOK, TypeOK
<1>1. UNCHANGED <<queries, queriesLastUpdate, poll, post, clock>>
  BY DEF store, net
<1>2. changedOn'[r] = t
  BY <1>0
<1>3. \A q \in Query : q # r => changedOn'[q] = changedOn[q]
  BY <1>0
<1>4. ASSUME NEW p \in Poll, poll[p].phase # "idle"
      PROVE  poll[p] \in Request /\ poll[p].sent <= clock
  BY <1>4 DEF Timely, SqlLabTypeOK, Idle
<1>5. ASSUME NEW p \in Poll, NEW q \in Query, status'[q] # "absent",
             poll[p].phase = "sent"
      PROVE  Known(q)' \/ changedOn'[q] >= poll[p].since
  <2>1. CASE q = r
    <3>1. poll[p].since <= poll[p].sent + Skew - Buffer
      BY <1>5 DEF Timely
    <3> QED
      BY <1>0, <1>2, <1>4, <1>5, <2>1, <3>1, BufferAssumption DEF Request
  <2>2. CASE q # r
    BY <1>1, <1>3, <1>5, <2>2 DEF Timely, Known, Ghost
  <2> QED
    BY <2>1, <2>2
<1>6. ASSUME NEW p \in Poll, NEW q \in Query, status'[q] # "absent",
             poll[p].phase = "read"
      PROVE  Covers(p, q)'
  <2>1. CASE q = r
    <3>1. changedOn'[q] >= poll[p].sent - CommitDelay
      BY <1>0, <1>2, <1>4, <1>6, <2>1 DEF Request
    <3> QED
      BY <1>1, <3>1 DEF Covers
  <2>2. CASE q # r
    BY <1>1, <1>3, <1>6, <2>2 DEF Timely, Covers, Known, Ghost
  <2> QED
    BY <2>1, <2>2
<1>7. NoUpdateMissed'
  <2>1. ASSUME NEW q \in Query, status'[q] # "absent", ~Ghost(q)'
        PROVE  \/ queries'[q].changedOn = changedOn'[q]
               \/ changedOn'[q] >= queriesLastUpdate' - Buffer
    <3>1. CASE q = r
      <4>1. queriesLastUpdate <= clock + Skew
        BY DEF Timely
      <4> QED
        BY <1>0, <1>1, <1>2, <3>1, <4>1, BufferAssumption
    <3>2. CASE q # r
      BY <1>1, <1>3, <2>1, <3>2 DEF NoUpdateMissed, Ghost
    <3> QED
      BY <3>1, <3>2
  <2> QED
    BY <2>1 DEF NoUpdateMissed
<1>8. \A q \in Query : post'[q] = "none" => status'[q] = "absent"
  BY <1>1 DEF Timely
<1>9. Timely'
  BY <1>1, <1>5, <1>6, <1>8 DEF Timely
<1> QED
  BY <1>7, <1>9

(* The steps of the server.                                                *)
LEMMA ServerTimely ==
    ASSUME SqlLabTypeOK, Timely, NoUpdateMissed, NEW r \in Query,
           ServerStep(r)
    PROVE  Timely' /\ NoUpdateMissed'
<1>0. /\ clock \in Nat /\ changedOn \in [Query -> Nat]
      /\ status \in [Query -> {"absent", "running"} \cup Server!Settled]
      /\ CommitDelay \in Nat
  BY TimesAssumption DEF SqlLabTypeOK
<1>1. UNCHANGED <<store, net, clock>>
  BY DEF ServerStep, Server!Open, Server!Touch, Server!Settle, Server!Stamp,
         Server!ReplyResults, Server!ReplyError
<1>2. CASE post[r] # "none" /\ Server!Open(r)
  <2>1. /\ changedOn' = [changedOn EXCEPT ![r] = clock]
        /\ \A q \in Query : q # r => status'[q] = status[q]
    BY <1>0, <1>2 DEF Server!Open
  <2>2. clock - clock <= CommitDelay
    BY <1>0
  <2> QED
    BY <1>0, <1>1, <1>2, <2>1, <2>2, WriteTimely
<1>3. CASE (Server!Touch(r) \/ Server!Settle(r)) /\ Prompt(r)
  <2>1. PICK t \in changedOn[r] .. clock :
            changedOn' = [changedOn EXCEPT ![r] = t]
    BY <1>3 DEF Server!Touch, Server!Settle, Server!Stamp
  <2>2. t \in Nat /\ clock - t <= CommitDelay
    BY <1>0, <1>3, <2>1 DEF Prompt
  <2>3. \A q \in Query : q # r => status'[q] = status[q]
    BY <1>0, <1>3 DEF Server!Touch, Server!Settle
  <2>4. post[r] # "none"
    BY <1>3 DEF Timely, Server!Touch, Server!Settle
  <2> QED
    BY <1>1, <2>1, <2>2, <2>3, <2>4, WriteTimely
<1>4. CASE Server!ReplyResults(r) \/ Server!ReplyError(r)
  BY <1>1, <1>4
     DEF Server!ReplyResults, Server!ReplyError, Timely, NoUpdateMissed,
         Covers, Known, Ghost, store, net
<1> QED
  BY <1>2, <1>3, <1>4 DEF ServerStep

(* Time does not pass beyond the limit of a poll.                          *)
LEMMA TickTimely ==
    ASSUME SqlLabTypeOK, Timely, NoUpdateMissed, Tick
    PROVE  Timely' /\ NoUpdateMissed'
<1>0. clock \in Nat /\ queriesLastUpdate \in Nat /\ Skew \in Nat
      /\ MaxDelay \in Nat
  BY TimesAssumption DEF SqlLabTypeOK, TypeOK
<1>1. /\ clock' = clock + 1
      /\ UNCHANGED <<queries, queriesLastUpdate, poll, post, status, changedOn>>
  BY DEF Tick, Server!Tick, store, net
<1>2. queriesLastUpdate' <= clock' + Skew
  BY <1>0, <1>1 DEF Timely
<1>3. ASSUME NEW p \in Poll, poll[p].phase # "idle"
      PROVE  poll[p].sent <= clock' /\ clock' <= poll[p].sent + MaxDelay
  <2>1. poll[p] \in Request /\ poll[p] # Idle
    BY <1>3 DEF SqlLabTypeOK, Idle
  <2> QED
    BY <1>0, <1>1, <1>3, <2>1 DEF Timely, Tick, Request
<1>4. NoUpdateMissed'
  BY <1>1 DEF NoUpdateMissed, Ghost
<1>5. Timely'
  BY <1>1, <1>2, <1>3 DEF Timely, Covers, Known, Ghost
<1> QED
  BY <1>4, <1>5

-----------------------------------------------------------------------------
(* Every step keeps the inductive invariant.                               *)
LEMMA InvStep ==
    SqlLabTypeOK /\ SqlLabInv /\ [SqlLabNext]_allVars => SqlLabInv'
<1> SUFFICES ASSUME SqlLabTypeOK, SqlLabInv, [SqlLabNext]_allVars
             PROVE  SqlLabInv'
  OBVIOUS
<1>1. Truthful'
  BY TruthfulStep DEF SqlLabInv
<1>2. Timely /\ NoUpdateMissed
  BY DEF SqlLabInv
<1>3. ASSUME NEW p \in Poll, PollStep(p)
      PROVE  Timely' /\ NoUpdateMissed'
  BY <1>2, <1>3, SendTimely, AnswerTimely, ReturnTimely, PollDropped
     DEF PollStep, PollFails
<1>4. ASSUME UNCHANGED allVars
      PROVE  Timely' /\ NoUpdateMissed'
  <2>1. /\ UNCHANGED <<queries, queriesLastUpdate, status, changedOn, clock>>
        /\ UNCHANGED <<post, poll>>
    BY <1>4 DEF allVars, store, server, net
  <2> QED
    BY <1>2, <2>1 DEF Timely, NoUpdateMissed, Covers, Known, Ghost
<1>5. Timely' /\ NoUpdateMissed'
  BY <1>2, <1>3, <1>4, UserAndPostTimely, ServerTimely, TickTimely
     DEF SqlLabNext
<1> QED
  BY <1>1, <1>5 DEF SqlLabInv

(* The initial states satisfy it: there is no row yet and no request.      *)
LEMMA InvInit == SqlLabInit => SqlLabInv
BY TimesAssumption
   DEF SqlLabInit, Init, Server!Init, SqlLabInv, Truthful, Timely,
       NoUpdateMissed, Idle, NoRows, Absent

(* Type correctness, and what the page, the answers under way and the rows *)
(* know of each other at all times.                                        *)
THEOREM SqlLabInvCorrect == SqlLabSpec => [](SqlLabTypeOK /\ SqlLabInv)
<1>1. SqlLabInit => SqlLabTypeOK /\ SqlLabInv
  BY TypeInit, InvInit
<1>2. SqlLabTypeOK /\ SqlLabInv /\ [SqlLabNext]_allVars
         => (SqlLabTypeOK /\ SqlLabInv)'
  BY TypeStep, InvStep
<1> QED
  BY <1>1, <1>2, PTL DEF SqlLabSpec

(* In every state each variable of the page, the network and the server    *)
(* has its type: no answer in any order corrupts the store.                *)
THEOREM SqlLabTypeCorrect == SqlLabSpec => []SqlLabTypeOK
BY SqlLabInvCorrect, PTL

(* The page never shows a query as successful that is not.                 *)
THEOREM NoFalseSuccessCorrect == SqlLabSpec => []NoFalseSuccess
<1>1. SqlLabInv => NoFalseSuccess
  BY DEF SqlLabInv, Truthful, NoFalseSuccess
<1> QED
  BY <1>1, SqlLabInvCorrect, PTL

(* However many polls overtake each other, the window of the next one      *)
(* reaches back to every version the page does not have.                   *)
THEOREM NoUpdateMissedCorrect == SqlLabSpec => []NoUpdateMissed
<1>1. SqlLabInv => NoUpdateMissed
  BY DEF SqlLabInv
<1> QED
  BY <1>1, SqlLabInvCorrect, PTL
=============================================================================
