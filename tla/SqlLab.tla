------------------------------- MODULE SqlLab -------------------------------
(***************************************************************************)
(* SQL Lab end to end: one browser page (SqlLabClient) and the server      *)
(* behind it (QueryLifecycle, which SqlLabServer implements), connected by *)
(*   - one POST to sql_json per query the page runs (actions.js runQuery), *)
(*     answered once, in its own time, or never;                           *)
(*   - GETs of queries/<since>, which QueryAutoRefresh sends every second  *)
(*     whatever became of the ones before it, so that several may be under *)
(*     way and return in any order.                                        *)
(* Connections break, the page is reloaded, and other pages of the same    *)
(* user run queries this one only sees when it polls.                      *)
(*                                                                         *)
(* Time counts in the unit of changed_on.  A GET that takes longer than    *)
(* MaxDelay has failed; a write becomes visible at most CommitDelay after  *)
(* its stamp was taken; the browser's clock is ahead by Skew.              *)
(***************************************************************************)
EXTENDS SqlLabClient

CONSTANTS
    Poll,           \* the GETs of queries/<since> that may be under way
    MaxClock,       \* bound on the clock, for model checking
    Buffer,         \* QUERY_UPDATE_BUFFER_MS
    MaxDelay,
    CommitDelay,
    Skew

ASSUME TimesAssumption ==
    /\ Buffer \in Nat /\ MaxDelay \in Nat /\ CommitDelay \in Nat /\ Skew \in Nat

(* What the buffer has to cover for no update to be missed.                *)
ASSUME BufferAssumption == Skew + MaxDelay + CommitDelay <= Buffer

VARIABLES
    status, changedOn, reply, clock,    \* see QueryLifecycle
    post,       \* post[q]: the POST of q is "none", "open" or "closed"
    origin,     \* origin[q]: the sql_editor_id q was sent with
    poll        \* poll[p]: a GET under way, or Idle

server == <<status, changedOn, reply, clock>>
net    == <<post, origin, poll>>
allVars == <<store, server, net>>

Server == INSTANCE QueryLifecycle

(* The rows a GET returned; Absent where the query is not among them.      *)
Rows == [Query -> Entry \cup {Absent}]
NoRows == [q \in Query |-> Absent]
Request == [phase : {"sent", "read"}, since : Int, sent : Nat, rows : Rows]
Idle == [phase |-> "idle", since |-> 0, sent |-> 0, rows |-> NoRows]

SqlLabTypeOK ==
    /\ TypeOK
    /\ status \in [Query -> {"absent", "running"} \cup Server!Settled]
    /\ changedOn \in [Query -> Nat]
    /\ reply \in [Query -> {"none", "results", "error"}]
    /\ clock \in Nat
    /\ post \in [Query -> {"none", "open", "closed"}]
    /\ origin \in [Query -> Editor \cup {NoEditor, Undefined}]
    /\ poll \in [Poll -> Request \cup {Idle}]

SqlLabInit ==
    /\ Init
    /\ Server!Init
    /\ post = [q \in Query |-> "none"]
    /\ origin = [q \in Query |-> Undefined]
    /\ poll = [p \in Poll |-> Idle]

-----------------------------------------------------------------------------
(* The user.                                                               *)

RunQuery(q) ==
    /\ post[q] = "none"
    /\ \E e \in Editor \cup {NoEditor} :
          /\ StartQuery(q, e)
          /\ origin' = [origin EXCEPT ![q] = e]
    /\ post' = [post EXCEPT ![q] = "open"]
    /\ UNCHANGED <<server, poll>>

(* Another page of the same user runs q.                                   *)
RunElsewhere(q) ==
    /\ post[q] = "none"
    /\ post' = [post EXCEPT ![q] = "closed"]
    /\ UNCHANGED <<store, server, origin, poll>>

Stop(q) ==
    /\ queries[q].state = "running"
    /\ queries[q].sqlEditorId \in queryEditors
    /\ StopQuery(q)
    /\ UNCHANGED <<server, net>>

Remove(q) ==
    /\ queries[q].sqlEditorId \in queryEditors
    /\ RemoveQuery(q)
    /\ UNCHANGED <<server, net>>

EditTabs ==
    /\ \/ \E e \in Editor : AddQueryEditor(e) \/ RemoveQueryEditor(e)
       \/ ResetState
    /\ UNCHANGED <<server, net>>

(* The page is reloaded: its requests are forgotten, its store is not.     *)
Reload ==
    /\ post' = [q \in Query |-> IF post[q] = "open" THEN "closed" ELSE post[q]]
    /\ poll' = [p \in Poll |-> Idle]
    /\ UNCHANGED <<store, server, origin>>

-----------------------------------------------------------------------------
(* The POST of a query.                                                    *)

(* Mutant of ReplyArrives: `complete` instead of `success` and `error`.    *)
ReplyArrivesUnchecked(q) ==
    /\ post[q] = "open"
    /\ reply[q] # "none"
    /\ QuerySuccess(q)
    /\ post' = [post EXCEPT ![q] = "closed"]
    /\ UNCHANGED <<server, origin, poll>>

ReplyArrives(q) ==
    /\ post[q] = "open"
    /\ \/ reply[q] = "results" /\ QuerySuccess(q)
       \/ reply[q] = "error" /\ QueryFailed(q)
    /\ post' = [post EXCEPT ![q] = "closed"]
    /\ UNCHANGED <<server, origin, poll>>

(* The connection breaks; what the server makes of the request is unknown. *)
PostFails(q) ==
    /\ post[q] = "open"
    /\ QueryFailed(q)
    /\ post' = [post EXCEPT ![q] = "closed"]
    /\ UNCHANGED <<server, origin, poll>>

-----------------------------------------------------------------------------
(* Polling.                                                                *)

(* Mutant of SendPoll: asks for what changed since the last update.        *)
SendPollUnbuffered(p) ==
    /\ poll[p] = Idle
    /\ poll' = [poll EXCEPT ![p] =
                  [phase |-> "sent", since |-> queriesLastUpdate,
                   sent |-> clock, rows |-> NoRows]]
    /\ UNCHANGED <<store, server, post, origin>>

SendPoll(p) ==
    /\ poll[p] = Idle
    /\ poll' = [poll EXCEPT ![p] =
                  [phase |-> "sent", since |-> queriesLastUpdate - Buffer,
                   sent |-> clock, rows |-> NoRows]]
    /\ UNCHANGED <<store, server, post, origin>>

(* views/core.py queries and Query.to_dict.                                *)
RowsSince(since) ==
    [q \in Query |->
        IF status[q] # "absent" /\ changedOn[q] >= since
        THEN [state |-> status[q], changedOn |-> changedOn[q],
              sqlEditorId |-> origin[q]]
        ELSE Absent]

Answer(p) ==
    /\ poll[p].phase = "sent"
    /\ poll' = [poll EXCEPT ![p].phase = "read", ![p].since = 0,
                            ![p].rows = RowsSince(poll[p].since)]
    /\ UNCHANGED <<store, server, post, origin>>

(* An empty answer changes nothing, queriesLastUpdate included.  One       *)
(* without any of the queries in Query may still not be empty: the user    *)
(* may have others.                                                        *)
PollReturns(p) ==
    /\ poll[p].phase = "read"
    /\ \/ RefreshQueries(poll[p].rows, clock + Skew)
       \/ poll[p].rows = NoRows /\ UNCHANGED store
    /\ poll' = [poll EXCEPT ![p] = Idle]
    /\ UNCHANGED <<server, post, origin>>

PollFails(p) ==
    /\ poll[p] # Idle
    /\ poll' = [poll EXCEPT ![p] = Idle]
    /\ UNCHANGED <<store, server, post, origin>>

-----------------------------------------------------------------------------
(* The server.  It only hears of a query through its POST, which may reach *)
(* it after the page has given up on it.                                   *)

Prompt(q) == clock - changedOn'[q] <= CommitDelay

ServerStep(q) ==
    /\ \/ post[q] # "none" /\ Server!Open(q)
       \/ Server!Touch(q) /\ Prompt(q)
       \/ Server!Settle(q) /\ Prompt(q)
       \/ Server!ReplyResults(q)
       \/ Server!ReplyError(q)
    /\ UNCHANGED <<store, net>>

(* Time does not pass beyond the limit of a GET.                           *)
Tick ==
    /\ \A p \in Poll : poll[p] # Idle => clock < poll[p].sent + MaxDelay
    /\ Server!Tick
    /\ UNCHANGED <<store, net>>

-----------------------------------------------------------------------------
UserStep ==
    \/ \E q \in Query : RunQuery(q) \/ RunElsewhere(q) \/ Stop(q) \/ Remove(q)
    \/ EditTabs
    \/ Reload

PostStep == \E q \in Query : ReplyArrives(q) \/ PostFails(q)

PollStep(p) ==
    SendPoll(p) \/ Answer(p) \/ PollReturns(p) \/ PollFails(p)

SqlLabNext ==
    \/ UserStep
    \/ PostStep
    \/ \E p \in Poll : PollStep(p)
    \/ \E q \in Query : ServerStep(q)
    \/ Tick

SqlLabSpec == SqlLabInit /\ [][SqlLabNext]_allVars

(* The page keeps polling, and of the polls it sends not all fail.         *)
SqlLabFairness ==
    \A p \in Poll :
        /\ WF_allVars(SendPoll(p))
        /\ SF_allVars(Answer(p))
        /\ SF_allVars(PollReturns(p))

FairSqlLabSpec == SqlLabSpec /\ SqlLabFairness

-----------------------------------------------------------------------------
(* The page shows a query as successful only if it is a committed success, *)
(* whatever was stopped, removed, reloaded or overtaken in between: the    *)
(* CSV download and the chart builder it then offers find their row.       *)
NoFalseSuccess ==
    \A q \in Query : queries[q].state = "success" => status[q] = "success"

(* An entry made up by alterInObject for a query that was removed.         *)
Ghost(q) ==
    queries[q].changedOn = Undefined /\ queries[q].sqlEditorId = Undefined

(* The buffer is wide enough: a row whose latest version the page does not *)
(* have is still within the window the next poll asks for.                 *)
NoUpdateMissed ==
    \A q \in Query :
        status[q] # "absent" /\ ~Ghost(q) =>
            \/ queries[q].changedOn = changedOn[q]
            \/ changedOn[q] >= queriesLastUpdate - Buffer

(* Every query on the page is in the end shown in its latest version, even *)
(* though answers overtake each other.                                     *)
EventuallyCurrent ==
    \A q \in Query :
        <>[](status[q] \in Server!Settled /\ ~Ghost(q) =>
                queries[q].changedOn = changedOn[q])

(* The reducer's "fetch the updates to the queries present in the store":  *)
(* a query whose row has settled is not shown as running for ever.         *)
UpdatesFetched ==
    \A q \in Query :
        <>[](status[q] \in Server!Settled =>
                queries[q].state # "running")

-----------------------------------------------------------------------------
(* The inductive invariant behind NoFalseSuccess and NoUpdateMissed.       *)

(* Nobody says success of a query that is not.                             *)
Truthful ==
    \A q \in Query :
        /\ reply[q] = "results" => status[q] = "success"
        /\ queries[q].state = "success" => status[q] = "success"
        /\ \A p \in Poll :
              poll[p].rows[q].state = "success" => status[q] = "success"

Known(q) == queries[q].changedOn = changedOn[q] \/ Ghost(q)

(* What merging the answer of p will do for q: bring its current version,  *)
(* or leave it outdated but inside the window that follows, or leave it    *)
(* alone because it has the current version already.                       *)
Covers(p, q) ==
    \/ /\ poll[p].rows[q] # Absent
       /\ poll[p].rows[q].changedOn = changedOn[q]
    \/ changedOn[q] >= poll[p].sent - CommitDelay
    \/ /\ poll[p].rows[q] = Absent
       /\ Known(q)
       /\ changedOn[q] < poll[p].sent + Skew - Buffer

Timely ==
    /\ queriesLastUpdate <= clock + Skew
    /\ \A q \in Query : post[q] = "none" => status[q] = "absent"
    /\ \A p \in Poll :
          /\ poll[p].phase # "idle" =>
                poll[p].sent <= clock /\ clock <= poll[p].sent + MaxDelay
          /\ poll[p].phase = "sent" =>
                poll[p].since <= poll[p].sent + Skew - Buffer
    /\ \A p \in Poll, q \in Query : status[q] # "absent" =>
          /\ poll[p].phase = "sent" =>
                Known(q) \/ changedOn[q] >= poll[p].since
          /\ poll[p].phase = "read" => Covers(p, q)

(* What the page, the answers under way and the rows know of each other.   *)
SqlLabInv == Truthful /\ Timely /\ NoUpdateMissed
=============================================================================
