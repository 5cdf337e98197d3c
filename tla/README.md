# Verification of pilot (a fork of Superset)

TLA+ modules for the parts of this repository whose correctness depends on the
order in which things happen: processes that die, requests that overlap, two
stores that are updated one after the other.  TLC checks the modules on small
instances, TLAPS proves the most important properties for all instances.
Sources are named relative to `src/superset/`, the browser's relative to
`src/superset/assets/javascripts/`.

Contents: [the system](#the-system), [modules](#modules),
[what each run checks](#runs), [fairness](#fairness), [proofs](#proofs),
[what was found](#findings), [plan](#plan), [what is not modelled](#not-modelled).

## The system

A Flask application (SQLAlchemy for its metadata database, Flask-AppBuilder for
its views) in several web workers, and React pages.  It talks to *warehouses*
(databases queried for charts and in SQL Lab), to the permission service
*Guardian*, to the CAS ticket server and to the HDFS file server *filerobot*.

| component | state | operations | hard because | correct if |
|---|---|---|---|---|
| SQL Lab server: `views/core.py` sql_json, `sql_lab.py`, `timeout_decorator.py`, `models/aider.py` Query | row of table `query`; the child's transaction; the one-slot queue; the warehouse's tables | insert row, fork, execute, commit, answer, time out, terminate | any process may die; COMMIT and statement outlive their sender; answers are written in pieces | row and reply agree; a row settles once; a table has one owner; every request is answered |
| SQL Lab page: `SqlLab/reducers.js`, `actions.js`, `QueryAutoRefresh.jsx` | queries, editors, `queriesLastUpdate`, kept in local storage | run, stop, remove, reply, poll, reload | overlapping polls, window by the browser's clock, reply against poll | no false success; no update falls out of the window; eventually current |
| Objects and Guardian: `views/base.py`, `views/{dashboard,slice,dataset,connection,guardian}.py`, `guardian/` | rows of dashboards, slices, datasets, connections; permission objects named by type and *name* | add, edit, delete, multiple delete, grant with dependencies, revoke | database first, Guardian second, each may fail; names are reused | Guardian has of each name what was granted on the object that has it; what is written is what was checked |
| Dashboard folders: `models/dashboard.py`, `views/dashboard.py` | materialised paths `1/4/9` | add, rename, move, delete, list | two commits per insert; paths compared and replaced as strings; concurrent moves | paths form a tree; a folder is below its parent; depth is limited |
| Release: `views/core.py` release_object | `online` flags | online (with dependencies), offline | a commit per object; links change meanwhile | what is answered as released is online with its dependencies of the same owner |
| Import, export: `models/*.import_obj`, `views/dashboard.py` | objects by name, a solution per name | show the names that are taken, import with solution skip, overwrite or rename | a commit per item; the solution was chosen on an earlier state | every item ends as chosen; only what the user chose is overwritten; nothing is left half written but where an import failed |
| Tickets, tokens, file server sessions: `cache.py`, `cas/`, `views/hdfs.py` | a mutex and a lock per worker, a ticket file all workers share, caches | log in, callback, read ticket, cache, log in to the file server, log out | locks kept on exceptions; caches and locks are per worker, the file is not; a login waits for its own callback | a lock has one holder; a stored ticket is found until another comes before it; a file server session is kept by a worker or closed, unless the server and a logout disagree |
| CSV export, HDFS upload | temporary tables named by the second; files written in blocks | export, upload, remove | same name, failure in the middle | an export returns its own rows; an upload is complete or gone |
| Stars, counters, logs: `models/aider.py`, `views/core.py` favstar | rows without uniqueness constraints | like, unlike, count | check, then insert | an object has one star of each user who likes it |
| Dashboard and slice saving: `views/core.py`, `views/{dashboard,slice}.py` | links between dashboards and slices, rows without uniqueness constraint | save, add slices, edit, delete, copy | pages of any age, read before write | a save removes only what its user removed; each link is there once |

The page talks to the SQL Lab server by one POST per query and by polling; the
server's child talks to the metadata database and to the warehouse; SQL Lab's
temporary tables are read again by the CSV export and by the chart builder.
Objects are the targets of release, import and folders, and all of these call
Guardian.

PROJECT.json lists every component with its status, and under `hazards` the
places where each of these can go wrong, with the properties that would notice.

## Modules

| module | what it is |
|---|---|
| `QueryLifecycle` | the abstract specification: what SQL Lab's server promises about one query |
| `SqlLabServer` | the server: request handler, child, metadata database, warehouse |
| `SqlLabServerProofs` | its theorems |
| `SqlLabClient` | the page's store, one action per action type of the reducer |
| `SqlLab` | page, network and abstract server composed |
| `SqlLabProofs` | theorems of the composition |
| `GuardianObjects` | objects in the database, permissions in Guardian, the views between them |
| `GuardianObjectsProofs` | its theorems |
| `Forest` | the abstract specification of folders: a parent function |
| `FolderTree` | the paths of folders and the views that rewrite them; implements `Forest` |
| `ForestProofs` | that a `Forest` stays one |
| `FolderTreeProofs` | the theorems of `FolderTree`, and that it implements `Forest` |
| `Dashboards` | links of dashboards and slices, stars, release |
| `DashboardsProofs` | its theorems |
| `ImportOrder` | the order of the steps of an import, from the structure of a file |
| `ImportSolution` | imports step by step, with their solutions |
| `ImportProofs` | its theorems |
| `FileSessions` | tickets, tokens and file server sessions in several workers |
| `FileSessionsProofs` | its theorems |
| `MC...` | each an instance for TLC: model values, functions, symmetry |

Four conventions hold in the modules from `GuardianObjects` on.  `req[r]` is what
request slot `r` is serving, with the values the handler has read so far and the
step it is at; an action is one transaction, or one call to another service.  A
request may end at any step (`Fail`), which stands for an exception as well as
for a killed process.  `served` counts requests, only to bound a behaviour.
Where the code is known to lose track under interleavings (two stores without a
common transaction, rows without constraints), a *ghost* variable records
exactly which names, links or rows met such a step, and the properties speak of
all others: so they say both what holds and what it takes to break it.  No
action's guard reads a ghost.

### QueryLifecycle

A row is created RUNNING and settles at most once, as SUCCESS or FAILED; there
is at most one reply; a reply with results is sent only once SUCCESS is
committed.  An error reply promises nothing: the row may stay RUNNING for ever
(`TIMED_OUT` exists in `utils.py` but nothing ever stores it) or settle
afterwards.  `changedOn` never decreases, and may be older than the commit that
makes it visible.

### SqlLabServer

| in the module | in the code |
|---|---|
| `status`, `tmpTable`, `changedOn` | committed columns of the `query` row |
| `pending`, `commitSent` | what the child has flushed, and a COMMIT under way |
| `handler` | position in `sql_json` and `_Timeout.__call__` / `ready` / `value` |
| `child`, `outcome` | position in `get_sql_results` / `_target`, and what it will put |
| `queue` | `multiprocessing.Queue(1)`: empty, begun to be written, written |
| `expired` | `self.__timeout < time.time()` |
| `answer` | the HTTP reply: results, the error of `handle_error`, another exception, the timeout, or a lost connection |
| `ctas`, `target` | `select_as_cta` and `tmp_table_name` of the request |
| `statement`, `creator` | the warehouse |

Handler, child, database and warehouse interleave freely.  Some readings of the
code that shape the actions:

- `ready` looks at the clock first, so `Cancel` may discard an answer that is
  already there; `value` evaluates `ready` a second time (`Value`) and then
  blocks in `Queue.get` (`Get`), which does not look at the clock.
- `Queue.put` returns before its feeder thread has written the pipe: the parent
  sees the queue non-empty (`BeginPut`) before the answer is complete (`EndPut`).
- `handle_error` covers refused statements, templates and `engine.execute`; all
  else that raises goes straight to `_target` and leaves the row RUNNING
  (`PrepareRaises`, `AfterExecuteRaises`).  An unnamed CREATE TABLE AS always
  takes that way: `start_time` is in milliseconds, `datetime.fromtimestamp`
  wants seconds.
- A session whose process dies loses what it flushed, unless the COMMIT is on
  its way (`Terminate`, `ApplyCommit`, `LoseCommit`).  `CommitRaises` leaves the
  child ignorant of what became of it.
- `engine.execute` may raise although the warehouse goes on with the statement.
- `CommitProgress` is `handle_cursor` of the Presto engine, the only one that
  commits while it polls.

### SqlLabClient and SqlLab

`SqlLabClient` keeps, of each query in the store, its state, `changedOn` and
`sqlEditorId`.  `Alter` is `alterInObject`, which creates the entry it does not
find: the reply of a removed query brings back an entry with nothing but a
state (a `Ghost`).  `RefreshQueries` is the merge of a poll: it takes whatever
has another `changedOn`, older ones too.

`SqlLab` adds the network.  `post[q]` is the POST of a query, `poll[p]` a GET of
`queries/<since>`; a GET is sent with the window of that moment (`SendPoll`),
reads the rows later (`Answer`) and is merged later still (`PollReturns`).  The
server is `QueryLifecycle` by INSTANCE: the page can only see a row and a reply.
`Reload` forgets all requests and keeps the store (`redux-localstorage`).
`RunElsewhere` is another page of the same user: its queries appear in polls.

The window is right only under bounds the code takes for granted, so they are
constants: a GET is answered within `MaxDelay` or fails; a write becomes visible
within `CommitDelay` of its stamp; the browser's clock is ahead by `Skew`;
`BufferAssumption` says the buffer (5 s in the code) covers their sum.

### GuardianObjects

| in the module | in the code |
|---|---|
| `name` | the rows of slices, datasets, connections and dashboards, by id (one variable, since only names are told to Guardian) |
| `perms` | Guardian: permissions by type and name |
| `req` | a request, with the object and the names it has read (`old`, `new`), the permissions still to grant (`left`) and the objects still to visit (`todo`) |
| `acl` | ghost: what was granted on an object and not revoked |
| `astray` | ghost: names on which two requests met, one of them renaming, or one failed between the stores |

| actions | in the code |
|---|---|
| `StartAdd`, `CommitAdd`, `Reread`, `Grant` | `_add`, `post_add`, `copy_dash`, `save_slice`: commit, read the row again, grant READ and EDIT one call at a time |
| `StartEdit`, `Check`, `CommitEdit`, `Reread`, `RenamePermObj` | `_edit`, `pre_update`, `post_update` |
| `CommitOverwrite` | `overwrite_slice`: `session.merge`, and Guardian is not told of the new name |
| `StartDelete`, `NextDelete`, `CommitDelete`, `DelPermObj` | `_delete`, `muldelete`, object by object |
| `StartGrant`, `CheckAdmin`, `Find`, `Visit`, `NextGrant`, `Grant` | `grant_permissions`, `grant_relations`, `GuardianAdmin.grant` |
| `Revoke` | `revoke_permissions`, which looks at no object and at no dependency |
| `LoginAgain` | `catch_guardian_exception`: the call begins again |

A commit expires the object, so `post_add` and `post_update` tell Guardian the
name that is in the database by then (`Reread`), which another request may have
changed.  `CheckedIsWritten` is about the opposite distance: the check is made
by name, the write by id.

### Forest and FolderTree

`Forest` is a parent function, `Below(f)` the least set with `f` that is closed
under children; it says what an addition, a move of a subtree, a removal and the
placing of a dashboard may change.  `FolderTree` has the table instead: `rows`,
`used` (ids given out) and `path`, where an id is a sequence over `Digit` and a path
a sequence of digits and slashes, since the code handles both as text: `Replace`
is `str.replace`, `Mentions` the four LIKE patterns, `ParentPath` is
`get_parent_path` with its `find`, `Join` the concatenation that makes a path.
`Trees` are the paths there may be at first; in each, every path is an id or
another folder's path with an id more (`Written`).  The actions are the
transactions of `add_folder` (`InsertFolder`, `ReadParent`, `SetPath`),
`move_folder` (`StartMove` with its conditions `Movable`, `CommitMove`,
`MoveToRoot`), `delete_folder` (`StartDelete`, `DeleteRow`, `DeleteFolders`) and
`move_dashboard`.

`parentBar` is the tree that `get_children` shows, and
`F == INSTANCE Forest WITH parent <- parentBar, place <- placeBar` the refinement.
The views do lose the tree, in seven ways; each is spelled out as the condition
under which its action keeps `orderly` true (`Keep(...)`): a parent moved or
deleted while a folder is added below it; ids written inside one another in the
paths of a move, and what a move was computed from having changed before its
commit (both in `Same`, judged when the move is written: it would be accepted now
and write the same); folders below one that is moved to the root; a folder at
the root that is deleted before what is in it; folders or dashboards moved in or
out while a deletion runs; a dashboard put into a folder that is going.
`ImplementsForest` says that nothing else does.  `Consistent` is the inductive
invariant: what a request carries at each step (`Shape`, where `Known` are the
folders that have a path or are gone), and, while `orderly`, `InOrder`: the shown
paths are `Written`, and each dashboard is at the root or in a folder that is
shown.

### Dashboards

| in the module | in the code |
|---|---|
| `rows` | `dashboard_slices`, which has no unique constraint: a pair and the slot that inserted it |
| `stars` | `favstar`, likewise |
| `there`, `online` | the rows of objects, their `online` flag |
| `page` | what a browser page or form was loaded with, however long ago |
| `wanted`, `liked` | ghosts: what users meant, by what they saw and what they sent |
| `astray`, `excused` | ghosts: links and stars that met another request or an older page; what was linked or put offline during a release |

SQLAlchemy writes the difference between the links it has read and the list it
is given (`ReadLinks`, `CommitLinks`) and refuses a DELETE that does not find as
many rows as it expects (`Matches`).  `save_dash`, adding slices and the edit forms
of both sides (`SaveDash`, `AddSlices`, `EditLinks`) only differ in the list they
give.  `CommitDelete` removes the links that were read and is stopped by the
foreign key if there are others; the stars go in a commit of their own.
`release_object` is `StartRelease`, one `Visit` per object and commit, and
`AnswerRelease`.

### ImportOrder and ImportSolution

`ImportOrder` composes, from the structure of a file, the sequence of steps that
the nested `import_obj` methods take: `find` (look the item up by name), `look` (a
slice looks its dataset up), `write`.  `ImportSolution` is parameterised by such
an order.  `OrderAssumption` is what it relies on: an item is written after it was
searched and after everything it needs (connections before what they came with,
slices before their dashboard), and what a slice looks up by name is the one
thing it needs and was written before (the datasets of a file come first).

| in the module | in the code |
|---|---|
| `rows` | each id's name, what it is linked to, and from where it is: a user's, an import's, or *half* an import's (a dataset without its columns yet) |
| `owned` | the names on which somebody has the owner's permissions |
| `req` | an import: what the user was shown, the solution, the step it is at, what was found and made so far |
| `moved`, `broken` | ghosts: names that changed hands since the user was shown them; rows at which an import failed, or which were renamed under its hands |

`BeforeImport` is `before_import`, `StartImport` with `Solutions` the dialog and
`check_solution`; `FindItem`, `LookUp`, `AddItem`, `OverwriteItem`, `SkipItem`,
`WriteColumns` and `GrantOwner` are the steps of one item.  `LoseDashboard` is
its own action because a dashboard without slices never reaches the session.
`UserAdds`, `UserRenames`, `UserDeletes` are the rest of the world.

`ImportedAsChosen` speaks of a finished import and of the items that are `Calm`:
neither their names nor those of what they need changed hands since the user was
shown them, no other item was renamed to them (`Spared`), and a dashboard has
slices.  `Underway` says the same of an import that is not finished yet, of every
item it has passed: `Dealt` for its row, name and content, `Linked` for its links.

### FileSessions

| in the module | in the code |
|---|---|
| `threads` | how many requests a worker serves at once: 1 behind gunicorn, many in debug mode |
| `there`, `first` | the ticket file and its first line, the only one that is read |
| `lock`, `mutex` | `PGTFile`'s and the cache's lock; globals, so one of each per worker |
| `token`, `client` | what `TokenCache` and `FileRobotCache` keep, per worker |
| `calls`, `stored` | callbacks CAS has sent and those that were answered |
| `session`, `entered` | the browser's session |
| `open` | sessions on the file server |
| `overtaken`, `met` | ghosts: tickets another one was put before; requests of one user that met in a worker |
| `disputed` | ghost: sessions whose logout was refused, or raised after the server had ended them |

`StartLogin` waits (`validate`) until CAS answers, which CAS does after its own
call to `/proxyCallback/` was served: `StartCallback`, `TakeLock`, `MakeFile` or
`MakeFileAgain`, `WriteTicket`.  Reading the file, prepending and writing are one action,
since only the first line is ever used.  `GetToken`, `ReadTicket` (twice: list,
then token), `TakeMutex`, `SetToken`, `Connect`, `SetClient` follow `get_client`
and the two caches; `Logout` and `Forget` are the two steps of
`/hdfs/logout`.

A call that raises may have done its work or not.  `Fail` is a call to CAS, the
permission service or the file server that did nothing.  `ConnectRaises` is a login
whose answer is lost when the session is open; `LogoutRaises` a logout whose answer
is lost when the session has ended, which leaves the client cached; `LogoutRefused`
one the server refuses: `logout` does not look at the answer and goes on to
`Forget`.  `FileRaises` and `ReadRaises` are errors of the ticket file between
taking the lock and giving it back, before or after the line was written;
`SetRaises` is the same of a cache.  `Kill` is gunicorn's timeout: the worker's locks and caches go with
it, the file and the file server's sessions stay.

## Runs

| run | instance | properties | shows |
|---|---|---|---|
| `sqllab_server_safety` | 2 queries, 1 table, clock stopped, symmetry | `TypeOK`, `AnswerMatchesRow`, `SuccessOwnsTable` | replies agree with rows; a table has one owner |
| `sqllab_server_lifecycle` | 1 query, 1 table, clock to 3 | `Consistent`, `ImplementsLifecycle`, `CallEndsUnlessTorn` | refinement, the inductive invariant, every request answered |
| `sqllab_call_ends` | 1 query | `CallEnds`, violated | see findings |
| `sqllab_timeout_ends_execution` | 1 query | `TimeoutEndsExecution`, violated | see findings |
| `guardian_objects` | owner and admin, a slice with its dataset, 2 names, 2 requests at once, 3 in all, symmetry | `TypeOK`, `PermissionsMatch`, `CheckedIsWritten`, `Consistent` | Guardian has of a name what was granted on its object; what is written is what was checked |
| `folder_tree` | ids 1, 2, 3, 4 and 12, a dashboard, 3 trees to begin with, depth 2, 2 requests at once, 4 in all, symmetry | `TypeOK`, `TreeShown`, `Consistent`, `ImplementsForest` | every folder is shown where its path says; the views change a forest by one subtree at a time |
| `dashboards` | a dashboard, 2 slices of one dataset, 2 users, a page, 2 requests at once, 3 in all, symmetry | `TypeOK`, `LinksAsMeant`, `StarsAsMeant`, `ReleaseComplete`, `Consistent` | saves do not undo one another; releases are complete |
| `import_solution` | a file with 2 dashboards, 2 slices, a dataset and a connection; a database that is empty or has the dataset; 2 imports or an import and another user, symmetry | `TypeOK`, `ImportedAsChosen`, `Whole`, `Consistent`, `Underway`, `OnlyChosenOverwritten` | an import does what was chosen, and leaves nothing half done but where it failed |
| `file_sessions` | 2 gunicorn workers of 1 request, or 1 process of 2 threads; 2 users, 4 requests of theirs and their callbacks, a worker killed | `TypeOK`, `Exclusive`, `TicketFound`, `KeptOpen`, `Consistent`, `ClosedOrKept`, `EndsUnlessStuck` | locks, tickets and sessions, whatever the file server did when its answer is lost; every request ends unless it or its callback waits for a lost lock, or no worker is free for its callback |
| `sqllab_safety` | 1 query, 2 polls, clock to 4, buffer 2 = delay 1 + commit 1 | `SqlLabTypeOK`, `NoFalseSuccess`, `NoUpdateMissed`, `SqlLabInv` | the store never invents a success; the window never loses a version; the inductive invariant |
| `sqllab_liveness` | 1 query, 2 polls, clock to 2, buffer 1 = delay 1 | `EventuallyCurrent` | the store converges |
| `sqllab_updates_fetched` | 1 query, 1 poll | `UpdatesFetched`, violated | see findings |

Why the bounds are enough.  Queries of the server only meet in the warehouse's
table names, two at a time, so two queries asking for one table show every
conflict; a request that stops at any of its steps is the same for one query as
for many.  Stamps are only compared within one query, which the second run does
with a clock that reaches each of a row's three writes.  In the page's store
queries meet in `queriesLastUpdate` and in whether an answer is empty:
`PollReturns` lets an answer without the query at hand be non-empty, so one
query sees everything others can do to it.  Two polls are what it takes for one
to overtake another; the clock reaches beyond buffer + delay + commit delay, so
the window leaves a version behind.

In the other modules two request slots are enough because disorder takes two
requests: each reads, another writes, the first writes; a third request can only
do again what one of the two does.  `MaxServed` leaves room for one more request
before or after the two that meet (a third in `guardian_objects` and
`dashboards`, a third and fourth in `folder_tree` and `file_sessions`; an import
is as long as a dozen requests, and two of them already meet at every pair of
steps).  `Lists` are the lists of permissions a grant may name: one permission, and
two, which can be interrupted in between.  One of the ids of folders is written
with the digits of two others, so that everything `find`, `replace` and LIKE can
confuse is there; the trees have a chain of three, a branch and a look-alike,
and `MaxDepth` = 2 is reached by one folder more.  The file of the import has each
way an item can be needed: by two others (the connection), from a connection and
by name (the slices), by nothing (the dashboard without slices).  The two
deployments of `file_sessions` are the ones `cli.py` starts: with several workers
the caches part, with several threads the locks matter.

Deadlock is not checked where the bounds end every behaviour, which is
everywhere but in `SqlLab`, whose page polls for ever.  The server of SQL Lab
really stops, when every request is answered and every child has ended; that
requests are not stuck is `CallEndsUnlessTorn` and `EndsUnlessStuck` instead.

## Fairness

`SqlLabServer!Fairness`: the handler keeps going (`StartProcess` or
`StartFails`, `Cancel`, `Get`), time passes (`Expire`), and a child that lives
finishes the write it began (`EndPut`).  Nothing is assumed of the warehouse,
of the database, or of the child before that: the time limit is there to do
without them.  `SqlLab!SqlLabFairness`: `setInterval` keeps sending (weak), and
not every GET fails or is cut off by a reload (strong fairness of `Answer` and
`PollReturns`).  `FileSessions!Fairness`: a request takes its next step when it can
(CAS and the file server answer, or refuse; each wait for a lock is weakly fair
only, so a lock passed to others for ever would starve it, which the number of
requests excludes), and a worker with room accepts a callback that waits.  Raising
is one way to take the step, and never the only one.
Neither `Fail` nor `Kill` is assumed to happen, so nothing ends only because it is
killed.

`GuardianObjects`, `FolderTree`, `Dashboards` and `ImportSolution` state safety only:
their requests wait for nothing but the database and Guardian, and what matters
is what they leave if they do not go on.

## Proofs

`SqlLabServerProofs` proves, for every set of queries and of table names:

- `TypeCorrect`: `Spec => []TypeOK`.
- `InvariantCorrect`: `Spec => []Consistent`.  `Consistent` is the inductive
  invariant.  `AnswerMatchesRow` alone is not inductive: that the reply's
  status is committed follows from what the queue holds, that from the child's
  position, that from what a COMMIT under way will write.  `HandlerInv`,
  `ChildInv`, `TransactionInv` and `TableInv` follow this chain.
- `AnswerMatchesRowCorrect`, `SuccessOwnsTableCorrect`: consequences of it.
- `LifecycleImplemented`: `Spec => Lifecycle!Spec`.  Each action maps to an
  action of `QueryLifecycle` or stutters; `Consistent` supplies that a row still
  runs when a COMMIT is applied, and that stamps do not go back.

The assumptions are that `NoTable` and `NoQuery` are not a table and a query,
and that `MaxClock` is a number.

`SqlLabProofs` proves, for every set of queries, editors and polls under way, and
for every delay, skew and buffer:

- `SqlLabTypeCorrect`: `SqlLabSpec => []SqlLabTypeOK`.
- `SqlLabInvCorrect`: `SqlLabSpec => [](SqlLabTypeOK /\ SqlLabInv)`.
  `NoUpdateMissed` is not inductive: a poll merged now replaces the store by rows
  read earlier, and moves the window by the time of the merge.  `Timely` adds
  what every poll under way *covers*: a row it carries in its current version,
  or a version younger than the poll itself minus `CommitDelay`, or one the
  page has and will keep.  `Merged` is the heart of it: after a merge the page
  has the current version or that version lies inside the new window, which is
  where `Skew + MaxDelay + CommitDelay <= Buffer` is used.  `Truthful` says that
  replies, rows under way and store say success only of what is one.
- `NoFalseSuccessCorrect`, `NoUpdateMissedCorrect`: consequences of it.

The assumptions are `TimesAssumption` (the four times are natural numbers) and
`BufferAssumption`.

`GuardianObjectsProofs`, for every set of users, names, objects, requests and
every relation of dependencies (`ObjectsAssumption`):

- `ConsistentAlways`: `Spec => []Consistent`, the inductive invariant.  That the
  permissions of a name are those of its object breaks between the two commits
  of every request; `Halfway` says what is true of the two stores meanwhile, by
  kind of request, `Shape` what a request has read at each step, `Held` that the
  name it read is still the object's, unless astray, and `Spread` that a request
  cannot carry a name that is in order to one that is not.
- `TypeCorrect`, `PermissionsMatchAlways`, `CheckedIsWrittenAlways`: consequences.

`ForestProofs`, for every set of folders and dashboards:

- `ForestStaysRooted`: `Spec => []Sound` for `Forest`, where `Sound` is
  `orderly => TypeOK /\ Rooted`.  `Below` and `Rooted` are stated with closed
  sets instead of paths, so each step of the proof names the closed set that a
  folder out of reach would give.

`FolderTreeProofs`, for every set of digits and of ids written in them, every
first tree, depth, and number of requests (`FolderAssumption`: ids are not empty
and have no slash, folders are not dashboards, the first trees are `Written`):

- `ConsistentAlways`: `Spec => []Consistent`.  `TreeShown` is not inductive: what
  `parentBar` finds by prefix and depth says nothing of how a path was made,
  and a path is carried by a request before it is written.  `InOrder` says how
  paths are made, from which `OneParent` and `DepthOfJoin` get that `parentBar`
  finds the parent and nothing else.
- `TypeCorrect`, `TreeShownAlways`: consequences.
- `ForestImplemented`: `Spec => F!Spec`.  Where no id is written inside another,
  an id is first found at the end of its folder's path (`FoundAtTheEnd`), so
  `get_parent_path` gives the parent's path; that is found at the beginning of the
  paths below and nowhere else (`FoundAtTheBeginning`), so `replace` changes each
  path once, at its beginning (`ReplacedOnce`), which is the move of the whole
  subtree (`MovedTree`).  The LIKE patterns find exactly what is below a folder
  (`MentioningIsBelow`).  With `ForestStaysRooted`, no sequence of the views'
  orderly steps makes a cycle.

`Replace` recurs over the places of a text.  That the recursion has a solution
(`PlacesExist`) is an induction over numbers, which the proofs take from the least
number with no solution (`LeastNumber`), as they take all inductions over a
folder's ancestors from the shortest path (`TreeLeast`).

`DashboardsProofs`, for every set of dashboards, slices, users and pages
(`DashboardsAssumption`):

- `ConsistentAlways`: `Prepared` says that what a request carries to its commit
  fits what its user asked for, `Spreading` that what a release has seen leads
  only to what it has seen or will see.
- `TypeCorrect`, `LinksAsMeantAlways`, `StarsAsMeantAlways`: consequences.
- `ReleaseCompleteAlways`: at the answer nothing is left to see, so what was seen
  is closed under dependencies, and `Reach`, the least closed set, lies in it.

`ImportProofs`, for every file, every order of its steps with the properties of
`OrderAssumption`, every database, any number of imports and of other users
(`ImportAssumption`; only `UnderwayAlways` and what follows use the order's
properties):

- `ConsistentAlways`: `Remembered` (what an import found still has its name,
  unless the name changed hands) and `ToCome` (what a row lacks, the import still
  at it will bring).
- `TypeCorrect`, `WholeAlways`: consequences.
- `OnlyChosenOverwrittenAlways`: the action property, step by step, from
  `Remembered`.
- `UnderwayAlways`: `Spec => []Underway`.  `ImportedAsChosen` speaks of the last
  step only; `Underway` is it for every step.  A `Certain` item is found where it
  was shown, is written once and keeps its row, since everybody else's steps only
  touch rows whose names change hands; the needs of a `Calm` item are certain
  (`CalmIsCertain`), so its links are to rows that stay (`LinkedMade`).  `Fits` is
  what `check_solution` has to give: nobody renames to a name that was shown as
  taken.
- `ImportedAsChosenAlways`: at the end every item is passed.

`FileSessionsProofs`, for every set of workers, users and requests, and for
every number of threads (`SessionsAssumption`):

- `ConsistentAlways`: `FileKept` (what is not overtaken is the first line),
  `Numbered` (requests are numbered, and know whom they met), `Owned` (a file
  server session belongs to one request, then to one worker and user), `Unmet`
  (a request that met no other finds the cache as it left it), `Placed`.  What a
  logout forgets is closed or `disputed`, and so is a cached client without an open
  session; a session opened by a login that raised is nobody's, and its number is
  never used again.
- `TypeCorrect`, `ExclusiveAlways`, `TicketFoundAlways`, `KeptOpenAlways`:
  consequences.
- `ClosedOrKeptAlways`: the action property, from `Owned` and `Unmet`.  The
  sessions a worker may leave open are those of `LeftOpen`: of a user asked to log
  in again, of requests that met, of a killed worker, and of a refused logout.

Every invariant, action property and refinement that a run checks is stated by a
theorem.  Only model-checked are the liveness properties (`CallEndsUnlessTorn`,
`EventuallyCurrent`, `EndsUnlessStuck`), which are beyond the proof system.  That
the orders `ImportOrder` composes satisfy `OrderAssumption` is evaluated by TLC for
the file of the run; for every file it would be an induction over the file, which
the proof system cannot do either.

## Findings

- `CallEnds`.  "termination of execution after a timeout has passed"
  (`timeout_decorator.py:155`) does not hold once `Queue.get` has begun: if the
  child dies while its answer is being written, the request waits for ever
  (until the web server kills its worker).
- `TimeoutEndsExecution`.  "Terminate any possible execution"
  (`timeout_decorator.py:191`) ends the child; the statement and a COMMIT
  already sent still take effect.
- `UpdatesFetched`.  "Fetch the updates to the queries present in the store"
  (`SqlLab/reducers.js:235`) misses a second version with the same `changed_on`,
  which MySQL keeps to the second.  A page that does not get the reply shows the
  query as running for ever.

The following contradict no documented promise, but are what the ghost variables
and the exceptions in the properties stand for; each is an ordinary behaviour of
the models.

*Objects.*  A slice overwritten under a new name leaves its permissions under the
old one, where the next object of that name finds them (`overwrite_slice`).  A
request that fails between the stores does the same to its name.  Revoking
permissions on an object leaves them on what it depends on, which granting had
reached.

*Folders.*  A folder at the root cannot be moved below another (`get_parent_path`
gives nothing to replace, which raises), and moving one to the root leaves the
paths of its subfolders.  Deleting a folder at the root deletes it first, as one
of its own dashboards, since both are rows of one table with the same path.  A
folder whose addition failed between the commits has no path, is never shown and
cannot be deleted.  Ids written inside other ids mislead `find` and `replace`:
folder 2 under folder 12.  Depth is checked when a folder is added, not when
one is moved.

*Release.*  A release that failed halfway is not repeated: its object is online
already, and has to be put offline first.  Somebody who does not own an object is told it is online, and nothing
was released.

*Dashboards.*  A link inserted twice makes every later removal of it fail, as
DELETE finds two rows where one is expected; it stays until the database is
repaired.

*Imports.*  A dashboard without slices is reported as imported, gets permissions
and is not stored.  If an item that two others need is renamed, the second visit
finds the new name taken and the import fails.  A dataset whose columns failed is
found by the repeated import, which skips it as it is.  Overwriting a row that was
renamed meanwhile gives the name back and leaves the permissions under the other.

*Sessions.*  Two users who log in at the same time fill two single-request
workers; neither's callback can be served until a worker is killed.  Two workers
that both find the ticket file missing call `mknod`; the second raises with the
lock taken, and no later callback or ticket of that worker is served.  A login
whose callback comes after another's takes the first line: whoever has the other
ticket can use what their worker has cached, and nothing else.  `/hdfs/login`
replaces a cached client without logging it out.  A logout whose answer is lost
after the server ended the session leaves the worker a client that no longer works,
until the user logs in or out again; a logout that the server refuses is reported
as done and its session stays open, as does that of a login whose answer is lost.
An error of the ticket file keeps the lock like the second `mknod` does.

## Plan

In this order; each module got its runs and, where marked, its proofs.

1. `QueryLifecycle`, `SqlLabServer`, proofs.  *Done.*
2. `SqlLabClient`, `SqlLab`, proofs of their safety.  *Done*; tables and previews
   are left.
3. `GuardianObjects`, proofs.  *Done*; read checks and lists are left.
4. `FolderTree` against `Forest`, proofs of both and of the refinement.  *Done*;
   renaming and the folders of a file are left.
5. `Dashboards`: links, stars and release, which share the links; proofs.
   *Done*; who may release is left.
6. `ImportSolution`, `ImportOrder`, proofs.  *Done*; the folders of a file are left.
7. `FileSessions`, proofs.  *Done*; the expiry of what is cached is left.

Next would be: the expiry of cached tokens and clients against the file server's
own timeout, with the proofs of `FileSessions` carried over; tables and previews
of the SQL Lab page; the folders of an imported file, which add to the tree by
name.

## Not modelled

Charts and query building (`viz.py`, `forms.py`), SQL parsing and templates,
reflection of tables, list and form pages, statistics, start-up and
configuration: functions of their input, or screens without shared state.
CSV export and HDFS upload: which of two transfers of one name wins is decided by
the warehouse and by the file server; the handlers keep no state and check
nothing.  Counters and logs: written, and read by the home page only.  Export: a
dump of what was read in one transaction.  Celery and the results backend are
documented (`docs/sqllab.rst`) but cannot be reached: `sql_json` always calls
`get_sql_results` directly and never passes `store_results`.  That a forked child
shares its parent's database sockets is left to the driver.
