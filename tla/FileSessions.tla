--------------------------- MODULE FileSessions ---------------------------
(***************************************************************************)
(* Tickets, tokens and file server sessions of users who log in through    *)
(* CAS.                                                                    *)
(*                                                                         *)
(* While a login waits for CAS to validate it, CAS calls back with the     *)
(* ticket the login may use, which is put into a file all web workers      *)
(* share, as its first line; the line read, later, is the first.  With the *)
(* ticket a worker fetches the user's token, with the token it logs in to  *)
(* the file server, and each worker keeps both in a cache of its own.      *)
(* File and cache each have a lock, which is one per worker too.           *)
(***************************************************************************)
EXTENDS Naturals, FiniteSets

CONSTANTS
    Worker,       \* web worker processes
    User,
    Request,
    Deployments,  \* how many requests each worker may serve at once
    MaxServed,    \* bound on what users ask
    MaxKills,     \* bound on workers killed
    None, Lost    \* of a lock: free, and kept by a request that raised

ASSUME SessionsAssumption ==
    /\ Deployments \subseteq [Worker -> Nat]
    /\ MaxServed \in Nat /\ MaxKills \in Nat
    /\ {None, Lost} \cap Request = {} /\ None # Lost /\ None \notin User \cup Worker

VARIABLES
    threads,   \* how many requests each worker serves at once
    req,       \* the requests under way
    served, kills,
    calls,     \* tickets whose callback is on its way
    there,     \* whether the ticket file exists
    first,     \* the ticket on its first line
    stored,    \* tickets whose callback was answered
    overtaken, \* ghost: tickets that another was put before
    session,   \* session[u]: the ticket in u's browser session
    entered,   \* users who are logged in
    lock, mutex,
    token,     \* token[w]: users whose token w has cached
    client,    \* client[w][u]: the file server session cached for u
    open,      \* file server sessions
    disputed   \* ghost: those of which a logout did not find the server of one mind

ticketVars == <<there, first, stored, overtaken, lock>>
cacheVars == <<mutex, token, client>>
vars == <<threads, req, served, kills, calls, ticketVars, session, entered, cacheVars, open, disputed>>

(* Tickets and file server sessions have the number of the request that    *)
(* asked for them; 0 is none.                                              *)
Number == 0..MaxServed

Kinds == {"login", "callback", "index", "list", "connect", "logout"}
Idle == [pc |-> "idle", kind |-> "list", user |-> None, worker |-> None,
         number |-> 0, ticket |-> 0, client |-> 0, met |-> FALSE]
Call == [pc : {"validate", "lock", "mknod", "write", "token", "read", "again", "cacheToken",
               "setToken", "connect", "cacheClient", "setClient", "use", "forget"},
         kind : Kinds, user : User \cup {None}, worker : Worker, number : Number,
         ticket : Number, client : Number, met : BOOLEAN]

TypeOK ==
    /\ threads \in Deployments
    /\ req \in [Request -> Call \cup {Idle}]
    /\ served \in Number /\ kills \in 0..MaxKills
    /\ calls \subseteq Number /\ stored \subseteq Number /\ overtaken \subseteq Number
    /\ there \in BOOLEAN /\ first \in Number
    /\ session \in [User -> Number] /\ entered \subseteq User
    /\ lock \in [Worker -> Request \cup {None, Lost}]
    /\ mutex \in [Worker -> Request \cup {None, Lost}]
    /\ token \in [Worker -> SUBSET User]
    /\ client \in [Worker -> [User -> Number]]
    /\ open \subseteq Number /\ disputed \subseteq Number

Init ==
    /\ threads \in Deployments
    /\ req = [r \in Request |-> Idle]
    /\ served = 0 /\ kills = 0
    /\ calls = {} /\ stored = {} /\ overtaken = {}
    /\ there = FALSE /\ first = 0
    /\ session = [u \in User |-> 0] /\ entered = {}
    /\ lock = [w \in Worker |-> None] /\ mutex = [w \in Worker |-> None]
    /\ token = [w \in Worker |-> {}]
    /\ client = [w \in Worker |-> [u \in User |-> 0]]
    /\ open = {} /\ disputed = {}

Serving(w) == {r \in Request : req[r].worker = w}
Room(w) == Cardinality(Serving(w)) < threads[w]

Set(r, c) == req' = [req EXCEPT ![r] = c]
Goto(r, pc) == Set(r, [req[r] EXCEPT !.pc = pc])
End(r) == Set(r, Idle)

(* Ghost: requests of one user that meet in a worker.                      *)
Meeting(u, w) == {s \in Serving(w) : req[s].user = u}

Ask(r, w, c) ==
    /\ req[r] = Idle /\ Room(w) /\ served < MaxServed
    /\ served' = served + 1
    /\ req' = [s \in Request |->
                 IF s = r THEN [c EXCEPT !.worker = w, !.number = served + 1,
                                         !.met = Meeting(c.user, w) # {}]
                 ELSE IF s \in Meeting(c.user, w) THEN [req[s] EXCEPT !.met = TRUE]
                 ELSE req[s]]

-----------------------------------------------------------------------------
(* Logging in.                                                             *)

(* The ticket is validated; CAS first calls back with the one to be used.  *)
StartLogin(r, w, u) ==
    /\ Ask(r, w, [Idle EXCEPT !.pc = "validate", !.kind = "login", !.user = u,
                              !.ticket = served + 1])
    /\ calls' = calls \cup {served + 1}
    /\ UNCHANGED <<threads, kills, ticketVars, session, entered, cacheVars, open, disputed>>

StartCallback(r, w) ==
    \E t \in calls :
        /\ req[r] = Idle /\ Room(w)
        /\ calls' = calls \ {t}
        /\ Set(r, [Idle EXCEPT !.pc = "lock", !.kind = "callback", !.worker = w,
                               !.ticket = t])
        /\ UNCHANGED <<threads, served, kills, ticketVars, session, entered, cacheVars, open, disputed>>

(* Mutant of TakeLock: no lock.                                            *)
TakeLockNot(r) ==
    /\ req[r].pc = "lock"
    /\ lock' = [lock EXCEPT ![req[r].worker] = r]
    /\ Goto(r, IF there THEN "write" ELSE "mknod")
    /\ UNCHANGED <<threads, served, kills, calls, there, first, stored, overtaken,
                   session, entered, cacheVars, open, disputed>>

TakeLock(r) ==
    /\ req[r].pc = "lock" /\ lock[req[r].worker] = None
    /\ lock' = [lock EXCEPT ![req[r].worker] = r]
    /\ Goto(r, IF there THEN "write" ELSE "mknod")
    /\ UNCHANGED <<threads, served, kills, calls, there, first, stored, overtaken,
                   session, entered, cacheVars, open, disputed>>

MakeFile(r) ==
    /\ req[r].pc = "mknod" /\ ~there
    /\ there' = TRUE
    /\ Goto(r, "write")
    /\ UNCHANGED <<threads, served, kills, calls, first, stored, overtaken, lock,
                   session, entered, cacheVars, open, disputed>>

(* Another worker made it meanwhile: mknod raises, and the lock is kept.   *)
MakeFileAgain(r) ==
    /\ req[r].pc = "mknod" /\ there
    /\ lock' = [lock EXCEPT ![req[r].worker] = Lost]
    /\ End(r)
    /\ UNCHANGED <<threads, served, kills, calls, there, first, stored, overtaken,
                   session, entered, cacheVars, open, disputed>>

(* Mutant of PutFirst: new lines go to the end of the file.                *)
PutLast(t) == IF first = 0 THEN t ELSE first

PutFirst(t) == t

WriteTicket(r) ==
    LET t == req[r].ticket IN
    /\ req[r].pc = "write"
    /\ first' = PutFirst(t)
    /\ overtaken' = (overtaken \cup stored) \ {t}
    /\ stored' = stored \cup {t}
    /\ lock' = [lock EXCEPT ![req[r].worker] = None]
    /\ End(r)
    /\ UNCHANGED <<threads, served, kills, calls, there, session, entered, cacheVars, open, disputed>>

(* The file cannot be made, opened or written, or raises once written: the *)
(* lock is kept.                                                           *)
FileRaises(r) ==
    LET t == req[r].ticket IN
    /\ req[r].pc \in {"mknod", "write"}
    /\ \/ UNCHANGED <<first, overtaken>>
       \/ /\ req[r].pc = "write"
          /\ first' = PutFirst(t)
          /\ overtaken' = (overtaken \cup stored) \ {t}
    /\ lock' = [lock EXCEPT ![req[r].worker] = Lost]
    /\ End(r)
    /\ UNCHANGED <<threads, served, kills, calls, there, stored, session, entered,
                   cacheVars, open, disputed>>

CasAnswers(r) ==
    LET c == req[r] IN
    /\ c.pc = "validate" /\ c.ticket \in stored
    /\ session' = [session EXCEPT ![c.user] = c.ticket]
    /\ End(r)
    /\ UNCHANGED <<threads, served, kills, calls, ticketVars, entered, cacheVars, open, disputed>>

(* Mutant of Unanswered: an answer without a ticket does not raise.        *)
UnansweredNone(c) == [session EXCEPT ![c.user] = None]

Unanswered(c) == session

(* The callback failed: CAS answers without a ticket, which raises.        *)
CasRefuses(r) ==
    LET t == req[r].ticket IN
    /\ req[r].pc = "validate"
    /\ t \notin calls \cup stored /\ \A s \in Request \ {r} : req[s].ticket # t
    /\ session' = Unanswered(req[r])
    /\ End(r)
    /\ UNCHANGED <<threads, served, kills, calls, ticketVars, entered, cacheVars, open, disputed>>

-----------------------------------------------------------------------------
(* Tokens and file server sessions.                                        *)

(* index, to which a login is redirected                                   *)
StartIndex(r, w, u) ==
    /\ session[u] # 0
    /\ Ask(r, w, [Idle EXCEPT !.pc = "read", !.kind = "index", !.user = u,
                              !.ticket = session[u]])
    /\ UNCHANGED <<threads, kills, calls, ticketVars, session, entered, cacheVars, open, disputed>>

(* A list of files, login or logout; only login does without get_client.   *)
StartHdfs(r, w, u) ==
    \E kind \in {"list", "connect", "logout"} :
        LET cached == IF kind = "connect" THEN 0 ELSE client[w][u] IN
        /\ u \in entered
        /\ Ask(r, w, [Idle EXCEPT !.pc = IF cached # 0 THEN "use" ELSE "token",
                                  !.kind = kind, !.user = u,
                                  !.ticket = session[u], !.client = cached])
        /\ UNCHANGED <<threads, kills, calls, ticketVars, session, entered, cacheVars, open, disputed>>

GetToken(r) ==
    LET c == req[r] IN
    /\ c.pc = "token"
    /\ Goto(r, IF c.user \in token[c.worker] THEN "connect" ELSE "read")
    /\ UNCHANGED <<threads, served, kills, calls, ticketVars, session, entered, cacheVars, open, disputed>>

(* get_pgt.  The ticket is read twice, once for the list of the user's     *)
(* tokens and once for the token.  Without it both requests are refused.   *)
ReadTicket(r) ==
    LET c == req[r] IN
    /\ c.pc \in {"read", "again"}
    /\ there => lock[c.worker] = None
    /\ IF there /\ first = c.ticket
       THEN Goto(r, IF c.pc = "read" THEN "again" ELSE "cacheToken")
       ELSE End(r)
    /\ UNCHANGED <<threads, served, kills, calls, ticketVars, session, entered, cacheVars, open, disputed>>

(* The file cannot be opened or read: the lock is kept.                    *)
ReadRaises(r) ==
    LET c == req[r] IN
    /\ c.pc \in {"read", "again"} /\ there /\ lock[c.worker] = None
    /\ lock' = [lock EXCEPT ![c.worker] = Lost]
    /\ End(r)
    /\ UNCHANGED <<threads, served, kills, calls, there, first, stored, overtaken,
                   session, entered, cacheVars, open, disputed>>

(* do_cache, until the value is set                                        *)
TakeMutex(r) ==
    LET c == req[r] IN
    /\ c.pc \in {"cacheToken", "cacheClient"} /\ mutex[c.worker] = None
    /\ mutex' = [mutex EXCEPT ![c.worker] = r]
    /\ Goto(r, IF c.pc = "cacheToken" THEN "setToken" ELSE "setClient")
    /\ UNCHANGED <<threads, served, kills, calls, ticketVars, session, entered,
                   token, client, open, disputed>>

(* Mutant of AfterSet: the lock is kept.                                   *)
AfterSetKept(w) == mutex

AfterSet(w) == [mutex EXCEPT ![w] = None]

SetToken(r) ==
    LET c == req[r] IN
    /\ c.pc = "setToken"
    /\ token' = [token EXCEPT ![c.worker] = @ \cup {c.user}]
    /\ mutex' = AfterSet(c.worker)
    /\ IF c.kind = "index" THEN End(r) /\ entered' = entered \cup {c.user}
       ELSE Goto(r, "connect") /\ UNCHANGED entered
    /\ UNCHANGED <<threads, served, kills, calls, ticketVars, session, client, open, disputed>>

(* Mutant of Forgotten: the client stays in the cache.                     *)
ForgottenNot(c) == client

Forgotten(c) == [client EXCEPT ![c.worker][c.user] = 0]

(* The file server logs the user in, or does not.                          *)
Connect(r) ==
    LET c == req[r] IN
    /\ c.pc = "connect"
    /\ open' = open \cup {c.number}
    /\ Set(r, [c EXCEPT !.pc = "cacheClient", !.client = c.number])
    /\ UNCHANGED <<threads, served, kills, calls, ticketVars, session, entered, cacheVars, disputed>>

(* The server logged the user in, but its answer was lost: nobody knows of *)
(* the session.                                                            *)
ConnectRaises(r) ==
    /\ req[r].pc = "connect"
    /\ open' = open \cup {req[r].number}
    /\ End(r)
    /\ UNCHANGED <<threads, served, kills, calls, ticketVars, session, entered, cacheVars, disputed>>

ConnectRefused(r) ==
    LET c == req[r] IN
    /\ c.pc = "connect"
    /\ client' = Forgotten(c)
    /\ End(r)
    /\ UNCHANGED <<threads, served, kills, calls, ticketVars, session, entered,
                   mutex, token, open, disputed>>

SetClient(r) ==
    LET c == req[r] IN
    /\ c.pc = "setClient"
    /\ client' = [client EXCEPT ![c.worker][c.user] = c.client]
    /\ mutex' = AfterSet(c.worker)
    /\ IF c.kind = "connect" THEN End(r) ELSE Goto(r, "use")
    /\ UNCHANGED <<threads, served, kills, calls, ticketVars, session, entered, token, open, disputed>>

(* simple_cache.set raises, and the lock is kept.                          *)
SetRaises(r) ==
    LET c == req[r] IN
    /\ c.pc \in {"setToken", "setClient"}
    /\ mutex' = [mutex EXCEPT ![c.worker] = Lost]
    /\ End(r)
    /\ UNCHANGED <<threads, served, kills, calls, ticketVars, session, entered,
                   token, client, open, disputed>>

Use(r) ==
    /\ req[r].pc = "use" /\ req[r].kind = "list"
    /\ End(r)
    /\ UNCHANGED <<threads, served, kills, calls, ticketVars, session, entered, cacheVars, open, disputed>>

(* Mutant of Closed: the session is left to the server's own timeout.      *)
ClosedNot(c) == open

Closed(c) == open \ {c.client}

Logout(r) ==
    /\ req[r].pc = "use" /\ req[r].kind = "logout"
    /\ open' = Closed(req[r])
    /\ Goto(r, "forget")
    /\ UNCHANGED <<threads, served, kills, calls, ticketVars, session, entered, cacheVars, disputed>>

(* The server does not end the session; nobody looks at its answer.        *)
LogoutRefused(r) ==
    /\ req[r].pc = "use" /\ req[r].kind = "logout"
    /\ disputed' = disputed \cup {req[r].client}
    /\ Goto(r, "forget")
    /\ UNCHANGED <<threads, served, kills, calls, ticketVars, session, entered, cacheVars, open>>

(* The server ended the session, but its answer was lost: the client stays *)
(* in the cache.                                                           *)
LogoutRaises(r) ==
    /\ req[r].pc = "use" /\ req[r].kind = "logout"
    /\ open' = Closed(req[r])
    /\ disputed' = disputed \cup {req[r].client}
    /\ End(r)
    /\ UNCHANGED <<threads, served, kills, calls, ticketVars, session, entered, cacheVars>>

Forget(r) ==
    LET c == req[r] IN
    /\ c.pc = "forget"
    /\ client' = Forgotten(c)
    /\ End(r)
    /\ UNCHANGED <<threads, served, kills, calls, ticketVars, session, entered,
                   mutex, token, open, disputed>>

(* A call to CAS, the permission service or the file server raises, and    *)
(* nothing came of it there.                                               *)
Fail(r) ==
    /\ req[r].pc \in {"validate", "read", "again", "connect", "use"}
    /\ End(r)
    /\ UNCHANGED <<threads, served, kills, calls, ticketVars, session, entered, cacheVars, open, disputed>>

(* Behind gunicorn a worker that answers nothing for --timeout seconds is  *)
(* killed and replaced.                                                    *)
Kill(w) ==
    /\ \A v \in Worker : threads[v] <= 1
    /\ kills < MaxKills /\ Serving(w) # {}
    /\ kills' = kills + 1
    /\ req' = [r \in Request |-> IF r \in Serving(w) THEN Idle ELSE req[r]]
    /\ lock' = [lock EXCEPT ![w] = None] /\ mutex' = [mutex EXCEPT ![w] = None]
    /\ token' = [token EXCEPT ![w] = {}]
    /\ client' = [client EXCEPT ![w] = [u \in User |-> 0]]
    /\ UNCHANGED <<threads, served, calls, there, first, stored, overtaken,
                   session, entered, open, disputed>>

(* What goes on by itself.                                                 *)
Step(r) ==
    \/ TakeLock(r) \/ MakeFile(r) \/ MakeFileAgain(r) \/ WriteTicket(r) \/ FileRaises(r)
    \/ CasAnswers(r) \/ CasRefuses(r)
    \/ GetToken(r) \/ ReadTicket(r) \/ ReadRaises(r) \/ TakeMutex(r) \/ SetToken(r)
    \/ Connect(r) \/ ConnectRefused(r) \/ ConnectRaises(r) \/ SetClient(r) \/ SetRaises(r)
    \/ Use(r) \/ Logout(r) \/ LogoutRefused(r) \/ LogoutRaises(r) \/ Forget(r)

Next ==
    \/ \E r \in Request :
          \/ Step(r) \/ Fail(r)
          \/ \E w \in Worker :
                \/ StartCallback(r, w)
                \/ \E u \in User : StartLogin(r, w, u) \/ StartIndex(r, w, u) \/ StartHdfs(r, w, u)
    \/ \E w \in Worker : Kill(w)

(* A request goes on if it can, and a worker with room takes what waits.   *)
Fairness ==
    /\ \A r \in Request : WF_vars(Step(r))
    /\ WF_vars(\E r \in Request, w \in Worker : StartCallback(r, w))

Spec == Init /\ [][Next]_vars /\ Fairness

-----------------------------------------------------------------------------
(* In a worker at most one request at a time is between taking a lock and  *)
(* giving it back, and a lock that is taken is some request's, or was left *)
(* by one that raised.                                                     *)
Writing == {"mknod", "write"}
Setting == {"setToken", "setClient"}
Exclusive ==
    \A w \in Worker :
        /\ \A r \in Request : lock[w] = r <=> r \in Serving(w) /\ req[r].pc \in Writing
        /\ \A r \in Request : mutex[w] = r <=> r \in Serving(w) /\ req[r].pc \in Setting

(* A user who is logged in can have a token from any worker, unless        *)
(* another login's ticket came after: only then is it not the first line.  *)
TicketFound ==
    \A u \in User : session[u] # 0 /\ session[u] \notin overtaken =>
        there /\ first = session[u]

(* A client that a worker keeps has a session of the worker's own on the   *)
(* file server, whatever becomes of the user's sessions with other         *)
(* workers, unless a logout is about to forget it or one raised after the  *)
(* server had ended the session.                                           *)
KeptOpen ==
    \A w \in Worker, u \in User : client[w][u] \notin open \cup disputed \cup {0} =>
        \E r \in Meeting(u, w) : req[r].pc = "forget" /\ req[r].client = client[w][u]

(* A worker lets go of a session that is still open only when it is asked  *)
(* to log in again, is killed, two requests of the user met, or the server *)
(* refused the logout.                                                     *)
LeftOpen(w, u) ==
    \/ kills' # kills
    \/ \E r \in Meeting(u, w) :
          \/ req[r].kind = "connect" \/ req[r].met
          \/ req[r].pc = "forget" /\ req[r].client = client[w][u] /\ client[w][u] \in disputed
ClosedOrKept ==
    [][\A w \in Worker, u \in User :
          client[w][u] \in open /\ client'[w][u] # client[w][u] =>
              client[w][u] \notin open' \/ LeftOpen(w, u)]_vars

(* A request ends, unless it or its callback waits for a lock that a       *)
(* request left behind, or its callback finds every worker busy, be it     *)
(* with logins that wait for theirs.                                       *)
Waiting(r) ==
    LET c == req[r] IN
    \/ c.pc = "lock" /\ lock[c.worker] = Lost
    \/ c.pc \in {"read", "again"} /\ there /\ lock[c.worker] = Lost
    \/ c.pc \in {"cacheToken", "cacheClient"} /\ mutex[c.worker] = Lost
Stuck(r) ==
    LET t == req[r].ticket IN
    \/ Waiting(r)
    \/ /\ req[r].pc = "validate"
       /\ \/ t \in calls /\ (\A w \in Worker : ~Room(w))
          \/ \E s \in Request : req[s].kind = "callback" /\ req[s].ticket = t /\ Waiting(s)
EndsUnlessStuck ==
    \A r \in Request : req[r] # Idle ~> req[r] = Idle \/ Stuck(r)

-----------------------------------------------------------------------------
(* The inductive invariant.                                                *)

(* What is not overtaken is the first line.                                *)
FileKept ==
    /\ \A t \in stored \ overtaken : there /\ first = t
    /\ \A u \in User : session[u] # 0 => session[u] \in stored
    /\ \A r \in Request : req[r].pc = "write" => there

(* Requests are numbered, and meet as they say.                            *)
Numbered ==
    /\ \A r \in Request : req[r] # Idle =>
          /\ req[r].worker \in Worker
          /\ req[r].user = None <=> req[r].kind = "callback"
          /\ req[r].kind = "callback" => req[r].pc \in {"lock"} \cup Writing
          /\ req[r].kind # "callback" =>
                req[r].pc \notin {"lock"} \cup Writing /\ req[r].number \in 1..served
    /\ \A r, s \in Request :
          r # s /\ req[r].user # None /\ req[s].user # None =>
             /\ req[r].number # req[s].number
             /\ req[r].user = req[s].user /\ req[r].worker = req[s].worker =>
                   req[r].met /\ req[s].met
    /\ open \subseteq 1..served
    /\ \A w \in Worker, u \in User : client[w][u] \in 0..served

(* Until it connects, a request has no file server session; then it has    *)
(* one of its own, or its worker's.                                        *)
Before == {"token", "read", "again", "cacheToken", "setToken", "connect"}
Connected == {"cacheClient", "setClient"}
Fresh(n) ==
    /\ \A w \in Worker, u \in User : client[w][u] # n
    /\ \A s \in Request : req[s].client = n => req[s].number = n
Owned ==
    /\ \A r \in Request :
          /\ req[r].pc \in Before =>
                /\ req[r].client = 0 /\ req[r].number \notin open /\ Fresh(req[r].number)
          /\ req[r].pc \in Connected =>
                /\ req[r].client = req[r].number
                /\ req[r].number \in open /\ Fresh(req[r].number)
          /\ req[r].pc \in {"use", "forget"} => req[r].client \in 1..served
          /\ req[r].pc = "forget" => req[r].client \notin open \ disputed
          /\ req[r].client # 0 => req[r].pc \in Connected \cup {"use", "forget"}
    /\ \A w, v \in Worker, u, x \in User :
          client[w][u] = client[v][x] /\ client[w][u] # 0 => w = v /\ u = x
    /\ \A r \in Request, w \in Worker, u \in User :
          req[r].client = client[w][u] /\ client[w][u] # 0 =>
             req[r].worker = w /\ req[r].user = u

(* What a request that meets no other found in the cache is still there.   *)
Unmet ==
    \A r \in Request : req[r].kind \in {"list", "logout"} /\ ~req[r].met =>
        /\ req[r].pc \in Before \cup Connected => client[req[r].worker][req[r].user] = 0
        /\ req[r].pc \in {"use", "forget"} =>
              client[req[r].worker][req[r].user] = req[r].client

(* Only requests for files get as far as the file server.                  *)
Placed ==
    \A r \in Request :
        /\ req[r].kind = "login" => req[r].pc = "validate"
        /\ req[r].kind = "index" => req[r].pc \in {"read", "again", "cacheToken", "setToken"}

Consistent ==
    TypeOK /\ Exclusive /\ FileKept /\ Placed /\ Numbered /\ Owned /\ Unmet /\ KeptOpen
=============================================================================
