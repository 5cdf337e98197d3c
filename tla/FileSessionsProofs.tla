------------------------ MODULE FileSessionsProofs ------------------------
(* Any number of workers, users and requests.                              *)
EXTENDS FileSessions, TLAPS

Record == Call \cup {Idle}

LEMMA RecordTyped ==
    ASSUME NEW c \in Record
    PROVE  /\ c # Idle => c \in Call
           /\ c.pc # "idle" => c \in Call
           /\ Idle.pc = "idle" /\ Idle.user = None /\ Idle.worker = None
           /\ Idle.client = 0 /\ Idle.met = FALSE /\ Idle.kind = "list" /\ Idle \in Record
BY DEF Record, Idle

LEMMA IdleFacts ==
    /\ Idle.pc = "idle" /\ Idle.user = None /\ Idle.worker = None
    /\ Idle.client = 0 /\ Idle.number = 0 /\ Idle.met = FALSE /\ Idle.kind = "list"
    /\ Idle \in Record
BY DEF Record, Idle

Asking == [pc : {"validate", "read", "token", "use"}, kind : Kinds, user : User,
           worker : {None}, number : {0}, ticket : Number, client : Number, met : BOOLEAN]

AskedBy(u) == {c \in Asking : c.user = u /\ c.kind # "callback"}

(* What a step that asks for something leaves behind.                      *)
LEMMA Asked ==
    ASSUME TypeOK, NEW r \in Request, NEW w \in Worker, NEW c, Ask(r, w, c),
           c \in Asking
    PROVE  /\ served' = served + 1 /\ served + 1 \in Number /\ req[r] = Idle
           /\ req' \in [Request -> Record]
           /\ req'[r] \in Call
           /\ req'[r].pc = c.pc /\ req'[r].kind = c.kind /\ req'[r].user = c.user
           /\ req'[r].worker = w /\ req'[r].number = served + 1
           /\ req'[r].client = c.client
           /\ req'[r].met = (Meeting(c.user, w) # {})
           /\ \A s \in Request \ {r} :
                 /\ req'[s].pc = req[s].pc /\ req'[s].kind = req[s].kind
                 /\ req'[s].user = req[s].user /\ req'[s].worker = req[s].worker
                 /\ req'[s].number = req[s].number /\ req'[s].client = req[s].client
                 /\ req[s].met => req'[s].met
                 /\ s \in Meeting(c.user, w) => req'[s].met
                 /\ req'[s] = Idle <=> req[s] = Idle
<1>1. /\ served \in Nat /\ served + 1 \in Number /\ served' = served + 1
  <2>1. served < MaxServed /\ served' = served + 1
    BY DEF Ask
  <2>2. served \in 0..MaxServed
    BY DEF TypeOK, Number
  <2> QED
    BY <2>1, <2>2, SessionsAssumption DEF Number
<1>2. req \in [Request -> Record] /\ req[r] = Idle
  BY DEF Ask, TypeOK, Record
<1> DEFINE m == Meeting(c.user, w) # {}
           d == [c EXCEPT !.worker = w, !.number = served + 1, !.met = m]
<1>9. m \in BOOLEAN
  OBVIOUS
<1>3. /\ d \in Call
      /\ d.pc = c.pc /\ d.kind = c.kind /\ d.user = c.user
      /\ d.worker = w /\ d.number = served + 1 /\ d.client = c.client
      /\ d.met = m
  <2> HIDE DEF m
  <2> DEFINE S == [pc : {"validate", "read", "token", "use"}, kind : Kinds, user : User,
                   worker : Worker, number : Number, ticket : Number, client : Number,
                   met : BOOLEAN]
  <2>1. d \in S
    BY <1>1, <1>9 DEF Asking
  <2>2. S \subseteq Call
    BY DEF Call
  <2>3. /\ d.pc = c.pc /\ d.kind = c.kind /\ d.user = c.user
        /\ d.worker = w /\ d.number = served + 1 /\ d.client = c.client
        /\ d.met = m
    BY DEF Asking
  <2> QED
    BY <2>1, <2>2, <2>3
<1>4. req' = [s \in Request |->
                 IF s = r THEN d
                 ELSE IF s \in Meeting(c.user, w) THEN [req[s] EXCEPT !.met = TRUE]
                 ELSE req[s]]
  BY DEF Ask
<1> HIDE DEF d
<1>5. ASSUME NEW s \in Meeting(c.user, w)
      PROVE  req[s] \in Call
  <2>1. s \in Request /\ req[s].user = c.user
    BY DEF Meeting, Serving
  <2>2. c.user # None
    BY SessionsAssumption DEF Asking
  <2> QED
    BY <1>2, <2>1, <2>2, RecordTyped
<1>6. ASSUME NEW s \in Request \ {r}
      PROVE  /\ req'[s] \in Record
             /\ req'[s].pc = req[s].pc /\ req'[s].kind = req[s].kind
             /\ req'[s].user = req[s].user /\ req'[s].worker = req[s].worker
             /\ req'[s].number = req[s].number /\ req'[s].client = req[s].client
             /\ req[s].met => req'[s].met
             /\ s \in Meeting(c.user, w) => req'[s].met
             /\ req'[s] = Idle <=> req[s] = Idle
  <2>1. CASE s \in Meeting(c.user, w)
    <3>1. req'[s] = [req[s] EXCEPT !.met = TRUE] /\ req[s] \in Call
      BY <1>4, <1>5, <2>1
    <3>2. /\ req'[s] \in Call /\ req'[s].pc = req[s].pc /\ req'[s].kind = req[s].kind
          /\ req'[s].user = req[s].user /\ req'[s].worker = req[s].worker
          /\ req'[s].number = req[s].number /\ req'[s].client = req[s].client
          /\ req'[s].met
      BY <3>1 DEF Call
    <3>3. req'[s] # Idle /\ req[s] # Idle
      BY <3>1, <3>2 DEF Call, Idle
    <3> QED
      BY <3>2, <3>3 DEF Record
  <2>2. CASE s \notin Meeting(c.user, w)
    BY <1>2, <1>4, <2>2
  <2> QED
    BY <2>1, <2>2
<1>7. req'[r] = d
  BY <1>4
<1>8. req' \in [Request -> Record]
  <2>1. \A s \in Request : req'[s] \in Record
    BY <1>3, <1>6, <1>7 DEF Record
  <2> QED
    BY <1>4, <2>1
<1> QED
  BY <1>1, <1>2, <1>3, <1>6, <1>7, <1>8

(* What the requests that users make look like.                            *)
LEMMA Asks ==
    ASSUME TypeOK, NEW r \in Request, NEW w \in Worker, NEW u \in User,
           StartLogin(r, w, u) \/ StartIndex(r, w, u) \/ StartHdfs(r, w, u)
    PROVE  \E c \in AskedBy(u) :
             /\ Ask(r, w, c)
             /\ c.pc # "use" => c.client = 0
             /\ c.kind \in {"list", "logout"} => c.client = client[w][u]
             /\ c.pc = "use" => c.kind \in {"list", "logout"} /\ c.client # 0
             /\ c.kind = "login" => c.pc = "validate"
             /\ c.kind = "index" => c.pc = "read"
             /\ UNCHANGED <<threads, kills, ticketVars, session, entered, cacheVars, open, disputed>>
<1>1. served + 1 \in Number /\ session \in [User -> Number]
      /\ client[w][u] \in Number /\ 0 \in Number
  <2>1. served < MaxServed
    <3>1. CASE StartLogin(r, w, u)
      BY <3>1 DEF StartLogin, Ask
    <3>2. CASE StartIndex(r, w, u)
      BY <3>2 DEF StartIndex, Ask
    <3>3. CASE StartHdfs(r, w, u)
      BY <3>3 DEF StartHdfs, Ask
    <3> QED
      BY <3>1, <3>2, <3>3
  <2> QED
    BY <2>1, SessionsAssumption DEF TypeOK, Number
<1>2. CASE StartLogin(r, w, u)
  <2> DEFINE c == [Idle EXCEPT !.pc = "validate", !.kind = "login", !.user = u,
                               !.ticket = served + 1]
  <2>1. Ask(r, w, c) /\ UNCHANGED <<threads, kills, ticketVars, session, entered, cacheVars, open, disputed>>
    BY <1>2 DEF StartLogin
  <2>2. /\ c \in AskedBy(u)
        /\ c.client = 0 /\ c.kind = "login" /\ c.pc = "validate"
    BY <1>1 DEF Idle, Kinds, AskedBy, Asking
  <2> HIDE DEF c
  <2> QED
    BY <2>1, <2>2
<1>3. CASE StartIndex(r, w, u)
  <2> DEFINE c == [Idle EXCEPT !.pc = "read", !.kind = "index", !.user = u,
                               !.ticket = session[u]]
  <2>1. Ask(r, w, c) /\ UNCHANGED <<threads, kills, ticketVars, session, entered, cacheVars, open, disputed>>
    BY <1>3 DEF StartIndex
  <2>2. /\ c \in AskedBy(u)
        /\ c.client = 0 /\ c.kind = "index" /\ c.pc = "read"
    BY <1>1 DEF Idle, Kinds, AskedBy, Asking
  <2> HIDE DEF c
  <2> QED
    BY <2>1, <2>2
<1>4. CASE StartHdfs(r, w, u)
  <2>1. PICK kind \in {"list", "connect", "logout"} :
          LET cached == IF kind = "connect" THEN 0 ELSE client[w][u] IN
          /\ Ask(r, w, [Idle EXCEPT !.pc = IF cached # 0 THEN "use" ELSE "token",
                                    !.kind = kind, !.user = u,
                                    !.ticket = session[u], !.client = cached])
          /\ UNCHANGED <<threads, kills, calls, ticketVars, session, entered, cacheVars, open, disputed>>
    BY <1>4 DEF StartHdfs
  <2> DEFINE cached == IF kind = "connect" THEN 0 ELSE client[w][u]
             c == [Idle EXCEPT !.pc = IF cached # 0 THEN "use" ELSE "token",
                               !.kind = kind, !.user = u,
                               !.ticket = session[u], !.client = cached]
  <2>2. /\ c \in AskedBy(u)
        /\ c.client = cached /\ c.kind = kind
        /\ c.pc = IF cached # 0 THEN "use" ELSE "token"
    BY <1>1 DEF Idle, Kinds, AskedBy, Asking
  <2>3. Ask(r, w, c) /\ UNCHANGED <<threads, kills, ticketVars, session, entered, cacheVars, open, disputed>>
    BY <2>1
  <2> HIDE DEF c
  <2> QED
    BY <2>2, <2>3
<1> QED
  BY <1>2, <1>3, <1>4

Same(c, d) ==
    /\ c.kind = d.kind /\ c.user = d.user /\ c.worker = d.worker
    /\ c.number = d.number /\ c.met = d.met

FreshNext(n) ==
    /\ \A w \in Worker, u \in User : client'[w][u] # n
    /\ \A s \in Request : req'[s].client = n => req'[s].number = n

Sessions == Numbered /\ Owned /\ Unmet /\ KeptOpen

(* Numbers stay as long as requests stay who they are.                     *)
LEMMA NumberedStays ==
    ASSUME TypeOK, Numbered, NEW r \in Request, NEW c \in Record,
           req' = [req EXCEPT ![r] = c], served' = served,
           open' \subseteq 1..served,
           \A w \in Worker, u \in User : client'[w][u] \in 0..served,
           req[r] # Idle,
           c # Idle =>
             /\ Same(c, req[r])
             /\ c.pc \in {"lock"} \cup Writing <=> req[r].pc \in {"lock"} \cup Writing
    PROVE  Numbered'
<1>1. /\ req \in [Request -> Record] /\ req'[r] = c
      /\ \A s \in Request : s # r => req'[s] = req[s]
  BY DEF TypeOK, Record
<1>2. Idle.user = None
  BY RecordTyped
<1>3. ASSUME NEW s \in Request, req'[s] # Idle
      PROVE  /\ req'[s].worker \in Worker
             /\ req'[s].user = None <=> req'[s].kind = "callback"
             /\ req'[s].kind = "callback" => req'[s].pc \in {"lock"} \cup Writing
             /\ req'[s].kind # "callback" =>
                   req'[s].pc \notin {"lock"} \cup Writing /\ req'[s].number \in 1..served
  <2>1. CASE s = r
    BY <1>1, <1>3, <2>1 DEF Numbered, Same
  <2>2. CASE s # r
    BY <1>1, <1>3, <2>2 DEF Numbered
  <2> QED
    BY <2>1, <2>2
<1>4. ASSUME NEW s \in Request, NEW q \in Request, s # q,
             req'[s].user # None, req'[q].user # None
      PROVE  /\ req'[s].number # req'[q].number
             /\ req'[s].user = req'[q].user /\ req'[s].worker = req'[q].worker =>
                   req'[s].met /\ req'[q].met
  <2>1. /\ req'[s].user = req[s].user /\ req'[s].worker = req[s].worker
        /\ req'[s].number = req[s].number /\ req'[s].met = req[s].met
    BY <1>1, <1>2, <1>4 DEF Same
  <2>2. /\ req'[q].user = req[q].user /\ req'[q].worker = req[q].worker
        /\ req'[q].number = req[q].number /\ req'[q].met = req[q].met
    BY <1>1, <1>2, <1>4 DEF Same
  <2> QED
    BY <1>4, <2>1, <2>2 DEF Numbered
<1> QED
  BY <1>1, <1>3, <1>4 DEF Numbered

(* A request goes on or ends, and touches no file server session.          *)
LEMMA QuietSessions ==
    ASSUME TypeOK, Sessions, NEW r \in Request, NEW c \in Record,
           req' = [req EXCEPT ![r] = c], UNCHANGED <<client, open, disputed, served>>,
           req[r].pc # "forget", req[r] # Idle,
           c # Idle =>
             /\ Same(c, req[r]) /\ c.client = req[r].client
             /\ c.pc \in {"lock"} \cup Writing <=> req[r].pc \in {"lock"} \cup Writing
             /\ c.pc \in Before <=> req[r].pc \in Before
             /\ c.pc \in Connected <=> req[r].pc \in Connected
             /\ c.pc = "use" <=> req[r].pc = "use"
             /\ c.pc # "forget"
    PROVE  Sessions'
<1>1. /\ req \in [Request -> Record] /\ req'[r] = c
      /\ \A s \in Request : s # r => req'[s] = req[s]
      /\ client' = client /\ open' = open /\ disputed' = disputed /\ served' = served
  BY DEF TypeOK, Record
<1>2. /\ Idle.pc = "idle" /\ Idle.user = None /\ Idle.worker = None
      /\ Idle.client = 0 /\ Idle.met = FALSE /\ Idle.kind = "list"
  BY RecordTyped
<1>3. Numbered'
  BY <1>1, NumberedStays DEF Sessions, Numbered, Same
<1>4. Owned'
  <2>1. ASSUME NEW n, Fresh(n), n # 0
        PROVE  FreshNext(n)
    BY <1>1, <1>2, <2>1 DEF Fresh, Same, FreshNext
  <2>2. ASSUME NEW s \in Request
        PROVE  /\ req'[s].pc \in Before =>
                    /\ req'[s].client = 0 /\ req'[s].number \notin open'
                    /\ FreshNext(req'[s].number)
               /\ req'[s].pc \in Connected =>
                    /\ req'[s].client = req'[s].number
                    /\ req'[s].number \in open' /\ FreshNext(req'[s].number)
               /\ req'[s].pc \in {"use", "forget"} => req'[s].client \in 1..served'
               /\ req'[s].pc = "forget" => req'[s].client \notin open' \ disputed'
               /\ req'[s].client # 0 => req'[s].pc \in Connected \cup {"use", "forget"}
    <3>1. req[s].pc \in Before \cup Connected => FreshNext(req[s].number)
      <4>1. ASSUME req[s].pc \in Before \cup Connected
            PROVE  Fresh(req[s].number) /\ req[s].number # 0
        <5>1. req[s] # Idle /\ req[s].pc \notin {"lock"} \cup Writing
          BY <1>2, <4>1 DEF Before, Connected, Writing
        <5>2. req[s].number \in 1..served
          BY <5>1 DEF Sessions, Numbered
        <5> QED
          BY <4>1, <5>2 DEF Sessions, Owned
      <4> QED
        BY <2>1, <4>1
    <3>2. CASE s # r
      BY <1>1, <3>1, <3>2 DEF Sessions, Owned
    <3>3. CASE s = r /\ c = Idle
      BY <1>1, <1>2, <3>3 DEF Before, Connected
    <3>4. CASE s = r /\ c # Idle
      BY <1>1, <3>1, <3>4 DEF Sessions, Owned, Same
    <3> QED
      BY <3>2, <3>3, <3>4
  <2>3. ASSUME NEW s \in Request, NEW w \in Worker, NEW u \in User,
               req'[s].client = client'[w][u], client'[w][u] # 0
        PROVE  req'[s].worker = w /\ req'[s].user = u
    BY <1>1, <1>2, <2>3 DEF Sessions, Owned, Same
  <2>4. \A w, v \in Worker, u, x \in User :
          client'[w][u] = client'[v][x] /\ client'[w][u] # 0 => w = v /\ u = x
    BY <1>1 DEF Sessions, Owned
  <2> QED
    BY <2>2, <2>3, <2>4 DEF Owned, Fresh, FreshNext
<1>5. Unmet'
  <2> SUFFICES ASSUME NEW s \in Request, req'[s].kind \in {"list", "logout"}, ~req'[s].met
               PROVE  /\ req'[s].pc \in Before \cup Connected =>
                            client'[req'[s].worker][req'[s].user] = 0
                      /\ req'[s].pc \in {"use", "forget"} =>
                            client'[req'[s].worker][req'[s].user] = req'[s].client
    BY DEF Unmet
  <2>1. CASE s # r
    BY <1>1, <2>1 DEF Sessions, Unmet
  <2>2. CASE s = r /\ c = Idle
    BY <1>1, <1>2, <2>2 DEF Before, Connected
  <2>3. CASE s = r /\ c # Idle
    BY <1>1, <2>3 DEF Sessions, Unmet, Same
  <2> QED
    BY <2>1, <2>2, <2>3
<1>6. KeptOpen'
  <2> SUFFICES ASSUME NEW w \in Worker, NEW u \in User, client'[w][u] \notin open' \cup disputed' \cup {0}
               PROVE  \E s \in Request : /\ req'[s].worker = w /\ req'[s].user = u
                                         /\ req'[s].pc = "forget"
                                         /\ req'[s].client = client'[w][u]
    BY DEF KeptOpen, Meeting, Serving
  <2>1. PICK s \in Meeting(u, w) : req[s].pc = "forget" /\ req[s].client = client[w][u]
    BY <1>1 DEF Sessions, KeptOpen
  <2> QED
    BY <1>1, <2>1 DEF Meeting, Serving
<1> QED
  BY <1>3, <1>4, <1>5, <1>6 DEF Sessions

(* A request that asked for files.                                         *)
LEMMA Active ==
    ASSUME TypeOK, Numbered, NEW r \in Request,
           req[r].pc \in Before \cup Connected \cup {"use", "forget"}
    PROVE  /\ req[r] \in Call /\ req[r] # Idle
           /\ req[r].worker \in Worker /\ req[r].user \in User /\ req[r].user # None
           /\ req[r].number \in 1..served /\ req[r].number # 0
           /\ req[r].kind # "callback"
           /\ req[r].pc \notin {"lock"} \cup Writing
<1>1. req[r].pc # "idle" /\ req[r].pc \notin {"lock"} \cup Writing
  BY DEF Before, Connected, Writing
<1>2. req[r] \in Call /\ req[r] # Idle
  BY <1>1, RecordTyped DEF TypeOK, Record
<1>3. /\ req[r].worker \in Worker /\ req[r].kind # "callback"
      /\ req[r].user # None /\ req[r].number \in 1..served
  BY <1>1, <1>2 DEF Numbered
<1>4. served \in Nat
  BY SessionsAssumption DEF TypeOK, Number
<1> QED
  BY <1>1, <1>2, <1>3, <1>4 DEF Call

LEMMA ConnectSessions ==
    ASSUME TypeOK, Sessions, NEW r \in Request, Connect(r)
    PROVE  Sessions'
<1> DEFINE n == req[r].number
           c == [req[r] EXCEPT !.pc = "cacheClient", !.client = n]
<1>1. /\ req[r].pc = "connect" /\ open' = open \cup {n} /\ req' = [req EXCEPT ![r] = c]
      /\ served' = served /\ client' = client /\ disputed' = disputed
  BY DEF Connect, Set, cacheVars
<1>2. req[r].pc \in Before /\ req[r].pc \notin Connected
  BY <1>1 DEF Before, Connected
<1>3. /\ req[r] \in Call /\ req[r] # Idle /\ req[r].user # None
      /\ n \in 1..served /\ n # 0 /\ req[r].pc \notin {"lock"} \cup Writing
  BY <1>2, Active DEF Sessions
<1>4. /\ c \in Call /\ c.pc = "cacheClient" /\ c.client = n /\ c.number = n
      /\ Same(c, req[r]) /\ c.pc \notin {"lock"} \cup Writing /\ c.pc \in Connected
      /\ c.pc \notin Before /\ c.pc # "forget" /\ c.pc # "use"
  BY <1>3 DEF Call, Same, Writing, Before, Connected
<1>5. Fresh(n) /\ n \notin open
  BY <1>2 DEF Sessions, Owned
<1> HIDE DEF c, n
<1>6. /\ req'[r] = c /\ \A s \in Request : s # r => req'[s] = req[s]
  BY <1>1 DEF TypeOK
<1>7. ASSUME NEW s \in Request, s # r, req[s].user # None
      PROVE  req[s].number # n
  BY <1>3, <1>7 DEF Sessions, Numbered, n
<1>8. Numbered'
  <2>1. open' \subseteq 1..served /\ \A w \in Worker, u \in User : client'[w][u] \in 0..served
    BY <1>1, <1>3 DEF Sessions, Numbered
  <2> QED
    BY <1>1, <1>3, <1>4, <2>1, NumberedStays DEF Sessions, Record
<1>9. Owned'
  <2>1. ASSUME NEW m, Fresh(m)
        PROVE  FreshNext(m)
    BY <1>1, <1>4, <1>6, <2>1 DEF Fresh, FreshNext
  <2>2. ASSUME NEW s \in Request
        PROVE  /\ req'[s].pc \in Before =>
                    /\ req'[s].client = 0 /\ req'[s].number \notin open'
                    /\ FreshNext(req'[s].number)
               /\ req'[s].pc \in Connected =>
                    /\ req'[s].client = req'[s].number
                    /\ req'[s].number \in open' /\ FreshNext(req'[s].number)
               /\ req'[s].pc \in {"use", "forget"} => req'[s].client \in 1..served'
               /\ req'[s].pc = "forget" => req'[s].client \notin open' \ disputed'
               /\ req'[s].client # 0 => req'[s].pc \in Connected \cup {"use", "forget"}
    <3>1. CASE s = r
      BY <1>1, <1>4, <1>5, <1>6, <2>1, <3>1
    <3>2. CASE s # r
      <4>1. req'[s] = req[s]
        BY <1>6, <3>2
      <4>2. req[s].pc \in Before \cup Connected \cup {"use", "forget"} => req[s].number # n
        BY <1>7, <3>2, Active DEF Sessions
      <4>3. req[s].client = n => req[s].number = n
        BY <1>5 DEF Fresh
      <4> QED
        BY <1>1, <2>1, <4>1, <4>2, <4>3 DEF Sessions, Owned
    <3> QED
      BY <3>1, <3>2
  <2>3. ASSUME NEW s \in Request, NEW w \in Worker, NEW u \in User,
               req'[s].client = client'[w][u], client'[w][u] # 0
        PROVE  req'[s].worker = w /\ req'[s].user = u
    BY <1>1, <1>4, <1>5, <1>6, <2>3 DEF Sessions, Owned, Fresh
  <2>4. \A w, v \in Worker, u, x \in User :
          client'[w][u] = client'[v][x] /\ client'[w][u] # 0 => w = v /\ u = x
    BY <1>1 DEF Sessions, Owned
  <2> QED
    BY <2>2, <2>3, <2>4 DEF Owned, Fresh, FreshNext
<1>10. Unmet'
  BY <1>1, <1>2, <1>4, <1>6 DEF Sessions, Unmet, Same
<1>11. KeptOpen'
  <2> SUFFICES ASSUME NEW w \in Worker, NEW u \in User, client'[w][u] \notin open' \cup disputed' \cup {0}
               PROVE  \E s \in Request : /\ req'[s].worker = w /\ req'[s].user = u
                                         /\ req'[s].pc = "forget"
                                         /\ req'[s].client = client'[w][u]
    BY DEF KeptOpen, Meeting, Serving
  <2>1. PICK s \in Meeting(u, w) : req[s].pc = "forget" /\ req[s].client = client[w][u]
    BY <1>1 DEF Sessions, KeptOpen
  <2> QED
    BY <1>1, <1>6, <2>1 DEF Meeting, Serving
<1> QED
  BY <1>8, <1>9, <1>10, <1>11 DEF Sessions

(* The server ends the session of a logout that goes on, or disputes it.   *)
LEMMA LogoutSessions ==
    ASSUME TypeOK, Sessions, NEW r \in Request, Logout(r) \/ LogoutRefused(r)
    PROVE  Sessions'
<1> DEFINE n == req[r].client
           c == [req[r] EXCEPT !.pc = "forget"]
<1>1. /\ req[r].pc = "use" /\ req' = [req EXCEPT ![r] = c]
      /\ served' = served /\ client' = client
      /\ open' \subseteq open /\ \A m \in open : m # n => m \in open'
      /\ disputed \subseteq disputed' /\ n \notin open' \ disputed'
  BY DEF Logout, LogoutRefused, Closed, Goto, Set, cacheVars
<1>2. /\ req[r] \in Call /\ req[r] # Idle /\ req[r].user # None
      /\ req[r].pc \notin {"lock"} \cup Writing \cup Before \cup Connected
  BY <1>1, Active DEF Sessions, Before, Connected
<1>3. /\ c \in Call /\ c.pc = "forget" /\ c.client = n /\ Same(c, req[r])
      /\ c.pc \notin {"lock"} \cup Writing \cup Before \cup Connected
  BY <1>2 DEF Call, Same, Writing, Before, Connected
<1>4. n \in 1..served
  BY <1>1 DEF Sessions, Owned
<1> HIDE DEF c, n
<1>5. /\ req'[r] = c /\ \A s \in Request : s # r => req'[s] = req[s]
  BY <1>1 DEF TypeOK
<1>6. ASSUME NEW s \in Request, req[s].pc \in Connected
      PROVE  req[s].number # n
  <2>1. s # r /\ req[s].user # None
    BY <1>2, <1>6, Active DEF Sessions
  <2>2. req[r].number # req[s].number
    BY <1>2, <2>1 DEF Sessions, Numbered
  <2>3. req[r].client = req[s].number => req[r].number = req[s].number
    BY <1>6 DEF Sessions, Owned, Fresh
  <2> QED
    BY <2>2, <2>3 DEF n
<1>7. Numbered'
  <2>1. open' \subseteq 1..served /\ \A w \in Worker, u \in User : client'[w][u] \in 0..served
    BY <1>1 DEF Sessions, Numbered
  <2> QED
    BY <1>1, <1>2, <1>3, <2>1, NumberedStays DEF Sessions, Record
<1>8. Owned'
  <2>1. ASSUME NEW m, Fresh(m)
        PROVE  FreshNext(m)
    BY <1>1, <1>3, <1>5, <2>1 DEF Fresh, FreshNext, Same, n
  <2>2. ASSUME NEW s \in Request
        PROVE  /\ req'[s].pc \in Before =>
                    /\ req'[s].client = 0 /\ req'[s].number \notin open'
                    /\ FreshNext(req'[s].number)
               /\ req'[s].pc \in Connected =>
                    /\ req'[s].client = req'[s].number
                    /\ req'[s].number \in open' /\ FreshNext(req'[s].number)
               /\ req'[s].pc \in {"use", "forget"} => req'[s].client \in 1..served'
               /\ req'[s].pc = "forget" => req'[s].client \notin open' \ disputed'
               /\ req'[s].client # 0 => req'[s].pc \in Connected \cup {"use", "forget"}
    <3>1. CASE s = r
      BY <1>1, <1>3, <1>4, <1>5, <3>1
    <3>2. CASE s # r
      BY <1>1, <1>5, <1>6, <2>1, <3>2 DEF Sessions, Owned
    <3> QED
      BY <3>1, <3>2
  <2>3. ASSUME NEW s \in Request, NEW w \in Worker, NEW u \in User,
               req'[s].client = client'[w][u], client'[w][u] # 0
        PROVE  req'[s].worker = w /\ req'[s].user = u
    BY <1>1, <1>3, <1>5, <2>3 DEF Sessions, Owned, Same, n
  <2>4. \A w, v \in Worker, u, x \in User :
          client'[w][u] = client'[v][x] /\ client'[w][u] # 0 => w = v /\ u = x
    BY <1>1 DEF Sessions, Owned
  <2> QED
    BY <2>2, <2>3, <2>4 DEF Owned, Fresh, FreshNext
<1>9. Unmet'
  BY <1>1, <1>3, <1>5 DEF Sessions, Unmet, Same, n
<1>10. KeptOpen'
  <2> SUFFICES ASSUME NEW w \in Worker, NEW u \in User, client'[w][u] \notin open' \cup disputed' \cup {0}
               PROVE  \E s \in Request : /\ req'[s].worker = w /\ req'[s].user = u
                                         /\ req'[s].pc = "forget"
                                         /\ req'[s].client = client'[w][u]
    BY DEF KeptOpen, Meeting, Serving
  <2>1. CASE client[w][u] = n
    <3>1. req[r].worker = w /\ req[r].user = u
      BY <1>1, <2>1 DEF Sessions, Owned, n
    <3> QED
      BY <1>1, <1>3, <1>5, <2>1, <3>1 DEF Same
  <2>2. CASE client[w][u] # n
    <3>1. PICK s \in Meeting(u, w) : req[s].pc = "forget" /\ req[s].client = client[w][u]
      BY <1>1, <2>2 DEF Sessions, KeptOpen
    <3> QED
      BY <1>1, <1>5, <3>1 DEF Meeting, Serving
  <2> QED
    BY <2>1, <2>2
<1> QED
  BY <1>7, <1>8, <1>9, <1>10 DEF Sessions

(* A request ends, and its session was opened or ended without its knowing.*)
LEMMA RaisesSessions ==
    ASSUME TypeOK, Sessions, NEW r \in Request, ConnectRaises(r) \/ LogoutRaises(r)
    PROVE  Sessions'
<1>1. /\ req[r].pc \in {"connect", "use"} /\ req' = [req EXCEPT ![r] = Idle]
      /\ served' = served /\ client' = client
  BY DEF ConnectRaises, LogoutRaises, End, Set, cacheVars
<1>2. /\ req[r] # Idle /\ req[r].user # None /\ req[r].number \in 1..served
      /\ req[r].number # 0
  BY <1>1, Active DEF Sessions, Before
<1>3. /\ req'[r] = Idle /\ \A s \in Request : s # r => req'[s] = req[s]
  BY <1>1 DEF TypeOK
<1>4. /\ Idle.pc = "idle" /\ Idle.client = 0 /\ Idle.kind = "list" /\ Idle \in Record
      /\ "idle" \notin Before \cup Connected
  BY IdleFacts DEF Before, Connected
<1>5. ASSUME NEW s \in Request, s # r, req[s].pc \in Before \cup Connected \cup {"use", "forget"}
      PROVE  req[s].number # req[r].number /\ req[s].number # 0
  <2>1. req[s].user # None /\ req[s].number # 0
    BY <1>5, Active DEF Sessions
  <2> QED
    BY <1>2, <1>5, <2>1 DEF Sessions, Numbered
<1>6. /\ open' \subseteq 1..served
      /\ \A m : m \notin open' \cup disputed' => m \notin open \cup disputed
      /\ \A s \in Request : s # r =>
            /\ req[s].pc \in Before => req[s].number \notin open'
            /\ req[s].pc \in Connected => req[s].number \in open'
            /\ req[s].pc = "forget" => req[s].client \notin open' \ disputed'
  <2>1. CASE ConnectRaises(r)
    <3>1. open' = open \cup {req[r].number} /\ disputed' = disputed /\ req[r].pc \in Before
      BY <2>1 DEF ConnectRaises, Before
    <3>2. Fresh(req[r].number)
      BY <3>1 DEF Sessions, Owned
    <3>3. \A s \in Request : s # r /\ req[s].pc = "forget" => req[s].client # req[r].number
      BY <1>5, <3>2 DEF Fresh
    <3>4. open' \subseteq 1..served
      BY <1>2, <3>1 DEF Sessions, Numbered
    <3> QED
      BY <1>5, <3>1, <3>3, <3>4 DEF Sessions, Owned
  <2>2. CASE LogoutRaises(r)
    <3>1. /\ open' = open \ {req[r].client} /\ disputed' = disputed \cup {req[r].client}
          /\ req[r].pc = "use"
      BY <2>2 DEF LogoutRaises, Closed
    <3>2. ASSUME NEW s \in Request, s # r, req[s].pc \in Connected
          PROVE  req[s].number # req[r].client
      <4>1. Fresh(req[s].number)
        BY <3>2 DEF Sessions, Owned
      <4> QED
        BY <1>5, <3>2, <4>1 DEF Fresh
    <3>3. open' \subseteq 1..served
      BY <3>1 DEF Sessions, Numbered
    <3> QED
      BY <3>1, <3>2, <3>3 DEF Sessions, Owned
  <2> QED
    BY <2>1, <2>2
<1>7. Numbered'
  <2>1. \A w \in Worker, u \in User : client'[w][u] \in 0..served
    BY <1>1 DEF Sessions, Numbered
  <2> QED
    BY <1>1, <1>2, <1>4, <1>6, <2>1, NumberedStays DEF Sessions
<1>8. Owned'
  <2>1. ASSUME NEW m, Fresh(m), m # 0
        PROVE  FreshNext(m)
    BY <1>1, <1>3, <1>4, <2>1 DEF Fresh, FreshNext
  <2>2. ASSUME NEW s \in Request
        PROVE  /\ req'[s].pc \in Before =>
                    /\ req'[s].client = 0 /\ req'[s].number \notin open'
                    /\ FreshNext(req'[s].number)
               /\ req'[s].pc \in Connected =>
                    /\ req'[s].client = req'[s].number
                    /\ req'[s].number \in open' /\ FreshNext(req'[s].number)
               /\ req'[s].pc \in {"use", "forget"} => req'[s].client \in 1..served'
               /\ req'[s].pc = "forget" => req'[s].client \notin open' \ disputed'
               /\ req'[s].client # 0 => req'[s].pc \in Connected \cup {"use", "forget"}
    <3>1. CASE s = r
      BY <1>3, <1>4, <3>1
    <3>2. CASE s # r
      BY <1>1, <1>3, <1>5, <1>6, <2>1, <3>2 DEF Sessions, Owned
    <3> QED
      BY <3>1, <3>2
  <2>3. ASSUME NEW s \in Request, NEW w \in Worker, NEW u \in User,
               req'[s].client = client'[w][u], client'[w][u] # 0
        PROVE  req'[s].worker = w /\ req'[s].user = u
    BY <1>1, <1>3, <1>4, <2>3 DEF Sessions, Owned
  <2>4. \A w, v \in Worker, u, x \in User :
          client'[w][u] = client'[v][x] /\ client'[w][u] # 0 => w = v /\ u = x
    BY <1>1 DEF Sessions, Owned
  <2> QED
    BY <2>2, <2>3, <2>4 DEF Owned, Fresh, FreshNext
<1>9. Unmet'
  BY <1>1, <1>3, <1>4 DEF Sessions, Unmet
<1>10. KeptOpen'
  <2> SUFFICES ASSUME NEW w \in Worker, NEW u \in User,
                      client'[w][u] \notin open' \cup disputed' \cup {0}
               PROVE  \E s \in Request : /\ req'[s].worker = w /\ req'[s].user = u
                                         /\ req'[s].pc = "forget"
                                         /\ req'[s].client = client'[w][u]
    BY DEF KeptOpen, Meeting, Serving
  <2>1. PICK s \in Meeting(u, w) : req[s].pc = "forget" /\ req[s].client = client[w][u]
    BY <1>1, <1>6 DEF Sessions, KeptOpen
  <2> QED
    BY <1>1, <1>3, <2>1 DEF Meeting, Serving
<1> QED
  BY <1>7, <1>8, <1>9, <1>10 DEF Sessions

(* A request ends and its worker forgets the client of its user.           *)
LEMMA ForgetSessions ==
    ASSUME TypeOK, Sessions, NEW r \in Request, ConnectRefused(r) \/ Forget(r)
    PROVE  Sessions'
<1> DEFINE v == req[r].worker
           x == req[r].user
<1>1. /\ req[r].pc \in {"connect", "forget"} /\ req' = [req EXCEPT ![r] = Idle]
      /\ client' = [client EXCEPT ![v][x] = 0]
      /\ served' = served /\ open' = open /\ disputed' = disputed
  BY DEF ConnectRefused, Forget, Forgotten, End, Set
<1>2. /\ req[r] \in Call /\ req[r] # Idle /\ v \in Worker /\ x \in User
  BY <1>1, Active DEF Sessions, Before
<1> HIDE DEF v, x
<1>3. /\ req'[r] = Idle /\ \A s \in Request : s # r => req'[s] = req[s]
  BY <1>1 DEF TypeOK
<1>4. /\ client'[v][x] = 0
      /\ \A w \in Worker, u \in User : w # v \/ u # x => client'[w][u] = client[w][u]
  BY <1>1, <1>2 DEF TypeOK
<1>5. /\ Idle.pc = "idle" /\ Idle.client = 0 /\ Idle.kind = "list" /\ Idle \in Record
  BY IdleFacts
<1>6. served \in Nat
  BY SessionsAssumption DEF TypeOK, Number
<1>7. Numbered'
  <2>1. open' \subseteq 1..served /\ \A w \in Worker, u \in User : client'[w][u] \in 0..served
    BY <1>1, <1>4, <1>6 DEF Sessions, Numbered
  <2> QED
    BY <1>1, <1>2, <1>5, <2>1, NumberedStays DEF Sessions
<1>8. Owned'
  <2>1. ASSUME NEW m, Fresh(m), m # 0
        PROVE  FreshNext(m)
    BY <1>3, <1>4, <1>5, <2>1 DEF Fresh, FreshNext
  <2>2. ASSUME NEW s \in Request
        PROVE  /\ req'[s].pc \in Before =>
                    /\ req'[s].client = 0 /\ req'[s].number \notin open'
                    /\ FreshNext(req'[s].number)
               /\ req'[s].pc \in Connected =>
                    /\ req'[s].client = req'[s].number
                    /\ req'[s].number \in open' /\ FreshNext(req'[s].number)
               /\ req'[s].pc \in {"use", "forget"} => req'[s].client \in 1..served'
               /\ req'[s].pc = "forget" => req'[s].client \notin open' \ disputed'
               /\ req'[s].client # 0 => req'[s].pc \in Connected \cup {"use", "forget"}
    <3>1. CASE s = r
      BY <1>3, <1>5, <3>1 DEF Before, Connected
    <3>2. CASE s # r
      <4>1. req[s].pc \in Before \cup Connected => req[s].number # 0
        BY Active DEF Sessions
      <4> QED
        BY <1>1, <1>3, <2>1, <3>2, <4>1 DEF Sessions, Owned
    <3> QED
      BY <3>1, <3>2
  <2>3. ASSUME NEW s \in Request, NEW w \in Worker, NEW u \in User,
               req'[s].client = client'[w][u], client'[w][u] # 0
        PROVE  req'[s].worker = w /\ req'[s].user = u
    BY <1>3, <1>4, <1>5, <2>3 DEF Sessions, Owned
  <2>4. \A w1, w2 \in Worker, u1, u2 \in User :
          client'[w1][u1] = client'[w2][u2] /\ client'[w1][u1] # 0 => w1 = w2 /\ u1 = u2
    BY <1>4 DEF Sessions, Owned
  <2> QED
    BY <2>2, <2>3, <2>4 DEF Owned, Fresh, FreshNext
<1>9. Unmet'
  <2> SUFFICES ASSUME NEW s \in Request, req'[s].kind \in {"list", "logout"}, ~req'[s].met
               PROVE  /\ req'[s].pc \in Before \cup Connected =>
                            client'[req'[s].worker][req'[s].user] = 0
                      /\ req'[s].pc \in {"use", "forget"} =>
                            client'[req'[s].worker][req'[s].user] = req'[s].client
    BY DEF Unmet
  <2>1. CASE s = r
    BY <1>3, <1>5, <2>1 DEF Before, Connected
  <2>2. CASE s # r
    <3>1. req'[s] = req[s]
      BY <1>3, <2>2
    <3>2. SUFFICES ASSUME req[s].pc \in Before \cup Connected \cup {"use", "forget"}
                   PROVE  client'[req[s].worker][req[s].user] = client[req[s].worker][req[s].user]
      BY <3>1 DEF Sessions, Unmet
    <3>3. req[s].worker \in Worker /\ req[s].user \in User /\ req[s].user # None
      BY <3>2, Active DEF Sessions
    <3>4. req[r].user # None
      BY <1>1, Active DEF Sessions, Before
    <3>5. req[s].worker # v \/ req[s].user # x
      BY <2>2, <3>1, <3>3, <3>4 DEF Sessions, Numbered, v, x
    <3> QED
      BY <1>4, <3>3, <3>5
  <2> QED
    BY <2>1, <2>2
<1>10. KeptOpen'
  <2> SUFFICES ASSUME NEW w \in Worker, NEW u \in User, client'[w][u] \notin open' \cup disputed' \cup {0}
               PROVE  \E s \in Request : /\ req'[s].worker = w /\ req'[s].user = u
                                         /\ req'[s].pc = "forget"
                                         /\ req'[s].client = client'[w][u]
    BY DEF KeptOpen, Meeting, Serving
  <2>1. (w # v \/ u # x) /\ client'[w][u] = client[w][u]
    BY <1>4
  <2>2. PICK s \in Meeting(u, w) : req[s].pc = "forget" /\ req[s].client = client[w][u]
    BY <1>1, <2>1 DEF Sessions, KeptOpen
  <2>3. s # r
    BY <2>1, <2>2 DEF Meeting, Serving, v, x
  <2> QED
    BY <1>3, <2>1, <2>2, <2>3 DEF Meeting, Serving
<1> QED
  BY <1>7, <1>8, <1>9, <1>10 DEF Sessions

LEMMA SetClientSessions ==
    ASSUME TypeOK, Sessions, NEW r \in Request, SetClient(r)
    PROVE  Sessions'
<1> DEFINE v == req[r].worker
           x == req[r].user
           n == req[r].client
           c == IF req[r].kind = "connect" THEN Idle ELSE [req[r] EXCEPT !.pc = "use"]
<1>1. /\ req[r].pc = "setClient" /\ req' = [req EXCEPT ![r] = c]
      /\ client' = [client EXCEPT ![v][x] = n]
      /\ served' = served /\ open' = open /\ disputed' = disputed
  BY DEF SetClient, End, Set, Goto
<1>0. req[r].pc \in Connected
  BY <1>1 DEF Connected
<1>2. /\ req[r] \in Call /\ req[r] # Idle /\ v \in Worker /\ x \in User /\ x # None
      /\ req[r].number \in 1..served /\ req[r].number # 0
      /\ req[r].pc \notin {"lock"} \cup Writing
  BY <1>0, Active DEF Sessions
<1>3. /\ n = req[r].number /\ n \in open /\ Fresh(n)
  BY <1>0 DEF Sessions, Owned
<1>4. /\ c \in Record
      /\ c = Idle \/ /\ Same(c, req[r]) /\ c.client = n /\ c.pc = "use"
                     /\ c.pc \notin {"lock"} \cup Writing \cup Before \cup Connected
  <2>1. [req[r] EXCEPT !.pc = "use"] \in Call
    BY <1>2 DEF Call
  <2>2. /\ [req[r] EXCEPT !.pc = "use"].pc = "use"
        /\ Same([req[r] EXCEPT !.pc = "use"], req[r])
        /\ [req[r] EXCEPT !.pc = "use"].client = n
    BY <1>2 DEF Call, Same
  <2>3. "use" \notin {"lock"} \cup Writing \cup Before \cup Connected
    BY DEF Writing, Before, Connected
  <2>4. c = Idle \/ c = [req[r] EXCEPT !.pc = "use"]
    OBVIOUS
  <2> HIDE DEF c
  <2> QED
    BY <2>1, <2>2, <2>3, <2>4, IdleFacts DEF Record
<1> HIDE DEF v, x, n, c
<1>5. /\ req'[r] = c /\ \A s \in Request : s # r => req'[s] = req[s]
  BY <1>1 DEF TypeOK
<1>6. /\ client'[v][x] = n
      /\ \A w \in Worker, u \in User : w # v \/ u # x => client'[w][u] = client[w][u]
  BY <1>1, <1>2 DEF TypeOK
<1>7. /\ Idle.pc = "idle" /\ Idle.client = 0 /\ Idle.kind = "list"
  BY IdleFacts
<1>8. ASSUME NEW s \in Request, s # r, req[s].pc \in Before \cup Connected \cup {"use", "forget"}
      PROVE  /\ req[s].number # n /\ req[s].client # n /\ req[s].number # 0
             /\ req[s].worker \in Worker /\ req[s].user \in User
             /\ req[s].worker = v /\ req[s].user = x => req[s].met
  <2>1. /\ req[s].user # None /\ req[s].number # 0
        /\ req[s].worker \in Worker /\ req[s].user \in User
    BY <1>8, Active DEF Sessions
  <2>2. /\ req[s].number # n
        /\ req[s].worker = v /\ req[s].user = x => req[s].met
    BY <1>2, <1>3, <1>8, <2>1 DEF Sessions, Numbered, v, x
  <2> QED
    BY <1>3, <2>1, <2>2 DEF Fresh
<1>9. Numbered'
  <2>1. open' \subseteq 1..served /\ \A w \in Worker, u \in User : client'[w][u] \in 0..served
    BY <1>1, <1>2, <1>3, <1>6 DEF Sessions, Numbered
  <2> QED
    BY <1>1, <1>2, <1>4, <2>1, NumberedStays DEF Sessions
<1>10. Owned'
  <2>1. ASSUME NEW m, Fresh(m), m # n, m # 0
        PROVE  FreshNext(m)
    <3>1. \A w \in Worker, u \in User : client'[w][u] # m
      BY <1>6, <2>1 DEF Fresh
    <3>2. ASSUME NEW s \in Request, req'[s].client = m
          PROVE  req'[s].number = m
      <4>1. s # r
        BY <1>4, <1>5, <1>7, <2>1, <3>2
      <4> QED
        BY <1>5, <2>1, <3>2, <4>1 DEF Fresh
    <3> QED
      BY <3>1, <3>2 DEF FreshNext
  <2>2. ASSUME NEW s \in Request
        PROVE  /\ req'[s].pc \in Before =>
                    /\ req'[s].client = 0 /\ req'[s].number \notin open'
                    /\ FreshNext(req'[s].number)
               /\ req'[s].pc \in Connected =>
                    /\ req'[s].client = req'[s].number
                    /\ req'[s].number \in open' /\ FreshNext(req'[s].number)
               /\ req'[s].pc \in {"use", "forget"} => req'[s].client \in 1..served'
               /\ req'[s].pc = "forget" => req'[s].client \notin open' \ disputed'
               /\ req'[s].client # 0 => req'[s].pc \in Connected \cup {"use", "forget"}
    <3>1. CASE s = r
      BY <1>1, <1>2, <1>3, <1>4, <1>5, <1>7, <3>1 DEF Before, Connected
    <3>2. CASE s # r
      BY <1>1, <1>5, <1>8, <2>1, <3>2 DEF Sessions, Owned
    <3> QED
      BY <3>1, <3>2
  <2>3. ASSUME NEW s \in Request, NEW w \in Worker, NEW u \in User,
               req'[s].client = client'[w][u], client'[w][u] # 0
        PROVE  req'[s].worker = w /\ req'[s].user = u
    <3>1. CASE s = r
      <4>1. c # Idle /\ client'[w][u] = n /\ req'[s].worker = v /\ req'[s].user = x
        BY <1>4, <1>5, <1>7, <2>3, <3>1 DEF Same, v, x
      <4>2. w = v /\ u = x
        BY <1>3, <1>6, <4>1 DEF Fresh
      <4> QED
        BY <4>1, <4>2
    <3>2. CASE s # r
      <4>1. req[s].client # 0 /\ req'[s] = req[s]
        BY <1>5, <2>3, <3>2
      <4>2. req[s].client # n
        BY <1>8, <3>2, <4>1 DEF Sessions, Owned
      <4> QED
        BY <1>6, <2>3, <4>1, <4>2 DEF Sessions, Owned
    <3> QED
      BY <3>1, <3>2
  <2>4. \A w1, w2 \in Worker, u1, u2 \in User :
          client'[w1][u1] = client'[w2][u2] /\ client'[w1][u1] # 0 => w1 = w2 /\ u1 = u2
    BY <1>3, <1>6 DEF Sessions, Owned, Fresh
  <2> QED
    BY <2>2, <2>3, <2>4 DEF Owned, Fresh, FreshNext
<1>11. Unmet'
  <2> SUFFICES ASSUME NEW s \in Request, req'[s].kind \in {"list", "logout"}, ~req'[s].met
               PROVE  /\ req'[s].pc \in Before \cup Connected =>
                            client'[req'[s].worker][req'[s].user] = 0
                      /\ req'[s].pc \in {"use", "forget"} =>
                            client'[req'[s].worker][req'[s].user] = req'[s].client
    BY DEF Unmet
  <2>1. CASE s = r
    BY <1>4, <1>5, <1>6, <1>7, <2>1 DEF Before, Connected, Same, v, x
  <2>2. CASE s # r
    <3>1. req'[s] = req[s]
      BY <1>5, <2>2
    <3>2. SUFFICES ASSUME req[s].pc \in Before \cup Connected \cup {"use", "forget"}
                   PROVE  client'[req[s].worker][req[s].user] = client[req[s].worker][req[s].user]
      BY <3>1 DEF Sessions, Unmet
    <3> QED
      BY <1>6, <1>8, <2>2, <3>1, <3>2
  <2> QED
    BY <2>1, <2>2
<1>12. KeptOpen'
  <2> SUFFICES ASSUME NEW w \in Worker, NEW u \in User, client'[w][u] \notin open' \cup disputed' \cup {0}
               PROVE  \E s \in Request : /\ req'[s].worker = w /\ req'[s].user = u
                                         /\ req'[s].pc = "forget"
                                         /\ req'[s].client = client'[w][u]
    BY DEF KeptOpen, Meeting, Serving
  <2>1. (w # v \/ u # x) /\ client'[w][u] = client[w][u]
    BY <1>1, <1>3, <1>6
  <2>2. PICK s \in Meeting(u, w) : req[s].pc = "forget" /\ req[s].client = client[w][u]
    BY <1>1, <2>1 DEF Sessions, KeptOpen
  <2>3. s # r
    BY <1>1, <2>2
  <2> QED
    BY <1>5, <2>1, <2>2, <2>3 DEF Meeting, Serving
<1> QED
  BY <1>9, <1>10, <1>11, <1>12 DEF Sessions


(* A worker is killed: its requests and its clients are gone.              *)
LEMMA KillSessions ==
    ASSUME TypeOK, Sessions, NEW w \in Worker, Kill(w)
    PROVE  Sessions'
<1>1. /\ req' = [r \in Request |-> IF r \in Serving(w) THEN Idle ELSE req[r]]
      /\ client' = [client EXCEPT ![w] = [u \in User |-> 0]]
      /\ served' = served /\ open' = open /\ disputed' = disputed
  BY DEF Kill
<1>2. /\ Idle.pc = "idle" /\ Idle.client = 0 /\ Idle.kind = "list" /\ Idle.user = None
      /\ "idle" \notin Before \cup Connected
  BY IdleFacts DEF Before, Connected
<1>3. ASSUME NEW s \in Request
      PROVE  \/ req'[s] = Idle
             \/ req'[s] = req[s] /\ req[s].worker # w
  BY <1>1 DEF Serving
<1>9. ASSUME NEW s \in Request, req[s].worker # w
      PROVE  req'[s] = req[s]
  BY <1>1, <1>9 DEF Serving
<1>4. ASSUME NEW v \in Worker, NEW u \in User
      PROVE  /\ v = w => client'[v][u] = 0
             /\ v # w => client'[v][u] = client[v][u]
  BY <1>1 DEF TypeOK
<1>5. served \in Nat
  BY SessionsAssumption DEF TypeOK, Number
<1>6. Numbered'
  <2>1. \A v \in Worker, u \in User : client'[v][u] \in 0..served
    BY <1>4, <1>5 DEF Sessions, Numbered
  <2>2. ASSUME NEW s \in Request, req'[s] # Idle
        PROVE  /\ req'[s].worker \in Worker
               /\ req'[s].user = None <=> req'[s].kind = "callback"
               /\ req'[s].kind = "callback" => req'[s].pc \in {"lock"} \cup Writing
               /\ req'[s].kind # "callback" =>
                     req'[s].pc \notin {"lock"} \cup Writing /\ req'[s].number \in 1..served
    BY <1>3, <2>2 DEF Sessions, Numbered
  <2>3. ASSUME NEW s \in Request, NEW q \in Request, s # q,
               req'[s].user # None, req'[q].user # None
        PROVE  /\ req'[s].number # req'[q].number
               /\ req'[s].user = req'[q].user /\ req'[s].worker = req'[q].worker =>
                     req'[s].met /\ req'[q].met
    <3>1. req'[s] = req[s] /\ req'[q] = req[q]
      BY <1>2, <1>3, <2>3
    <3> QED
      BY <2>3, <3>1 DEF Sessions, Numbered
  <2>4. open' \subseteq 1..served'
    BY <1>1 DEF Sessions, Numbered
  <2> QED
    BY <1>1, <2>1, <2>2, <2>3, <2>4 DEF Numbered
<1>7. Owned'
  <2>1. ASSUME NEW m, Fresh(m), m # 0
        PROVE  FreshNext(m)
    <3>1. \A v \in Worker, u \in User : client'[v][u] # m
      BY <1>4, <2>1 DEF Fresh
    <3>2. ASSUME NEW s \in Request, req'[s].client = m
          PROVE  req'[s].number = m
      BY <1>2, <1>3, <2>1, <3>2 DEF Fresh
    <3> QED
      BY <3>1, <3>2 DEF FreshNext
  <2>2. ASSUME NEW s \in Request
        PROVE  /\ req'[s].pc \in Before =>
                    /\ req'[s].client = 0 /\ req'[s].number \notin open'
                    /\ FreshNext(req'[s].number)
               /\ req'[s].pc \in Connected =>
                    /\ req'[s].client = req'[s].number
                    /\ req'[s].number \in open' /\ FreshNext(req'[s].number)
               /\ req'[s].pc \in {"use", "forget"} => req'[s].client \in 1..served'
               /\ req'[s].pc = "forget" => req'[s].client \notin open' \ disputed'
               /\ req'[s].client # 0 => req'[s].pc \in Connected \cup {"use", "forget"}
    <3>1. CASE req'[s] = Idle
      BY <1>2, <3>1
    <3>2. CASE req'[s] = req[s]
      <4>1. req[s].pc \in Before \cup Connected => req[s].number # 0
        BY Active DEF Sessions
      <4> QED
        BY <1>1, <2>1, <3>2, <4>1 DEF Sessions, Owned
    <3> QED
      BY <1>3, <3>1, <3>2
  <2>3. ASSUME NEW s \in Request, NEW v \in Worker, NEW u \in User,
               req'[s].client = client'[v][u], client'[v][u] # 0
        PROVE  req'[s].worker = v /\ req'[s].user = u
    BY <1>2, <1>3, <1>4, <2>3 DEF Sessions, Owned
  <2>4. \A w1, w2 \in Worker, u1, u2 \in User :
          client'[w1][u1] = client'[w2][u2] /\ client'[w1][u1] # 0 => w1 = w2 /\ u1 = u2
    <3>1. ASSUME NEW w1 \in Worker, NEW w2 \in Worker, NEW u1 \in User, NEW u2 \in User,
                 client'[w1][u1] = client'[w2][u2], client'[w1][u1] # 0
          PROVE  w1 = w2 /\ u1 = u2
      <4>1. client'[w1][u1] = client[w1][u1] /\ client'[w2][u2] = client[w2][u2]
        BY <1>4, <3>1
      <4>2. \A v, z \in Worker, u, x \in User :
              client[v][u] = client[z][x] /\ client[v][u] # 0 => v = z /\ u = x
        BY DEF Sessions, Owned
      <4>3. client[w1][u1] = client[w2][u2] /\ client[w1][u1] # 0
        BY <3>1, <4>1
      <4> QED
        BY <4>2, <4>3
    <3> QED
      BY <3>1
  <2> QED
    BY <2>2, <2>3, <2>4 DEF Owned, Fresh, FreshNext
<1>8. Unmet'
  <2> SUFFICES ASSUME NEW s \in Request, req'[s].kind \in {"list", "logout"}, ~req'[s].met,
                      req'[s].pc \in Before \cup Connected \cup {"use", "forget"}
               PROVE  /\ req'[s].pc \in Before \cup Connected =>
                            client'[req'[s].worker][req'[s].user] = 0
                      /\ req'[s].pc \in {"use", "forget"} =>
                            client'[req'[s].worker][req'[s].user] = req'[s].client
    BY DEF Unmet
  <2>1. req'[s] = req[s] /\ req[s].worker # w
    BY <1>2, <1>3
  <2>2. req[s].worker \in Worker /\ req[s].user \in User
    BY <2>1, Active DEF Sessions
  <2>3. client'[req[s].worker][req[s].user] = client[req[s].worker][req[s].user]
    BY <1>4, <2>1, <2>2
  <2> QED
    BY <2>1, <2>3 DEF Sessions, Unmet
<1>10. KeptOpen'
  <2> SUFFICES ASSUME NEW v \in Worker, NEW u \in User, client'[v][u] \notin open' \cup disputed' \cup {0}
               PROVE  \E s \in Request : /\ req'[s].worker = v /\ req'[s].user = u
                                         /\ req'[s].pc = "forget"
                                         /\ req'[s].client = client'[v][u]
    BY DEF KeptOpen, Meeting, Serving
  <2>1. v # w /\ client'[v][u] = client[v][u]
    BY <1>4
  <2>2. PICK s \in Meeting(u, v) : req[s].pc = "forget" /\ req[s].client = client[v][u]
    BY <1>1, <2>1 DEF Sessions, KeptOpen
  <2>3. req[s].worker = v /\ req[s].user = u /\ s \in Request
    BY DEF Meeting, Serving
  <2>4. req'[s] = req[s]
    BY <1>9, <2>1, <2>3
  <2> QED
    BY <2>1, <2>2, <2>3, <2>4
<1> QED
  BY <1>6, <1>7, <1>8, <1>10 DEF Sessions

(* A callback is accepted: it is no user's.                                *)
LEMMA CallbackSessions ==
    ASSUME TypeOK, Sessions, NEW r \in Request, NEW w \in Worker, StartCallback(r, w)
    PROVE  Sessions'
<1>0. PICK t \in calls : /\ req[r] = Idle
                         /\ Set(r, [Idle EXCEPT !.pc = "lock", !.kind = "callback",
                                                !.worker = w, !.ticket = t])
                         /\ UNCHANGED <<served, cacheVars, open, disputed>>
  BY DEF StartCallback
<1> DEFINE c == [Idle EXCEPT !.pc = "lock", !.kind = "callback", !.worker = w, !.ticket = t]
<1>1. /\ req' = [req EXCEPT ![r] = c] /\ served' = served /\ client' = client
      /\ open' = open /\ disputed' = disputed
  BY <1>0 DEF Set, cacheVars
<1>2. /\ c.pc = "lock" /\ c.kind = "callback" /\ c.worker = w /\ c.user = None
      /\ c.client = 0 /\ c # Idle
      /\ "lock" \notin Before \cup Connected \cup {"use", "forget"}
  BY DEF Idle, Before, Connected
<1> HIDE DEF c
<1>3. /\ req'[r] = c /\ \A s \in Request : s # r => req'[s] = req[s]
  BY <1>1 DEF TypeOK
<1>4. req[r].client = 0 /\ req[r].pc = "idle"
  BY <1>0, IdleFacts
<1>5. Numbered'
  BY <1>1, <1>2, <1>3 DEF Sessions, Numbered
<1>6. Owned'
  <2>1. ASSUME NEW m, Fresh(m), m # 0
        PROVE  FreshNext(m)
    BY <1>1, <1>2, <1>3, <2>1 DEF Fresh, FreshNext
  <2>2. ASSUME NEW s \in Request
        PROVE  /\ req'[s].pc \in Before =>
                    /\ req'[s].client = 0 /\ req'[s].number \notin open'
                    /\ FreshNext(req'[s].number)
               /\ req'[s].pc \in Connected =>
                    /\ req'[s].client = req'[s].number
                    /\ req'[s].number \in open' /\ FreshNext(req'[s].number)
               /\ req'[s].pc \in {"use", "forget"} => req'[s].client \in 1..served'
               /\ req'[s].pc = "forget" => req'[s].client \notin open' \ disputed'
               /\ req'[s].client # 0 => req'[s].pc \in Connected \cup {"use", "forget"}
    <3>1. CASE s = r
      BY <1>2, <1>3, <3>1
    <3>2. CASE s # r
      <4>1. req[s].pc \in Before \cup Connected => req[s].number # 0
        BY Active DEF Sessions
      <4> QED
        BY <1>1, <1>3, <2>1, <3>2, <4>1 DEF Sessions, Owned
    <3> QED
      BY <3>1, <3>2
  <2>3. ASSUME NEW s \in Request, NEW v \in Worker, NEW u \in User,
               req'[s].client = client'[v][u], client'[v][u] # 0
        PROVE  req'[s].worker = v /\ req'[s].user = u
    BY <1>1, <1>2, <1>3, <2>3 DEF Sessions, Owned
  <2>4. \A w1, w2 \in Worker, u1, u2 \in User :
          client'[w1][u1] = client'[w2][u2] /\ client'[w1][u1] # 0 => w1 = w2 /\ u1 = u2
    BY <1>1 DEF Sessions, Owned
  <2> QED
    BY <2>2, <2>3, <2>4 DEF Owned, Fresh, FreshNext
<1>7. Unmet'
  BY <1>1, <1>2, <1>3 DEF Sessions, Unmet
<1>8. KeptOpen'
  <2> SUFFICES ASSUME NEW v \in Worker, NEW u \in User, client'[v][u] \notin open' \cup disputed' \cup {0}
               PROVE  \E s \in Request : /\ req'[s].worker = v /\ req'[s].user = u
                                         /\ req'[s].pc = "forget"
                                         /\ req'[s].client = client'[v][u]
    BY DEF KeptOpen, Meeting, Serving
  <2>1. PICK s \in Meeting(u, v) : req[s].pc = "forget" /\ req[s].client = client[v][u]
    BY <1>1 DEF Sessions, KeptOpen
  <2> QED
    BY <1>1, <1>3, <1>4, <2>1 DEF Meeting, Serving
<1> QED
  BY <1>5, <1>6, <1>7, <1>8 DEF Sessions


(* A user asks: the request found what the worker keeps, and meets those   *)
(* of the user it finds there.                                             *)
LEMMA AskSessions ==
    ASSUME TypeOK, Sessions, NEW r \in Request, NEW w \in Worker, NEW u \in User,
           StartLogin(r, w, u) \/ StartIndex(r, w, u) \/ StartHdfs(r, w, u)
    PROVE  Sessions'
<1>1. PICK c \in AskedBy(u) :
             /\ Ask(r, w, c)
             /\ c.pc # "use" => c.client = 0
             /\ c.kind \in {"list", "logout"} => c.client = client[w][u]
             /\ c.pc = "use" => c.kind \in {"list", "logout"} /\ c.client # 0
             /\ UNCHANGED <<threads, kills, ticketVars, session, entered, cacheVars, open, disputed>>
  BY Asks
<1>2. /\ c \in Asking
      /\ c.user = u /\ c.kind # "callback"
  BY DEF AskedBy
<1>16. Ask(r, w, c)
  BY <1>1
<1> DEFINE n == served + 1
<1>3. /\ served' = n /\ req[r] = Idle /\ req'[r] \in Call
      /\ req'[r].pc = c.pc /\ req'[r].kind = c.kind /\ req'[r].user = u
      /\ req'[r].worker = w /\ req'[r].number = n /\ req'[r].client = c.client
      /\ req'[r].met = (Meeting(u, w) # {})
  BY <1>2, <1>16, Asked
<1>4. ASSUME NEW s \in Request, s # r
      PROVE  /\ req'[s].pc = req[s].pc /\ req'[s].kind = req[s].kind
             /\ req'[s].user = req[s].user /\ req'[s].worker = req[s].worker
             /\ req'[s].number = req[s].number /\ req'[s].client = req[s].client
             /\ req[s].met => req'[s].met
             /\ s \in Meeting(u, w) => req'[s].met
             /\ req'[s] = Idle <=> req[s] = Idle
  BY <1>2, <1>4, <1>16, Asked
<1>5. client' = client /\ open' = open /\ disputed' = disputed
  BY <1>1 DEF cacheVars
<1>6. /\ served \in Nat /\ n \in 1..n /\ n \notin 0..served /\ n # 0
      /\ 0..served \subseteq 0..n /\ 1..served \subseteq 1..n /\ 1..served \subseteq 0..served
  BY SessionsAssumption DEF TypeOK, Number
<1>7. u # None /\ req'[r] # Idle /\ req[r].pc = "idle"
  BY <1>3, SessionsAssumption, IdleFacts DEF Call
<1>8. /\ c.pc \in {"validate", "read", "token", "use"}
      /\ c.pc \notin {"lock"} \cup Writing \cup Connected \cup {"forget"}
      /\ c.pc \in {"validate"} \cup Before \cup {"use"} /\ "use" \notin Before
  BY <1>2 DEF Asking, Writing, Connected, Before
<1> HIDE DEF n
<1>9. /\ c.client = 0 \/ c.client = client[w][u]
      /\ client[w][u] \in 0..served
  BY <1>1 DEF Sessions, Numbered
<1>10. Numbered'
  <2>1. ASSUME NEW s \in Request, req'[s] # Idle
        PROVE  /\ req'[s].worker \in Worker
               /\ req'[s].user = None <=> req'[s].kind = "callback"
               /\ req'[s].kind = "callback" => req'[s].pc \in {"lock"} \cup Writing
               /\ req'[s].kind # "callback" =>
                     req'[s].pc \notin {"lock"} \cup Writing /\ req'[s].number \in 1..served'
    <3>1. CASE s = r
      BY <1>2, <1>3, <1>6, <1>7, <1>8, <3>1
    <3>2. CASE s # r
      BY <1>3, <1>4, <1>6, <2>1, <3>2 DEF Sessions, Numbered
    <3> QED
      BY <3>1, <3>2
  <2>2. ASSUME NEW s \in Request, s # r, req'[s].user # None
        PROVE  /\ req'[s].number # n
               /\ req'[s].user = u /\ req'[s].worker = w => req'[s].met /\ req'[r].met
    <3>1. req[s].user # None /\ req[s] # Idle
      BY <1>4, <2>2, IdleFacts
    <3>2. req[s].number \in 1..served
      BY <3>1 DEF Sessions, Numbered
    <3>3. ASSUME req[s].user = u, req[s].worker = w
          PROVE  req'[s].met /\ req'[r].met
      <4>1. s \in Meeting(u, w)
        BY <3>3 DEF Meeting, Serving
      <4> QED
        BY <1>3, <1>4, <2>2, <4>1
    <3> QED
      BY <1>4, <1>6, <2>2, <3>2, <3>3
  <2>3. ASSUME NEW s \in Request, NEW q \in Request, s # q,
               req'[s].user # None, req'[q].user # None
        PROVE  /\ req'[s].number # req'[q].number
               /\ req'[s].user = req'[q].user /\ req'[s].worker = req'[q].worker =>
                     req'[s].met /\ req'[q].met
    <3>1. CASE s = r
      BY <1>3, <2>2, <2>3, <3>1
    <3>2. CASE q = r
      BY <1>3, <2>2, <2>3, <3>2
    <3>3. CASE s # r /\ q # r
      <4>1. /\ req[s].number # req[q].number
            /\ req[s].user = req[q].user /\ req[s].worker = req[q].worker =>
                  req[s].met /\ req[q].met
        BY <1>4, <2>3, <3>3 DEF Sessions, Numbered
      <4> QED
        BY <1>4, <3>3, <4>1
    <3> QED
      BY <3>1, <3>2, <3>3
  <2>4. open' \subseteq 1..served' /\ \A v \in Worker, x \in User : client'[v][x] \in 0..served'
    BY <1>3, <1>5, <1>6 DEF Sessions, Numbered
  <2> QED
    BY <2>1, <2>3, <2>4 DEF Numbered
<1>11. ASSUME NEW m, Fresh(m), m # 0
       PROVE  FreshNext(m)
  <2>1. \A v \in Worker, x \in User : client'[v][x] # m
    BY <1>5, <1>11 DEF Fresh
  <2>2. ASSUME NEW s \in Request, req'[s].client = m
        PROVE  req'[s].number = m
    <3>1. s # r
      BY <1>3, <1>9, <1>11, <2>2 DEF Fresh
    <3> QED
      BY <1>4, <1>11, <2>2, <3>1 DEF Fresh
  <2> QED
    BY <2>1, <2>2 DEF FreshNext
<1>12. Fresh(n) /\ n \notin open
  <2>1. \A v \in Worker, x \in User : client[v][x] # n
    BY <1>6 DEF Sessions, Numbered
  <2>2. ASSUME NEW s \in Request
        PROVE  req[s].client \in 0..served
    <3>1. CASE req[s].client = 0
      BY <1>6, <3>1
    <3>2. CASE req[s].pc \in {"use", "forget"}
      BY <1>6, <3>2 DEF Sessions, Owned
    <3>3. CASE req[s].pc \in Connected
      BY <1>6, <3>3, Active DEF Sessions, Owned
    <3> QED
      BY <3>1, <3>2, <3>3 DEF Sessions, Owned
  <2> QED
    BY <1>6, <2>1, <2>2 DEF Fresh, Sessions, Numbered
<1>13. Owned'
  <2>2. ASSUME NEW s \in Request
        PROVE  /\ req'[s].pc \in Before =>
                    /\ req'[s].client = 0 /\ req'[s].number \notin open'
                    /\ FreshNext(req'[s].number)
               /\ req'[s].pc \in Connected =>
                    /\ req'[s].client = req'[s].number
                    /\ req'[s].number \in open' /\ FreshNext(req'[s].number)
               /\ req'[s].pc \in {"use", "forget"} => req'[s].client \in 1..served'
               /\ req'[s].pc = "forget" => req'[s].client \notin open' \ disputed'
               /\ req'[s].client # 0 => req'[s].pc \in Connected \cup {"use", "forget"}
    <3>1. CASE s = r
      <4>1. c.pc \in Before => c.client = 0 /\ FreshNext(n) /\ n \notin open'
        BY <1>1, <1>5, <1>6, <1>8, <1>11, <1>12
      <4>2. c.pc = "use" => c.client \in 1..n
        BY <1>1, <1>6, <1>9
      <4>3. c.client # 0 => c.pc = "use"
        BY <1>1
      <4> QED
        BY <1>3, <1>8, <3>1, <4>1, <4>2, <4>3
    <3>2. CASE s # r
      <4>1. req[s].pc \in Before \cup Connected => req[s].number # 0
        BY Active DEF Sessions
      <4>2. req[s].pc \in Before \cup Connected => FreshNext(req[s].number)
        BY <1>11, <4>1 DEF Sessions, Owned
      <4> QED
        BY <1>3, <1>4, <1>5, <1>6, <3>2, <4>2 DEF Sessions, Owned
    <3> QED
      BY <3>1, <3>2
  <2>3. ASSUME NEW s \in Request, NEW v \in Worker, NEW x \in User,
               req'[s].client = client'[v][x], client'[v][x] # 0
        PROVE  req'[s].worker = v /\ req'[s].user = x
    <3>1. CASE s = r
      <4>1. client[w][u] = client[v][x] /\ client[w][u] # 0
        BY <1>3, <1>5, <1>9, <2>3, <3>1
      <4>2. w = v /\ u = x
        BY <4>1 DEF Sessions, Owned
      <4> QED
        BY <1>3, <3>1, <4>2
    <3>2. CASE s # r
      BY <1>4, <1>5, <2>3, <3>2 DEF Sessions, Owned
    <3> QED
      BY <3>1, <3>2
  <2>4. \A w1, w2 \in Worker, u1, u2 \in User :
          client'[w1][u1] = client'[w2][u2] /\ client'[w1][u1] # 0 => w1 = w2 /\ u1 = u2
    BY <1>5 DEF Sessions, Owned
  <2> QED
    BY <2>2, <2>3, <2>4 DEF Owned, Fresh, FreshNext
<1>14. Unmet'
  <2> SUFFICES ASSUME NEW s \in Request, req'[s].kind \in {"list", "logout"}, ~req'[s].met
               PROVE  /\ req'[s].pc \in Before \cup Connected =>
                            client'[req'[s].worker][req'[s].user] = 0
                      /\ req'[s].pc \in {"use", "forget"} =>
                            client'[req'[s].worker][req'[s].user] = req'[s].client
    BY DEF Unmet
  <2>1. CASE s = r
    BY <1>1, <1>3, <1>5, <1>8, <2>1
  <2>2. CASE s # r
    <3>1. req[s].kind \in {"list", "logout"} /\ ~req[s].met
      BY <1>4, <2>2
    <3> QED
      BY <1>4, <1>5, <2>2, <3>1 DEF Sessions, Unmet
  <2> QED
    BY <2>1, <2>2
<1>15. KeptOpen'
  <2> SUFFICES ASSUME NEW v \in Worker, NEW x \in User, client'[v][x] \notin open' \cup disputed' \cup {0}
               PROVE  \E s \in Request : /\ req'[s].worker = v /\ req'[s].user = x
                                         /\ req'[s].pc = "forget"
                                         /\ req'[s].client = client'[v][x]
    BY DEF KeptOpen, Meeting, Serving
  <2>1. PICK s \in Meeting(x, v) : req[s].pc = "forget" /\ req[s].client = client[v][x]
    BY <1>5 DEF Sessions, KeptOpen
  <2>2. s \in Request /\ s # r /\ req[s].worker = v /\ req[s].user = x
    BY <1>7, <2>1 DEF Meeting, Serving
  <2> QED
    BY <1>4, <1>5, <2>1, <2>2
<1> QED
  BY <1>10, <1>13, <1>14, <1>15 DEF Sessions


(* A request goes on.                                                      *)
LEMMA Goes ==
    ASSUME TypeOK, NEW r \in Request, req[r].pc # "idle",
           NEW p \in {"validate", "lock", "mknod", "write", "token", "read", "again",
                      "cacheToken", "setToken", "connect", "cacheClient", "setClient",
                      "use", "forget"},
           Goto(r, p)
    PROVE  /\ req[r] \in Call /\ req[r] # Idle
           /\ req' \in [Request -> Record] /\ req' = [req EXCEPT ![r] = req'[r]]
           /\ req'[r] \in Call /\ req'[r].pc = p /\ Same(req'[r], req[r])
           /\ req'[r].client = req[r].client
           /\ \A s \in Request : s # r => req'[s] = req[s]
<1>1. req \in [Request -> Record]
  BY DEF TypeOK, Record
<1>2. req[r] \in Call /\ req[r] # Idle
  BY <1>1, RecordTyped, IdleFacts
<1> DEFINE c == [req[r] EXCEPT !.pc = p]
<1>3. c \in Call /\ c.pc = p /\ Same(c, req[r]) /\ c.client = req[r].client
  BY <1>2 DEF Call, Same
<1>4. req' = [req EXCEPT ![r] = c]
  BY DEF Goto, Set
<1> HIDE DEF c
<1>5. /\ req'[r] = c /\ \A s \in Request : s # r => req'[s] = req[s]
      /\ req' \in [Request -> Record]
  BY <1>1, <1>3, <1>4 DEF Record
<1> QED
  BY <1>2, <1>3, <1>4, <1>5

(* A request ends.                                                         *)
LEMMA Ends ==
    ASSUME TypeOK, NEW r \in Request, End(r)
    PROVE  /\ req' \in [Request -> Record] /\ req' = [req EXCEPT ![r] = req'[r]]
           /\ req'[r] = Idle /\ req'[r] \in Record
           /\ \A s \in Request : s # r => req'[s] = req[s]
<1>1. req \in [Request -> Record] /\ req' = [req EXCEPT ![r] = Idle]
  BY DEF TypeOK, Record, End, Set
<1> QED
  BY <1>1, IdleFacts

(* Only what follows is a step that may touch file server sessions.        *)
LEMMA StepSessions ==
    ASSUME TypeOK, Sessions, NEW r \in Request, Step(r) \/ Fail(r)
    PROVE  Sessions'
<1> DEFINE Quiet(c) ==
        /\ c \in Record /\ req' = [req EXCEPT ![r] = c]
        /\ c # Idle =>
             /\ Same(c, req[r]) /\ c.client = req[r].client
             /\ c.pc \in {"lock"} \cup Writing <=> req[r].pc \in {"lock"} \cup Writing
             /\ c.pc \in Before <=> req[r].pc \in Before
             /\ c.pc \in Connected <=> req[r].pc \in Connected
             /\ c.pc = "use" <=> req[r].pc = "use"
             /\ c.pc # "forget"
<1>1. ASSUME UNCHANGED <<client, open, disputed, served>>, req[r].pc \notin {"forget", "idle"},
             Quiet(req'[r])
      PROVE  Sessions'
  BY <1>1, IdleFacts, QuietSessions
<1>2. CASE TakeLock(r)
  <2>1. /\ req[r].pc = "lock" /\ UNCHANGED <<client, open, disputed, served>>
        /\ Goto(r, "write") \/ Goto(r, "mknod")
    BY <1>2 DEF TakeLock, cacheVars
  <2>2. Quiet(req'[r])
    BY <2>1, Goes DEF Record, Writing, Before, Connected
  <2> QED
    BY <1>1, <2>1, <2>2
<1>3. CASE MakeFile(r)
  <2>1. req[r].pc = "mknod" /\ UNCHANGED <<client, open, disputed, served>> /\ Goto(r, "write")
    BY <1>3 DEF MakeFile, cacheVars
  <2>2. Quiet(req'[r])
    BY <2>1, Goes DEF Record, Writing, Before, Connected
  <2> QED
    BY <1>1, <2>1, <2>2
<1>4. CASE MakeFileAgain(r)
  <2>1. req[r].pc = "mknod" /\ UNCHANGED <<client, open, disputed, served>> /\ End(r)
    BY <1>4 DEF MakeFileAgain, cacheVars
  <2> QED
    BY <1>1, <2>1, Ends
<1>5. CASE WriteTicket(r)
  <2>1. req[r].pc = "write" /\ UNCHANGED <<client, open, disputed, served>> /\ End(r)
    BY <1>5 DEF WriteTicket, cacheVars
  <2> QED
    BY <1>1, <2>1, Ends
<1>6. CASE CasAnswers(r)
  <2>1. req[r].pc = "validate" /\ UNCHANGED <<client, open, disputed, served>> /\ End(r)
    BY <1>6 DEF CasAnswers, cacheVars
  <2> QED
    BY <1>1, <2>1, Ends
<1>7. CASE CasRefuses(r)
  <2>1. req[r].pc = "validate" /\ UNCHANGED <<client, open, disputed, served>> /\ End(r)
    BY <1>7 DEF CasRefuses, cacheVars
  <2> QED
    BY <1>1, <2>1, Ends
<1>8. CASE GetToken(r)
  <2>1. /\ req[r].pc = "token" /\ UNCHANGED <<client, open, disputed, served>>
        /\ Goto(r, "connect") \/ Goto(r, "read")
    BY <1>8 DEF GetToken, cacheVars
  <2>2. Quiet(req'[r])
    BY <2>1, Goes DEF Record, Writing, Before, Connected
  <2> QED
    BY <1>1, <2>1, <2>2
<1>9. CASE ReadTicket(r)
  <2>1. /\ req[r].pc \in {"read", "again"} /\ UNCHANGED <<client, open, disputed, served>>
        /\ Goto(r, "again") \/ Goto(r, "cacheToken") \/ End(r)
    BY <1>9 DEF ReadTicket, cacheVars
  <2>2. Quiet(req'[r])
    <3>1. CASE End(r)
      BY <3>1, Ends
    <3>2. CASE Goto(r, "again") \/ Goto(r, "cacheToken")
      BY <2>1, <3>2, Goes DEF Record, Writing, Before, Connected
    <3> QED
      BY <2>1, <3>1, <3>2
  <2> QED
    BY <1>1, <2>1, <2>2
<1>10. CASE TakeMutex(r)
  <2>1. /\ UNCHANGED <<client, open, disputed, served>>
        /\ \/ req[r].pc = "cacheToken" /\ Goto(r, "setToken")
           \/ req[r].pc = "cacheClient" /\ Goto(r, "setClient")
    BY <1>10 DEF TakeMutex
  <2>2. Quiet(req'[r])
    BY <2>1, Goes DEF Record, Writing, Before, Connected
  <2> QED
    BY <1>1, <2>1, <2>2
<1>11. CASE SetToken(r)
  <2>1. /\ req[r].pc = "setToken" /\ UNCHANGED <<client, open, disputed, served>>
        /\ Goto(r, "connect") \/ End(r)
    BY <1>11 DEF SetToken
  <2>2. Quiet(req'[r])
    <3>1. CASE End(r)
      BY <3>1, Ends
    <3>2. CASE Goto(r, "connect")
      BY <2>1, <3>2, Goes DEF Record, Writing, Before, Connected
    <3> QED
      BY <2>1, <3>1, <3>2
  <2> QED
    BY <1>1, <2>1, <2>2
<1>14. CASE FileRaises(r) \/ ReadRaises(r)
  <2>1. /\ req[r].pc \in {"mknod", "write", "read", "again"} /\ End(r)
        /\ UNCHANGED <<client, open, disputed, served>>
    BY <1>14 DEF FileRaises, ReadRaises, cacheVars
  <2> QED
    BY <1>1, <2>1, Ends
<1>12. CASE SetRaises(r)
  <2>1. /\ req[r].pc \in {"setToken", "setClient"} /\ UNCHANGED <<client, open, disputed, served>>
        /\ End(r)
    BY <1>12 DEF SetRaises
  <2> QED
    BY <1>1, <2>1, Ends
<1>13. CASE Use(r) \/ Fail(r)
  <2>1. /\ req[r].pc \in {"validate", "read", "again", "connect", "use"} /\ End(r)
        /\ UNCHANGED <<client, open, disputed, served>>
    BY <1>13 DEF Use, Fail, cacheVars
  <2> QED
    BY <1>1, <2>1, Ends
<1> QED
  BY <1>2, <1>3, <1>4, <1>5, <1>6, <1>7, <1>8, <1>9, <1>10, <1>11, <1>12, <1>13,
     <1>14, ConnectSessions, LogoutSessions, RaisesSessions, ForgetSessions, SetClientSessions DEF Step


(* A step of a request changes that request only.                          *)
LEMMA Moves ==
    ASSUME TypeOK, Numbered, NEW r \in Request, Step(r) \/ Fail(r)
    PROVE  /\ req[r] \in Call /\ req[r] # Idle
           /\ req[r].worker \in Worker
           /\ req' \in [Request -> Record]
           /\ \A s \in Request : s # r => req'[s] = req[s]
           /\ req'[r] = Idle \/ req'[r].worker = req[r].worker
           /\ threads' = threads /\ served' = served /\ kills' = kills /\ calls' = calls
<1>1. /\ req[r].pc # "idle"
      /\ threads' = threads /\ served' = served /\ kills' = kills /\ calls' = calls
  BY DEF Step, Fail, TakeLock, MakeFile, MakeFileAgain, WriteTicket, CasAnswers, CasRefuses,
         GetToken, ReadTicket, TakeMutex, SetToken, Connect, ConnectRefused, SetClient,
         SetRaises, Use, Logout, Forget,
         FileRaises, ReadRaises, ConnectRaises, LogoutRefused, LogoutRaises
<1>2. req[r] \in Call /\ req[r] # Idle /\ req[r].worker \in Worker
  BY <1>1, RecordTyped, IdleFacts DEF TypeOK, Record, Numbered
<1>3. \/ End(r) \/ Connect(r)
      \/ \E p \in {"validate", "lock", "mknod", "write", "token", "read", "again",
                   "cacheToken", "setToken", "connect", "cacheClient", "setClient",
                   "use", "forget"} : Goto(r, p)
  <2>1. CASE TakeLock(r) \/ MakeFile(r) \/ MakeFileAgain(r) \/ WriteTicket(r)
             \/ FileRaises(r) \/ CasAnswers(r) \/ CasRefuses(r)
    BY <2>1 DEF TakeLock, MakeFile, MakeFileAgain, WriteTicket, FileRaises, CasAnswers,
       CasRefuses
  <2>2. CASE GetToken(r) \/ ReadTicket(r) \/ ReadRaises(r) \/ TakeMutex(r) \/ SetToken(r)
    BY <2>2 DEF GetToken, ReadTicket, ReadRaises, TakeMutex, SetToken
  <2>3. CASE Connect(r) \/ ConnectRefused(r) \/ SetClient(r) \/ SetRaises(r)
             \/ ConnectRaises(r) \/ LogoutRefused(r) \/ LogoutRaises(r)
             \/ Use(r) \/ Logout(r) \/ Forget(r) \/ Fail(r)
    BY <2>3 DEF ConnectRefused, ConnectRaises, SetClient, SetRaises, Use, Logout,
       LogoutRefused, LogoutRaises, Forget, Fail
  <2> QED
    BY <2>1, <2>2, <2>3 DEF Step
<1>4. CASE End(r)
  BY <1>1, <1>2, <1>4, Ends
<1>5. CASE Connect(r)
  <2> DEFINE c == [req[r] EXCEPT !.pc = "cacheClient", !.client = req[r].number]
  <2>1. c \in Call /\ c.worker = req[r].worker
    BY <1>2 DEF Call
  <2>2. req \in [Request -> Record] /\ req' = [req EXCEPT ![r] = c]
    BY <1>5 DEF Connect, Set, TypeOK, Record
  <2> HIDE DEF c
  <2> QED
    BY <1>1, <1>2, <2>1, <2>2 DEF Record
<1>6. ASSUME NEW p \in {"validate", "lock", "mknod", "write", "token", "read", "again",
                   "cacheToken", "setToken", "connect", "cacheClient", "setClient",
                   "use", "forget"}, Goto(r, p)
      PROVE  /\ req' \in [Request -> Record]
             /\ \A s \in Request : s # r => req'[s] = req[s]
             /\ req'[r].worker = req[r].worker
  BY <1>1, <1>6, Goes DEF Same
<1> QED
  BY <1>1, <1>2, <1>3, <1>4, <1>5, <1>6

LEMMA StepTyped ==
    ASSUME TypeOK, Numbered, NEW r \in Request, Step(r) \/ Fail(r)
    PROVE  TypeOK'
<1>1. /\ req[r] \in Call /\ req[r].worker \in Worker /\ req[r].ticket \in Number
      /\ req[r].number \in Number /\ req[r].client \in Number
      /\ req[r].user \in User \cup {None}
      /\ req' \in [Request -> Record]
      /\ threads' = threads /\ served' = served /\ kills' = kills /\ calls' = calls
  BY Moves DEF Call
<1>2. /\ req[r].pc \in Before \cup Connected \cup {"use", "forget", "validate"} =>
            req[r].user \in User
  <2>1. CASE req[r].pc = "validate"
    <3>1. req[r].user # None
      BY <1>1, <2>1, Moves DEF Numbered, Writing
    <3> QED
      BY <1>1, <3>1
  <2> QED
    BY <2>1, Active
<1>3. 0 \in Number
  BY SessionsAssumption DEF Number
<1>4. there' \in BOOLEAN /\ first' \in Number /\ stored' \subseteq Number
      /\ overtaken' \subseteq Number
  BY <1>1 DEF TypeOK, Step, Fail, TakeLock, MakeFile, MakeFileAgain, WriteTicket, PutFirst,
         CasAnswers, CasRefuses, GetToken, ReadTicket, TakeMutex, SetToken, Connect,
         ConnectRefused, SetClient, SetRaises, Use, Logout, Forget,
         FileRaises, ReadRaises, ConnectRaises, LogoutRefused, LogoutRaises, ticketVars
<1>5. session' \in [User -> Number] /\ entered' \subseteq User
  <2>1. CASE CasAnswers(r)
    BY <1>1, <2>1 DEF TypeOK, CasAnswers
  <2>2. CASE SetToken(r)
    BY <1>2, <2>2 DEF TypeOK, SetToken, Before
  <2>3. CASE ~CasAnswers(r) /\ ~SetToken(r)
    BY <2>3 DEF TypeOK, Step, Fail, TakeLock, MakeFile, MakeFileAgain, WriteTicket,
         CasRefuses, Unanswered, GetToken, ReadTicket, TakeMutex, Connect,
         ConnectRefused, SetClient, SetRaises, Use, Logout, Forget,
         FileRaises, ReadRaises, ConnectRaises, LogoutRefused, LogoutRaises
  <2> QED
    BY <2>1, <2>2, <2>3
<1>6. /\ lock' \in [Worker -> Request \cup {None, Lost}]
      /\ mutex' \in [Worker -> Request \cup {None, Lost}]
  <2>1. \/ lock' = lock
        \/ \E x \in Request \cup {None, Lost} : lock' = [lock EXCEPT ![req[r].worker] = x]
    BY DEF Step, Fail, TakeLock, MakeFile, MakeFileAgain, WriteTicket, CasAnswers,
           CasRefuses, GetToken, ReadTicket, TakeMutex, SetToken, Connect, ConnectRefused,
           SetClient, SetRaises, Use, Logout, Forget,
         FileRaises, ReadRaises, ConnectRaises, LogoutRefused, LogoutRaises, ticketVars
  <2>2. \/ mutex' = mutex
        \/ \E x \in Request \cup {None, Lost} : mutex' = [mutex EXCEPT ![req[r].worker] = x]
    BY DEF Step, Fail, TakeLock, MakeFile, MakeFileAgain, WriteTicket, CasAnswers,
           CasRefuses, GetToken, ReadTicket, TakeMutex, SetToken, Connect, ConnectRefused,
           SetClient, SetRaises, Use, Logout, Forget,
         FileRaises, ReadRaises, ConnectRaises, LogoutRefused, LogoutRaises, cacheVars, AfterSet
  <2> QED
    BY <2>1, <2>2 DEF TypeOK
<1>7. token' \in [Worker -> SUBSET User]
  <2>1. CASE SetToken(r)
    <3>1. req[r].user \in User /\ token' = [token EXCEPT ![req[r].worker] = @ \cup {req[r].user}]
      BY <1>2, <2>1 DEF SetToken, Before
    <3> QED
      BY <3>1 DEF TypeOK
  <2>2. CASE ~SetToken(r)
    BY <2>2 DEF TypeOK, Step, Fail, TakeLock, MakeFile, MakeFileAgain, WriteTicket,
         CasAnswers, CasRefuses, GetToken, ReadTicket, TakeMutex, Connect,
         ConnectRefused, SetClient, SetRaises, Use, Logout, Forget,
         FileRaises, ReadRaises, ConnectRaises, LogoutRefused, LogoutRaises, cacheVars
  <2> QED
    BY <2>1, <2>2
<1>8. client' \in [Worker -> [User -> Number]]
  <2>1. \/ client' = client
        \/ \E x \in Number : client' = [client EXCEPT ![req[r].worker][req[r].user] = x]
    BY <1>1, <1>3 DEF Step, Fail, TakeLock, MakeFile, MakeFileAgain, WriteTicket, CasAnswers,
           CasRefuses, GetToken, ReadTicket, TakeMutex, SetToken, Connect, ConnectRefused,
           SetClient, SetRaises, Use, Logout, Forget,
         FileRaises, ReadRaises, ConnectRaises, LogoutRefused, LogoutRaises, cacheVars, Forgotten
  <2>2. ASSUME NEW x \in Number, client' = [client EXCEPT ![req[r].worker][req[r].user] = x]
        PROVE  client' \in [Worker -> [User -> Number]]
    <3>1. /\ client \in [Worker -> [User -> Number]]
          /\ [client[req[r].worker] EXCEPT ![req[r].user] = x] \in [User -> Number]
      BY <1>1 DEF TypeOK
    <3> QED
      BY <2>2, <3>1
  <2> QED
    BY <2>1, <2>2 DEF TypeOK
<1>9. open' \subseteq Number /\ disputed' \subseteq Number
  BY <1>1 DEF TypeOK, Step, Fail, TakeLock, MakeFile, MakeFileAgain, WriteTicket, Closed,
         CasAnswers, CasRefuses, GetToken, ReadTicket, TakeMutex, SetToken, Connect,
         ConnectRefused, SetClient, SetRaises, Use, Logout, Forget,
         FileRaises, ReadRaises, ConnectRaises, LogoutRefused, LogoutRaises
<1> QED
  BY <1>1, <1>4, <1>5, <1>6, <1>7, <1>8, <1>9 DEF TypeOK, Record

LEMMA NextTyped ==
    ASSUME TypeOK, Numbered, Next
    PROVE  TypeOK'
<1>1. ASSUME NEW r \in Request, Step(r) \/ Fail(r)
      PROVE  TypeOK'
  BY <1>1, StepTyped
<1>2. ASSUME NEW r \in Request, NEW w \in Worker, StartCallback(r, w)
      PROVE  TypeOK'
  <2>1. PICK t \in calls :
          /\ calls' = calls \ {t}
          /\ Set(r, [Idle EXCEPT !.pc = "lock", !.kind = "callback", !.worker = w,
                                 !.ticket = t])
          /\ UNCHANGED <<threads, served, kills, ticketVars, session, entered, cacheVars, open, disputed>>
    BY <1>2 DEF StartCallback
  <2> DEFINE c == [Idle EXCEPT !.pc = "lock", !.kind = "callback", !.worker = w, !.ticket = t]
  <2>2. c \in Call
    <3>1. t \in Number /\ 0 \in Number
      BY SessionsAssumption DEF TypeOK, Number
    <3> DEFINE S == [pc : {"lock"}, kind : {"callback"}, user : {None}, worker : {w},
                     number : {0}, ticket : {t}, client : {0}, met : BOOLEAN]
    <3>2. c \in S
      BY DEF Idle
    <3>3. S \subseteq Call
      BY <3>1 DEF Call, Kinds
    <3> QED
      BY <3>2, <3>3
  <2>3. req' = [req EXCEPT ![r] = c]
    BY <2>1 DEF Set
  <2> HIDE DEF c
  <2>4. req' \in [Request -> Call \cup {Idle}]
    BY <2>2, <2>3 DEF TypeOK
  <2> QED
    BY <2>1, <2>4 DEF TypeOK, ticketVars, cacheVars
<1>3. ASSUME NEW r \in Request, NEW w \in Worker, NEW u \in User,
             StartLogin(r, w, u) \/ StartIndex(r, w, u) \/ StartHdfs(r, w, u)
      PROVE  TypeOK'
  <2>1. PICK c \in AskedBy(u) :
             /\ Ask(r, w, c)
             /\ UNCHANGED <<threads, kills, ticketVars, session, entered, cacheVars, open, disputed>>
    BY <1>3, Asks
  <2>2. c \in Asking
    BY DEF AskedBy
  <2>3. served' = served + 1 /\ served + 1 \in Number /\ req' \in [Request -> Record]
    BY <2>1, <2>2, Asked
  <2>4. calls' \subseteq calls \cup {served + 1}
    BY <1>3 DEF StartLogin, StartIndex, StartHdfs
  <2> QED
    BY <2>1, <2>3, <2>4 DEF TypeOK, Record, ticketVars, cacheVars
<1>4. ASSUME NEW w \in Worker, Kill(w)
      PROVE  TypeOK'
  <2>1. req' \in [Request -> Call \cup {Idle}]
    BY <1>4 DEF Kill, TypeOK
  <2>2. kills' \in 0..MaxKills
    BY <1>4, SessionsAssumption DEF Kill, TypeOK
  <2>3. /\ lock' \in [Worker -> Request \cup {None, Lost}]
        /\ mutex' \in [Worker -> Request \cup {None, Lost}]
        /\ token' \in [Worker -> SUBSET User]
    BY <1>4 DEF Kill, TypeOK
  <2>4. client' \in [Worker -> [User -> Number]]
    <3>1. [u \in User |-> 0] \in [User -> Number]
      BY SessionsAssumption DEF Number
    <3> QED
      BY <1>4, <3>1 DEF Kill, TypeOK
  <2> QED
    BY <1>4, <2>1, <2>2, <2>3, <2>4 DEF Kill, TypeOK
<1> QED
  BY <1>1, <1>2, <1>3, <1>4 DEF Next


(* Who a lock says has it, has it.                                         *)
Held(l, q, pcs) ==
    \A w \in Worker, r \in Request : l[w] = r <=> q[r].worker = w /\ q[r].pc \in pcs

LEMMA ExclusiveHeld ==
    /\ Exclusive <=> Held(lock, req, Writing) /\ Held(mutex, req, Setting)
    /\ Exclusive' <=> Held(lock', req', Writing) /\ Held(mutex', req', Setting)
BY DEF Exclusive, Held, Serving

Others(q, p, r) ==
    \A s \in Request : s # r => p[s].worker = q[s].worker /\ p[s].pc = q[s].pc

LEMMA HeldLeft ==
    ASSUME NEW l, NEW q, NEW p, NEW pcs, NEW r \in Request,
           Held(l, q, pcs), Others(q, p, r), p[r].pc \in pcs <=> q[r].pc \in pcs,
           p[r].pc \in pcs => p[r].worker = q[r].worker
    PROVE  Held(l, p, pcs)
BY DEF Held, Others

LEMMA HeldTaken ==
    ASSUME NEW l \in [Worker -> Request \cup {None, Lost}], NEW k, NEW q, NEW p, NEW pcs,
           NEW r \in Request, NEW w \in Worker,
           Held(l, q, pcs), Others(q, p, r), l[w] = None, k = [l EXCEPT ![w] = r],
           p[r].pc \in pcs, p[r].worker = w, q[r].worker = w
    PROVE  Held(k, p, pcs)
<1> SUFFICES ASSUME NEW v \in Worker, NEW s \in Request
             PROVE  k[v] = s <=> p[s].worker = v /\ p[s].pc \in pcs
  BY DEF Held
<1>1. l[v] = s <=> q[s].worker = v /\ q[s].pc \in pcs
  BY DEF Held
<1>2. CASE v = w
  BY <1>1, <1>2, SessionsAssumption DEF Others
<1>3. CASE v # w
  BY <1>1, <1>3 DEF Others
<1> QED
  BY <1>2, <1>3

LEMMA HeldLet ==
    ASSUME NEW l \in [Worker -> Request \cup {None, Lost}], NEW k, NEW q, NEW p, NEW pcs,
           NEW r \in Request, NEW w \in Worker, NEW x \in {None, Lost},
           Held(l, q, pcs), Others(q, p, r), k = [l EXCEPT ![w] = x],
           q[r].worker = w, q[r].pc \in pcs, p[r].pc \notin pcs
    PROVE  Held(k, p, pcs)
<1> SUFFICES ASSUME NEW v \in Worker, NEW s \in Request
             PROVE  k[v] = s <=> p[s].worker = v /\ p[s].pc \in pcs
  BY DEF Held
<1>1. /\ l[v] = s <=> q[s].worker = v /\ q[s].pc \in pcs
      /\ l[w] = r
  BY DEF Held
<1>2. CASE v = w
  BY <1>1, <1>2, SessionsAssumption DEF Others
<1>3. CASE v # w
  BY <1>1, <1>3 DEF Others
<1> QED
  BY <1>2, <1>3

LEMMA HeldLost ==
    ASSUME NEW l \in [Worker -> Request \cup {None, Lost}], NEW k, NEW q, NEW p, NEW pcs,
           NEW r \in Request, NEW w \in Worker,
           Held(l, q, pcs), Others(q, p, r), l[w] = None, k = [l EXCEPT ![w] = Lost],
           q[r].pc \notin pcs, p[r].pc \notin pcs
    PROVE  Held(k, p, pcs)
<1> SUFFICES ASSUME NEW v \in Worker, NEW s \in Request
             PROVE  k[v] = s <=> p[s].worker = v /\ p[s].pc \in pcs
  BY DEF Held
<1>1. /\ l[v] = s <=> q[s].worker = v /\ q[s].pc \in pcs
      /\ l[v] = r <=> q[r].worker = v /\ q[r].pc \in pcs
  BY DEF Held
<1>2. CASE v = w
  BY <1>1, <1>2, SessionsAssumption DEF Others
<1>3. CASE v # w
  BY <1>1, <1>3 DEF Others
<1> QED
  BY <1>2, <1>3

LEMMA StepExclusive ==
    ASSUME TypeOK, Numbered, Exclusive, NEW r \in Request, Step(r) \/ Fail(r)
    PROVE  Exclusive'
<1> DEFINE w == req[r].worker
           LockLeft == /\ lock' = lock
                       /\ req'[r].pc \in Writing <=> req[r].pc \in Writing
           MutexLeft == /\ mutex' = mutex
                        /\ req'[r].pc \in Setting <=> req[r].pc \in Setting
           LockTaken == /\ lock[w] = None /\ lock' = [lock EXCEPT ![w] = r]
                        /\ req'[r].pc \in Writing
           MutexTaken == /\ mutex[w] = None /\ mutex' = [mutex EXCEPT ![w] = r]
                         /\ req'[r].pc \in Setting
           LockLet == /\ req[r].pc \in Writing /\ req'[r].pc \notin Writing
                      /\ \E x \in {None, Lost} : lock' = [lock EXCEPT ![w] = x]
           LockLost == /\ req[r].pc \notin Writing /\ req'[r].pc \notin Writing
                       /\ lock[w] = None /\ lock' = [lock EXCEPT ![w] = Lost]
           MutexLet == /\ req[r].pc \in Setting /\ req'[r].pc \notin Setting
                       /\ \E x \in {None, Lost} : mutex' = [mutex EXCEPT ![w] = x]
<1>1. /\ w \in Worker /\ \A s \in Request : s # r => req'[s] = req[s]
      /\ req'[r] = Idle \/ req'[r].worker = w
      /\ Others(req, req', r)
  BY Moves DEF Others
<1>2. Idle.pc = "idle" /\ Idle.pc \notin Writing /\ Idle.pc \notin Setting
  BY IdleFacts DEF Writing, Setting
<1>3. LockLeft \/ LockTaken \/ LockLet \/ LockLost => Held(lock', req', Writing)
  <2>1. lock \in [Worker -> Request \cup {None, Lost}] /\ Held(lock, req, Writing)
    BY ExclusiveHeld DEF TypeOK
  <2>2. req'[r].pc \in Writing => req'[r].worker = w
    BY <1>1, <1>2
  <2>3. CASE LockLeft
    <3>1. Held(lock, req', Writing)
      BY <1>1, <2>1, <2>2, <2>3, HeldLeft
    <3> QED
      BY <2>3, <3>1
  <2>4. CASE LockTaken
    <3>1. req'[r].worker = w /\ req'[r].pc \in Writing
      BY <2>2, <2>4
    <3> HIDE DEF w
    <3>2. req[r].worker = w
      BY DEF w
    <3> QED
      BY <1>1, <2>1, <2>4, <3>1, <3>2, HeldTaken
  <2>5. CASE LockLet
    <3>1. PICK x \in {None, Lost} : lock' = [lock EXCEPT ![w] = x]
      BY <2>5
    <3>2. req[r].pc \in Writing /\ req'[r].pc \notin Writing
      BY <2>5
    <3> HIDE DEF w
    <3>3. req[r].worker = w
      BY DEF w
    <3> QED
      BY <1>1, <2>1, <3>1, <3>2, <3>3, HeldLet
  <2>6. CASE LockLost
    <3>1. /\ lock[w] = None /\ lock' = [lock EXCEPT ![w] = Lost]
          /\ req[r].pc \notin Writing /\ req'[r].pc \notin Writing
      BY <2>6
    <3> HIDE DEF w
    <3> QED
      BY <1>1, <2>1, <3>1, HeldLost
  <2> QED
    BY <2>3, <2>4, <2>5, <2>6
<1>4. MutexLeft \/ MutexTaken \/ MutexLet => Held(mutex', req', Setting)
  <2>1. mutex \in [Worker -> Request \cup {None, Lost}] /\ Held(mutex, req, Setting)
    BY ExclusiveHeld DEF TypeOK
  <2>2. req'[r].pc \in Setting => req'[r].worker = w
    BY <1>1, <1>2
  <2>3. CASE MutexLeft
    <3>1. Held(mutex, req', Setting)
      BY <1>1, <2>1, <2>2, <2>3, HeldLeft
    <3> QED
      BY <2>3, <3>1
  <2>4. CASE MutexTaken
    <3>1. req'[r].worker = w /\ req'[r].pc \in Setting
      BY <2>2, <2>4
    <3> HIDE DEF w
    <3>2. req[r].worker = w
      BY DEF w
    <3> QED
      BY <1>1, <2>1, <2>4, <3>1, <3>2, HeldTaken
  <2>5. CASE MutexLet
    <3>1. PICK x \in {None, Lost} : mutex' = [mutex EXCEPT ![w] = x]
      BY <2>5
    <3>2. req[r].pc \in Setting /\ req'[r].pc \notin Setting
      BY <2>5
    <3> HIDE DEF w
    <3>3. req[r].worker = w
      BY DEF w
    <3> QED
      BY <1>1, <2>1, <3>1, <3>2, <3>3, HeldLet
  <2> QED
    BY <2>3, <2>4, <2>5
<1>5. SUFFICES /\ LockLeft \/ LockTaken \/ LockLet \/ LockLost
               /\ (MutexLeft \/ MutexTaken \/ MutexLet)
  BY <1>3, <1>4, ExclusiveHeld
<1>6. CASE TakeLock(r)
  <2>1. /\ req[r].pc = "lock" /\ lock[w] = None /\ lock' = [lock EXCEPT ![w] = r]
        /\ mutex' = mutex /\ (Goto(r, "write") \/ Goto(r, "mknod"))
    BY <1>6 DEF TakeLock, cacheVars
  <2>2. req'[r].pc \in {"write", "mknod"}
    BY <2>1, Goes
  <2> QED
    BY <2>1, <2>2 DEF Writing, Setting
<1>7. CASE MakeFile(r)
  <2>1. req[r].pc = "mknod" /\ lock' = lock /\ mutex' = mutex /\ Goto(r, "write")
    BY <1>7 DEF MakeFile, cacheVars
  <2>2. req'[r].pc = "write"
    BY <2>1, Goes
  <2> QED
    BY <2>1, <2>2 DEF Writing, Setting
<1>8. CASE MakeFileAgain(r) \/ WriteTicket(r) \/ FileRaises(r)
  <2>1. /\ req[r].pc \in {"mknod", "write"} /\ mutex' = mutex /\ End(r)
        /\ \E x \in {None, Lost} : lock' = [lock EXCEPT ![w] = x]
    BY <1>8 DEF MakeFileAgain, WriteTicket, FileRaises, cacheVars
  <2>2. req'[r] = Idle
    BY <2>1, Ends
  <2> QED
    BY <1>2, <2>1, <2>2 DEF Writing, Setting
<1>9. CASE TakeMutex(r)
  <2>1. /\ req[r].pc \in {"cacheToken", "cacheClient"} /\ mutex[w] = None
        /\ mutex' = [mutex EXCEPT ![w] = r] /\ lock' = lock
        /\ Goto(r, "setToken") \/ Goto(r, "setClient")
    BY <1>9 DEF TakeMutex, ticketVars
  <2>2. req'[r].pc \in {"setToken", "setClient"}
    BY <2>1, Goes
  <2> QED
    BY <2>1, <2>2 DEF Writing, Setting
<1>10. CASE SetToken(r) \/ SetClient(r) \/ SetRaises(r)
  <2>1. /\ req[r].pc \in {"setToken", "setClient"} /\ lock' = lock
        /\ \E x \in {None, Lost} : mutex' = [mutex EXCEPT ![w] = x]
        /\ Goto(r, "connect") \/ Goto(r, "use") \/ End(r)
    BY <1>10 DEF SetToken, SetClient, SetRaises, AfterSet, ticketVars
  <2>2. req'[r].pc \in {"connect", "use", "idle"}
    <3>1. CASE End(r)
      BY <1>2, <3>1, Ends
    <3>2. CASE Goto(r, "connect") \/ Goto(r, "use")
      BY <2>1, <3>2, Goes
    <3> QED
      BY <2>1, <3>1, <3>2
  <2> QED
    BY <2>1, <2>2 DEF Writing, Setting
<1>11. CASE GetToken(r) \/ ReadTicket(r) \/ Logout(r) \/ LogoutRefused(r)
  <2>1. /\ req[r].pc \in {"token", "read", "again", "use"} /\ lock' = lock /\ mutex' = mutex
        /\ \/ End(r)
           \/ \E p \in {"connect", "read", "again", "cacheToken", "forget"} : Goto(r, p)
    BY <1>11 DEF GetToken, ReadTicket, Logout, LogoutRefused, ticketVars, cacheVars
  <2>2. req'[r].pc \in {"connect", "read", "again", "cacheToken", "forget", "idle"}
    <3>1. CASE End(r)
      BY <1>2, <3>1, Ends
    <3>2. ASSUME NEW p \in {"connect", "read", "again", "cacheToken", "forget"}, Goto(r, p)
          PROVE  req'[r].pc = p
      BY <2>1, <3>2, Goes
    <3> QED
      BY <2>1, <3>1, <3>2
  <2> QED
    BY <2>1, <2>2 DEF Writing, Setting
<1>12. CASE CasAnswers(r) \/ CasRefuses(r) \/ ConnectRefused(r) \/ Use(r) \/ Forget(r)
            \/ ConnectRaises(r) \/ LogoutRaises(r) \/ Fail(r)
  <2>1. /\ req[r].pc \in {"validate", "connect", "use", "forget", "read", "again"}
        /\ lock' = lock /\ mutex' = mutex /\ End(r)
    BY <1>12 DEF CasAnswers, CasRefuses, ConnectRefused, ConnectRaises, Use,
           LogoutRaises, Forget, Fail, ticketVars, cacheVars
  <2>2. req'[r] = Idle
    BY <2>1, Ends
  <2> QED
    BY <1>2, <2>1, <2>2 DEF Writing, Setting
<1>13. CASE Connect(r)
  <2>1. req[r].pc = "connect" /\ lock' = lock /\ mutex' = mutex
    BY <1>13 DEF Connect, ticketVars, cacheVars
  <2>2. req'[r].pc = "cacheClient"
    BY <1>13, Moves DEF Connect, Set, TypeOK, Call
  <2> QED
    BY <2>1, <2>2 DEF Writing, Setting
<1>14. CASE ReadRaises(r)
  <2>1. /\ req[r].pc \in {"read", "again"} /\ lock[w] = None
        /\ lock' = [lock EXCEPT ![w] = Lost] /\ mutex' = mutex /\ End(r)
    BY <1>14 DEF ReadRaises, cacheVars
  <2>2. req'[r] = Idle
    BY <2>1, Ends
  <2> QED
    BY <1>2, <2>1, <2>2 DEF Writing, Setting
<1> QED
  BY <1>6, <1>7, <1>8, <1>9, <1>10, <1>11, <1>12, <1>13, <1>14 DEF Step

LEMMA NextExclusive ==
    ASSUME TypeOK, Numbered, Exclusive, Next
    PROVE  Exclusive'
<1>0. /\ lock \in [Worker -> Request \cup {None, Lost}] /\ Held(lock, req, Writing)
      /\ mutex \in [Worker -> Request \cup {None, Lost}] /\ Held(mutex, req, Setting)
  BY ExclusiveHeld DEF TypeOK
<1>1. ASSUME NEW r \in Request, lock' = lock, mutex' = mutex,
             req[r].pc \notin Writing \cup Setting, req'[r].pc \notin Writing \cup Setting,
             \A s \in Request : s # r => /\ req'[s].worker = req[s].worker
                                         /\ req'[s].pc = req[s].pc
      PROVE  Exclusive'
  <2>0. Others(req, req', r)
    BY <1>1 DEF Others
  <2>1. Held(lock, req', Writing)
    BY <1>0, <1>1, <2>0, HeldLeft
  <2>2. Held(mutex, req', Setting)
    BY <1>0, <1>1, <2>0, HeldLeft
  <2> QED
    BY <1>1, <2>1, <2>2, ExclusiveHeld
<1>2. Idle.pc \notin Writing \cup Setting
  BY IdleFacts DEF Writing, Setting
<1>3. ASSUME NEW r \in Request, NEW w \in Worker, StartCallback(r, w)
      PROVE  Exclusive'
  <2>1. PICK t \in calls :
          /\ req[r] = Idle /\ UNCHANGED <<ticketVars, cacheVars>>
          /\ Set(r, [Idle EXCEPT !.pc = "lock", !.kind = "callback", !.worker = w,
                                 !.ticket = t])
    BY <1>3 DEF StartCallback
  <2> DEFINE c == [Idle EXCEPT !.pc = "lock", !.kind = "callback", !.worker = w, !.ticket = t]
  <2>2. c.pc = "lock"
    BY DEF Idle
  <2>3. req' = [req EXCEPT ![r] = c]
    BY <2>1 DEF Set
  <2> HIDE DEF c
  <2>4. req'[r].pc = "lock" /\ \A s \in Request : s # r => req'[s] = req[s]
    BY <2>2, <2>3 DEF TypeOK
  <2> QED
    BY <1>1, <1>2, <2>1, <2>4 DEF ticketVars, cacheVars, Writing, Setting
<1>4. ASSUME NEW r \in Request, NEW w \in Worker, NEW u \in User,
             StartLogin(r, w, u) \/ StartIndex(r, w, u) \/ StartHdfs(r, w, u)
      PROVE  Exclusive'
  <2>1. PICK c \in AskedBy(u) :
             /\ Ask(r, w, c)
             /\ UNCHANGED <<threads, kills, ticketVars, session, entered, cacheVars, open, disputed>>
    BY <1>4, Asks
  <2>2. c \in Asking
    BY DEF AskedBy
  <2>3. /\ req[r] = Idle /\ req'[r].pc = c.pc
        /\ \A s \in Request : s # r => /\ req'[s].worker = req[s].worker
                                       /\ req'[s].pc = req[s].pc
    BY <2>1, <2>2, Asked
  <2>4. c.pc \notin Writing \cup Setting
    BY <2>2 DEF Asking, Writing, Setting
  <2> QED
    BY <1>1, <1>2, <2>1, <2>3, <2>4 DEF ticketVars, cacheVars
<1>5. ASSUME NEW w \in Worker, Kill(w)
      PROVE  Exclusive'
  <2>1. /\ req' = [r \in Request |-> IF r \in Serving(w) THEN Idle ELSE req[r]]
        /\ lock' = [lock EXCEPT ![w] = None] /\ mutex' = [mutex EXCEPT ![w] = None]
    BY <1>5 DEF Kill
  <2>2. ASSUME NEW l \in [Worker -> Request \cup {None, Lost}], NEW k, NEW pcs,
               Held(l, req, pcs), k = [l EXCEPT ![w] = None], Idle.pc \notin pcs
        PROVE  Held(k, req', pcs)
    <3> SUFFICES ASSUME NEW v \in Worker, NEW s \in Request
                 PROVE  k[v] = s <=> req'[s].worker = v /\ req'[s].pc \in pcs
      BY DEF Held
    <3>1. l[v] = s <=> req[s].worker = v /\ req[s].pc \in pcs
      BY <2>2 DEF Held
    <3>2. /\ req[s].worker = w => req'[s] = Idle
          /\ req[s].worker # w => req'[s] = req[s]
      BY <2>1 DEF Serving
    <3>3. CASE v = w
      BY <2>2, <3>2, <3>3, SessionsAssumption
    <3>4. CASE v # w
      <4>1. k[v] = l[v]
        BY <2>2, <3>4
      <4> QED
        BY <2>2, <3>1, <3>2, <3>4, <4>1
    <3> QED
      BY <3>3, <3>4
  <2>3. Held(lock', req', Writing)
    BY <1>0, <1>2, <2>1, <2>2
  <2>4. Held(mutex', req', Setting)
    BY <1>0, <1>2, <2>1, <2>2
  <2> QED
    BY <2>3, <2>4, ExclusiveHeld
<1> QED
  BY <1>3, <1>4, <1>5, StepExclusive DEF Next


(* The file is as it was.                                                  *)
LEMMA FileStays ==
    ASSUME FileKept, UNCHANGED <<there, first, stored, overtaken, session>>,
           \A r \in Request : req'[r].pc = "write" => there
    PROVE  FileKept'
BY DEF FileKept

LEMMA StepFile ==
    ASSUME TypeOK, Numbered, FileKept, NEW r \in Request, Step(r) \/ Fail(r)
    PROVE  FileKept'
<1>1. \A s \in Request : s # r => req'[s] = req[s]
  BY Moves
<1>2. Idle.pc # "write"
  BY IdleFacts
<1>3. ASSUME req'[r].pc = "write" => there,
             UNCHANGED <<there, first, stored, overtaken, session>>
      PROVE  FileKept'
  <2>1. \A s \in Request : req'[s].pc = "write" => there
    BY <1>1, <1>3 DEF FileKept
  <2> QED
    BY <1>3, <2>1, FileStays
<1>4. CASE TakeLock(r)
  <2>1. /\ req[r].pc = "lock" /\ Goto(r, IF there THEN "write" ELSE "mknod")
        /\ UNCHANGED <<there, first, stored, overtaken, session>>
    BY <1>4 DEF TakeLock
  <2>2. CASE there
    BY <1>3, <2>1, <2>2
  <2>3. CASE ~there
    <3>1. Goto(r, "mknod")
      BY <2>1, <2>3
    <3> QED
      BY <1>3, <2>1, <3>1, Goes
  <2> QED
    BY <2>2, <2>3
<1>5. CASE MakeFile(r)
  BY <1>5 DEF MakeFile, FileKept
<1>6. CASE WriteTicket(r)
  <2> DEFINE t == req[r].ticket
  <2>1. /\ req[r].pc = "write" /\ first' = t
        /\ overtaken' = (overtaken \cup stored) \ {t} /\ stored' = stored \cup {t}
        /\ End(r) /\ there' = there /\ session' = session
    BY <1>6 DEF WriteTicket, PutFirst
  <2>2. there
    BY <2>1 DEF FileKept
  <2>3. \A x \in stored' \ overtaken' : x = t
    BY <2>1
  <2> QED
    BY <2>1, <2>2, <2>3 DEF FileKept
<1>11. CASE FileRaises(r)
  <2> DEFINE t == req[r].ticket
  <2>1. /\ End(r) /\ UNCHANGED <<there, stored, session>>
        /\ \/ UNCHANGED <<first, overtaken>>
           \/ /\ req[r].pc = "write" /\ first' = t
              /\ overtaken' = (overtaken \cup stored) \ {t}
    BY <1>11 DEF FileRaises, PutFirst
  <2>2. req'[r].pc # "write"
    BY <1>2, <2>1, Ends
  <2>3. CASE UNCHANGED <<first, overtaken>>
    BY <1>3, <2>1, <2>2, <2>3
  <2>4. CASE /\ req[r].pc = "write" /\ first' = t
             /\ overtaken' = (overtaken \cup stored) \ {t}
    <3>1. there
      BY <2>4 DEF FileKept
    <3>2. \A x \in stored' \ overtaken' : x = t
      BY <2>1, <2>4
    <3> QED
      BY <2>1, <2>4, <3>1, <3>2 DEF FileKept
  <2> QED
    BY <2>1, <2>3, <2>4
<1>7. CASE CasAnswers(r)
  <2>1. /\ req[r].pc = "validate" /\ req[r].ticket \in stored /\ End(r)
        /\ session' = [session EXCEPT ![req[r].user] = req[r].ticket]
        /\ UNCHANGED <<there, first, stored, overtaken>>
    BY <1>7 DEF CasAnswers, ticketVars
  <2>2. \A s \in Request : req'[s].pc = "write" => there
    BY <1>1, <1>2, <2>1, Ends DEF FileKept
  <2>3. \A u \in User : session'[u] # 0 => session'[u] \in stored
    BY <2>1 DEF TypeOK, FileKept
  <2> QED
    BY <2>1, <2>2, <2>3 DEF FileKept
<1>8. CASE MakeFileAgain(r) \/ CasRefuses(r) \/ ConnectRefused(r) \/ Use(r) \/ Forget(r)
           \/ SetRaises(r) \/ ReadRaises(r) \/ ConnectRaises(r) \/ LogoutRaises(r) \/ Fail(r)
  <2>1. End(r) /\ UNCHANGED <<there, first, stored, overtaken, session>>
    BY <1>8 DEF MakeFileAgain, CasRefuses, Unanswered, ConnectRefused, Use, Forget,
           SetRaises, ReadRaises, ConnectRaises, LogoutRaises, Fail, ticketVars
  <2> QED
    BY <1>2, <1>3, <2>1, Ends
<1>9. CASE GetToken(r) \/ ReadTicket(r) \/ TakeMutex(r) \/ SetToken(r) \/ SetClient(r)
           \/ Logout(r) \/ LogoutRefused(r)
  <2>1. /\ UNCHANGED <<there, first, stored, overtaken, session>> /\ req[r].pc # "idle"
        /\ \/ End(r)
           \/ \E p \in {"connect", "read", "again", "cacheToken", "setToken", "setClient",
                        "use", "forget"} : Goto(r, p)
    BY <1>9 DEF GetToken, ReadTicket, TakeMutex, SetToken, SetClient, Logout,
           LogoutRefused, ticketVars
  <2>2. CASE End(r)
    BY <1>2, <1>3, <2>1, <2>2, Ends
  <2>3. ASSUME NEW p \in {"connect", "read", "again", "cacheToken", "setToken", "setClient",
                          "use", "forget"}, Goto(r, p)
        PROVE  req'[r].pc = p
    BY <2>1, <2>3, Goes
  <2> QED
    BY <1>3, <2>1, <2>2, <2>3
<1>10. CASE Connect(r)
  <2>1. req'[r].pc = "cacheClient" /\ UNCHANGED <<there, first, stored, overtaken, session>>
    BY <1>10, Moves DEF Connect, Set, TypeOK, Call, ticketVars
  <2> QED
    BY <1>3, <2>1
<1> QED
  BY <1>4, <1>5, <1>6, <1>7, <1>8, <1>9, <1>10, <1>11 DEF Step

(* Nothing that starts a request changes the file.                         *)
LEMMA NextFile ==
    ASSUME TypeOK, Numbered, FileKept, Next
    PROVE  FileKept'
<1>1. Idle.pc # "write"
  BY IdleFacts
<1>2. ASSUME NEW r \in Request, NEW w \in Worker, StartCallback(r, w)
      PROVE  FileKept'
  <2>1. PICK t \in calls :
          /\ UNCHANGED <<ticketVars, session>>
          /\ Set(r, [Idle EXCEPT !.pc = "lock", !.kind = "callback", !.worker = w,
                                 !.ticket = t])
    BY <1>2 DEF StartCallback
  <2> DEFINE c == [Idle EXCEPT !.pc = "lock", !.kind = "callback", !.worker = w, !.ticket = t]
  <2>2. c.pc = "lock"
    BY DEF Idle
  <2>3. req' = [req EXCEPT ![r] = c]
    BY <2>1 DEF Set
  <2> HIDE DEF c
  <2>4. \A s \in Request : req'[s].pc = "write" => there
    BY <2>2, <2>3 DEF TypeOK, FileKept
  <2> QED
    BY <2>1, <2>4, FileStays DEF ticketVars
<1>3. ASSUME NEW r \in Request, NEW w \in Worker, NEW u \in User,
             StartLogin(r, w, u) \/ StartIndex(r, w, u) \/ StartHdfs(r, w, u)
      PROVE  FileKept'
  <2>1. PICK c \in AskedBy(u) :
             /\ Ask(r, w, c)
             /\ UNCHANGED <<threads, kills, ticketVars, session, entered, cacheVars, open, disputed>>
    BY <1>3, Asks
  <2>2. c \in Asking
    BY DEF AskedBy
  <2>3. /\ req'[r].pc = c.pc
        /\ \A s \in Request : s # r => req'[s].pc = req[s].pc
    BY <2>1, <2>2, Asked
  <2>4. \A s \in Request : req'[s].pc = "write" => there
    BY <2>2, <2>3 DEF Asking, FileKept
  <2> QED
    BY <2>1, <2>4, FileStays DEF ticketVars
<1>4. ASSUME NEW w \in Worker, Kill(w)
      PROVE  FileKept'
  <2>1. UNCHANGED <<there, first, stored, overtaken, session>>
    BY <1>4 DEF Kill
  <2>2. \A s \in Request : req'[s].pc = "write" => there
    BY <1>1, <1>4 DEF Kill, FileKept
  <2> QED
    BY <2>1, <2>2, FileStays
<1> QED
  BY <1>2, <1>3, <1>4, StepFile DEF Next


LEMMA StepPlaced ==
    ASSUME TypeOK, Numbered, Placed, NEW r \in Request, Step(r) \/ Fail(r)
    PROVE  Placed'
<1>1. /\ \A s \in Request : s # r => req'[s] = req[s]
      /\ req[r].kind = "login" => req[r].pc = "validate"
      /\ req[r].kind = "index" => req[r].pc \in {"read", "again", "cacheToken", "setToken"}
  BY Moves DEF Placed
<1>2. Idle.kind = "list"
  BY IdleFacts
<1>3. SUFFICES \/ req'[r] = Idle
               \/ /\ req'[r].kind = req[r].kind
                  /\ \/ req[r].kind \notin {"login", "index"}
                     \/ req[r].kind = "index" /\ req'[r].pc \in {"again", "cacheToken", "setToken"}
  BY <1>1, <1>2 DEF Placed
<1>4. CASE End(r)
  BY <1>4, Ends
<1>5. CASE Connect(r)
  <2>1. req[r].pc = "connect" /\ req'[r].kind = req[r].kind
    BY <1>5, Moves DEF Connect, Set, TypeOK, Call
  <2> QED
    BY <1>1, <2>1
<1>6. CASE TakeLock(r) \/ MakeFile(r) \/ GetToken(r) \/ SetClient(r) \/ Logout(r)
           \/ LogoutRefused(r)
  <2>1. /\ req[r].pc \in {"lock", "mknod", "token", "setClient", "use"}
        /\ \/ End(r)
           \/ \E p \in {"write", "mknod", "connect", "read", "use", "forget"} : Goto(r, p)
    BY <1>6 DEF TakeLock, MakeFile, GetToken, SetClient, Logout, LogoutRefused
  <2>2. ASSUME NEW p \in {"write", "mknod", "connect", "read", "use", "forget"}, Goto(r, p)
        PROVE  req'[r].kind = req[r].kind
    BY <2>1, <2>2, Goes DEF Same
  <2> QED
    BY <1>1, <1>4, <2>1, <2>2
<1>7. CASE ReadTicket(r)
  <2>1. req[r].pc # "idle" /\ (End(r) \/ Goto(r, "again") \/ Goto(r, "cacheToken"))
    BY <1>7 DEF ReadTicket
  <2>2. CASE Goto(r, "again") \/ Goto(r, "cacheToken")
    <3>1. /\ req'[r].kind = req[r].kind /\ req'[r].pc \in {"again", "cacheToken"}
      BY <2>1, <2>2, Goes DEF Same
    <3>2. req[r].pc \in {"read", "again"}
      BY <1>7 DEF ReadTicket
    <3> QED
      BY <1>1, <3>1, <3>2
  <2> QED
    BY <1>4, <2>1, <2>2
<1>8. CASE TakeMutex(r)
  <2>1. \/ req[r].pc = "cacheToken" /\ Goto(r, "setToken")
        \/ req[r].pc = "cacheClient" /\ Goto(r, "setClient")
    BY <1>8 DEF TakeMutex
  <2>2. /\ req'[r].kind = req[r].kind
        /\ req[r].pc = "cacheToken" => req'[r].pc = "setToken"
    BY <2>1, Goes DEF Same
  <2> QED
    BY <1>1, <2>1, <2>2
<1>9. CASE SetToken(r)
  <2>1. CASE req[r].kind = "index"
    BY <1>4, <1>9, <2>1 DEF SetToken
  <2>2. CASE req[r].kind # "index"
    <3>1. req[r].pc = "setToken" /\ Goto(r, "connect")
      BY <1>9, <2>2 DEF SetToken
    <3>2. req'[r].kind = req[r].kind
      BY <3>1, Goes DEF Same
    <3> QED
      BY <1>1, <2>2, <3>1, <3>2
  <2> QED
    BY <2>1, <2>2
<1>10. CASE MakeFileAgain(r) \/ WriteTicket(r) \/ CasAnswers(r) \/ CasRefuses(r)
            \/ ConnectRefused(r) \/ SetRaises(r) \/ Use(r) \/ Forget(r) \/ Fail(r)
            \/ FileRaises(r) \/ ReadRaises(r) \/ ConnectRaises(r) \/ LogoutRaises(r)
  BY <1>4, <1>10 DEF MakeFileAgain, WriteTicket, CasAnswers, CasRefuses, ConnectRefused,
     SetRaises, Use, Forget, Fail, FileRaises, ReadRaises, ConnectRaises, LogoutRaises
<1> QED
  BY <1>5, <1>6, <1>7, <1>8, <1>9, <1>10 DEF Step

LEMMA NextPlaced ==
    ASSUME TypeOK, Numbered, Placed, Next
    PROVE  Placed'
<1>1. Idle.kind = "list"
  BY IdleFacts
<1>2. ASSUME NEW r \in Request, NEW w \in Worker, StartCallback(r, w)
      PROVE  Placed'
  <2>1. PICK t \in calls :
          Set(r, [Idle EXCEPT !.pc = "lock", !.kind = "callback", !.worker = w, !.ticket = t])
    BY <1>2 DEF StartCallback
  <2> DEFINE c == [Idle EXCEPT !.pc = "lock", !.kind = "callback", !.worker = w, !.ticket = t]
  <2>2. c.kind = "callback"
    BY DEF Idle
  <2>3. req' = [req EXCEPT ![r] = c]
    BY <2>1 DEF Set
  <2> HIDE DEF c
  <2> QED
    BY <2>2, <2>3 DEF TypeOK, Placed
<1>3. ASSUME NEW r \in Request, NEW w \in Worker, NEW u \in User,
             StartLogin(r, w, u) \/ StartIndex(r, w, u) \/ StartHdfs(r, w, u)
      PROVE  Placed'
  <2>1. PICK c \in AskedBy(u) :
             /\ Ask(r, w, c)
             /\ c.kind = "login" => c.pc = "validate"
             /\ c.kind = "index" => c.pc = "read"
    BY <1>3, Asks
  <2>2. c \in Asking
    BY DEF AskedBy
  <2>3. /\ req'[r].pc = c.pc /\ req'[r].kind = c.kind
        /\ \A s \in Request : s # r => req'[s].pc = req[s].pc /\ req'[s].kind = req[s].kind
    BY <2>1, <2>2, Asked
  <2> QED
    BY <2>1, <2>3 DEF Placed
<1>4. ASSUME NEW w \in Worker, Kill(w)
      PROVE  Placed'
  BY <1>1, <1>4 DEF Kill, Placed
<1> QED
  BY <1>2, <1>3, <1>4, StepPlaced DEF Next

-----------------------------------------------------------------------------
LEMMA InitConsistent == Init => Consistent
<1> SUFFICES ASSUME Init PROVE Consistent
  OBVIOUS
<1>1. 0 \in Number /\ 0 \in 0..MaxKills
  BY SessionsAssumption DEF Number
<1>2. /\ req \in [Request -> {Idle}] /\ served = 0
      /\ lock \in [Worker -> {None}] /\ mutex \in [Worker -> {None}]
      /\ client = [w \in Worker |-> [u \in User |-> 0]]
  BY DEF Init
<1>3. TypeOK
  BY <1>1, <1>2 DEF Init, TypeOK
<1>4. Exclusive
  BY <1>2, IdleFacts, SessionsAssumption DEF Exclusive, Serving, Writing, Setting
<1>5. FileKept /\ Placed
  BY <1>2, IdleFacts DEF Init, FileKept, Placed
<1>6. Numbered
  BY <1>2, IdleFacts DEF Init, Numbered
<1>7. Owned
  BY <1>2, IdleFacts DEF Init, Owned, Before, Connected
<1>8. Unmet
  BY <1>2, IdleFacts DEF Unmet, Before, Connected
<1>9. KeptOpen
  BY <1>2 DEF KeptOpen
<1> QED
  BY <1>3, <1>4, <1>5, <1>6, <1>7, <1>8, <1>9 DEF Consistent

LEMMA NextKeeps == Consistent /\ [Next]_vars => Consistent'
<1> SUFFICES ASSUME Consistent, [Next]_vars PROVE Consistent'
  OBVIOUS
<1>1. TypeOK /\ Sessions /\ Numbered
  BY DEF Consistent, Sessions
<1>2. CASE Next
  <2>1. Sessions'
    BY <1>1, <1>2, StepSessions, CallbackSessions, AskSessions, KillSessions DEF Next
  <2>2. TypeOK' /\ Exclusive' /\ FileKept' /\ Placed'
    BY <1>1, <1>2, NextTyped, NextExclusive, NextFile, NextPlaced DEF Consistent
  <2> QED
    BY <2>1, <2>2 DEF Consistent, Sessions
<1>3. CASE UNCHANGED vars
  BY <1>3 DEF vars, ticketVars, cacheVars, Consistent, TypeOK, Exclusive, FileKept, Placed,
         Numbered, Owned, Unmet, KeptOpen, Serving, Meeting, Fresh
<1> QED
  BY <1>2, <1>3

(* The inductive invariant of any number of workers, users and requests.   *)
THEOREM ConsistentAlways == Spec => []Consistent
  BY InitConsistent, NextKeeps, PTL DEF Spec

(* Every request is at one of the steps of its handler, and locks, tickets *)
(* and sessions are those of requests, callbacks and users there are.      *)
THEOREM TypeCorrect == Spec => []TypeOK
<1>1. Consistent => TypeOK
  BY DEF Consistent
<1> QED
  BY <1>1, ConsistentAlways, PTL

(* cas/pgt_file.py, cache.py: a worker's locks are held by one request.    *)
THEOREM ExclusiveAlways == Spec => []Exclusive
<1>1. Consistent => Exclusive
  BY DEF Consistent
<1> QED
  BY <1>1, ConsistentAlways, PTL

(* cas/pgt_file.py: the ticket of a session nobody overtook is found.      *)
THEOREM TicketFoundAlways == Spec => []TicketFound
<1>1. Consistent => TicketFound
  BY DEF Consistent, FileKept, TicketFound
<1> QED
  BY <1>1, ConsistentAlways, PTL

(* hdfs.py, cache.py: a cached client has an open session of its own, but  *)
(* for one whose logout raised after the server had ended it.              *)
THEOREM KeptOpenAlways == Spec => []KeptOpen
<1>1. Consistent => KeptOpen
  BY DEF Consistent
<1> QED
  BY <1>1, ConsistentAlways, PTL

(* hdfs.py, cache.py: a worker drops an open session only when it is asked *)
(* to log in again, is killed, two requests of one user met, or the server *)
(* refused the logout.                                                     *)
THEOREM ClosedOrKeptAlways == Spec => ClosedOrKept
<1>1. ASSUME Consistent, [Next]_vars, NEW w \in Worker, NEW u \in User,
             client[w][u] \in open, client'[w][u] # client[w][u]
      PROVE  client[w][u] \notin open' \/ LeftOpen(w, u)
  <2>1. TypeOK /\ Numbered /\ Owned /\ Unmet /\ Placed /\ client[w][u] # 0
    <3>1. 0 \notin 1..served
      BY SessionsAssumption DEF Consistent, TypeOK, Number
    <3> QED
      BY <1>1, <3>1 DEF Consistent, Numbered
  <2>2. CASE \E v \in Worker : Kill(v)
    <3>1. kills' # kills
      BY <2>1, <2>2 DEF Kill, TypeOK
    <3> QED
      BY <3>1 DEF LeftOpen
  <2>3. ASSUME NEW r \in Request, ConnectRefused(r) \/ SetClient(r) \/ Forget(r)
        PROVE  client[w][u] \notin open' \/ LeftOpen(w, u)
    <3>1. /\ req[r].pc \in {"connect", "setClient", "forget"}
          /\ \E x \in Number \cup {0} : client' = [client EXCEPT ![req[r].worker][req[r].user] = x]
      BY <2>1, <2>3, Moves DEF ConnectRefused, SetClient, Forget, Forgotten, Step, Call
    <3>2. /\ req[r].worker \in Worker /\ req[r].user \in User /\ req[r].kind # "callback"
      BY <2>1, <3>1, Active DEF Before, Connected
    <3>3. req[r].worker = w /\ req[r].user = u
      BY <1>1, <2>1, <3>1, <3>2 DEF TypeOK
    <3>4. r \in Meeting(u, w)
      BY <3>3 DEF Meeting, Serving
    <3>5. req[r].kind \in {"list", "logout", "connect"}
      <4>1. req[r].kind \in Kinds
        BY <2>1, <3>1, Active DEF Call, Before, Connected
      <4> QED
        BY <2>1, <3>1, <3>2, <4>1 DEF Kinds, Placed
    <3>6. CASE req[r].kind = "connect" \/ req[r].met
      BY <3>4, <3>6 DEF LeftOpen
    <3>7. CASE req[r].kind \in {"list", "logout"} /\ ~req[r].met
      <4>1. req[r].pc = "forget" /\ req[r].client = client[w][u]
        BY <2>1, <3>1, <3>3, <3>7 DEF Unmet, Before, Connected
      <4>2. client[w][u] \notin open \ disputed
        BY <2>1, <4>1 DEF Owned
      <4> QED
        BY <1>1, <3>4, <4>1, <4>2 DEF LeftOpen
    <3> QED
      BY <3>5, <3>6, <3>7
  <2>4. CASE ~ \E v \in Worker : Kill(v)
    <3>1. \/ client' = client
          \/ \E r \in Request : ConnectRefused(r) \/ SetClient(r) \/ Forget(r)
      <4>1. ASSUME NEW r \in Request, Step(r) \/ Fail(r),
                   ~(ConnectRefused(r) \/ SetClient(r) \/ Forget(r))
            PROVE  client' = client
        BY <4>1 DEF Step, Fail, TakeLock, MakeFile, MakeFileAgain, WriteTicket, CasAnswers,
             CasRefuses, GetToken, ReadTicket, TakeMutex, SetToken, Connect, SetRaises,
             Use, Logout, FileRaises, ReadRaises, ConnectRaises, LogoutRefused,
             LogoutRaises, cacheVars
      <4>2. ASSUME NEW r \in Request, NEW v \in Worker,
                   \/ StartCallback(r, v)
                   \/ \E x \in User : StartLogin(r, v, x) \/ StartIndex(r, v, x)
                                      \/ StartHdfs(r, v, x)
            PROVE  client' = client
        BY <4>2 DEF StartCallback, StartLogin, StartIndex, StartHdfs, cacheVars
      <4>3. UNCHANGED vars => client' = client
        BY DEF vars, cacheVars
      <4> QED
        BY <1>1, <2>4, <4>1, <4>2, <4>3 DEF Next
    <3> QED
      BY <1>1, <2>3, <3>1
  <2> QED
    BY <2>2, <2>4
<1>2. Consistent /\ [Next]_vars =>
        [\A w \in Worker, u \in User :
           client[w][u] \in open /\ client'[w][u] # client[w][u] =>
              client[w][u] \notin open' \/ LeftOpen(w, u)]_vars
  BY <1>1
<1> QED
  BY <1>2, ConsistentAlways, PTL DEF Spec, ClosedOrKept
=============================================================================
