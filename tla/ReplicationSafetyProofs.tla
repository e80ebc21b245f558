------------------------ MODULE ReplicationSafetyProofs ------------------------
(***************************************************************************)
(* What pa2's clients are told is true, for any requests, crashes and      *)
(* clients that go away: a message that was acknowledged is kept and read, *)
(* a user that was registered is known, a name is registered once, and the *)
(* lists of users and channels are complete.                               *)
(***************************************************************************)
EXTENDS ReplicationProofs, FiniteSetTheorems

(***************************************************************************)
(* The invariant: what a result stands for                                 *)
(***************************************************************************)
\* What the servers hold, who is up, who is marked dead, and what clients were told.
Now == [state |-> state, up |-> up, alive |-> alive, answer |-> answer]

PrimaryOf(r) == Owner(Subject(r)).primary
BackupOf(r) == Owner(Subject(r)).backup

\* A server stores what request r, which returned value, has written.
Kept(st, r, value) ==
  /\ r.op = "create_user" => UserExists(st, r.user)
  /\ r.op = "join_channel" => ChannelExists(st, r.channel)
  /\ r.op = "send_message" => \E k \in Nat : value = {k} /\ Holds(st, r.channel, k, r.id)

\* So do both owners, or the primary alone once the backup has crashed.
Durable(r, value, w) ==
  /\ Kept(w.state[PrimaryOf(r)], r, value)
  /\ BackupOf(r) \in w.up => Kept(w.state[BackupOf(r)], r, value)

\* The client was told that the primary carried the request out (Acknowledged).
Acked(r, w) == w.answer[r].code = "OK" /\ w.answer[r].by = PrimaryOf(r)

\* No acknowledged registration of r's user came before r.
Unregistered(r, w) ==
  \A c \in Before(r) : ~(c.op = "create_user" /\ c.user = r.user /\ Acked(c, w))

\* The texts contain every acknowledged message that was sent to the channel before r.
Complete(r, texts, w) ==
  \A m \in Before(r) :
    m.op = "send_message" /\ m.channel = r.channel /\ Acked(m, w) => m.id \in texts

\* Where the requests before r were answered, a handler of r that ends may say:
ResultOK(kind, r, result, w) ==
  /\ result.code = "UNKNOWN_USER" => Unregistered(r, w)
  /\ kind = "op" =>
       /\ result.code = "OK" /\ result.by = PrimaryOf(r) => Durable(r, result.value, w)
       /\ result.code = "OK" /\ result.by # PrimaryOf(r) /\ r.op = "create_user" =>
            /\ result.by = BackupOf(r) /\ PrimaryOf(r) \notin w.up
            /\ Kept(w.state[BackupOf(r)], r, result.value)
       /\ r.op = "get_messages" /\ result.code \in {"OK", "UNKNOWN_CHANNEL"} =>
            Complete(r, result.value, w)
  /\ kind = "replicate" /\ result.code = "OK" =>
       /\ Kept(w.state[PrimaryOf(r)], r, result.value)
       /\ PrimaryOf(r) \in w.up => Kept(w.state[BackupOf(r)], r, result.value)

(***************************************************************************)
(* The invariant: where handlers run, and what they have found out         *)
(***************************************************************************)
\* The server of a name: its primary, and its backup once the primary has crashed.
Serves(s, owner, w) == s = owner.primary \/ (s = owner.backup /\ owner.primary \notin w.up)

\* Where an operation is carried out, which only an owner does.
Owned == {"check", "exists", "existsForward", "asked", "apply", "replicate", "replicating"}

Placed(x, w) ==
  LET p == PrimaryOf(x.req)
  IN /\ x.kind = "op" /\ x.parent # Client =>
          /\ Serves(x.at, Owner(Subject(x.req)), w)
          /\ x.from \in Servers /\ (x.at = p \/ ~w.alive[x.from][p])
     /\ x.kind = "op" /\ x.pc \in {"forward", "forwarded"} => x.at # p
     /\ x.kind = "op" /\ x.pc \in Owned =>
          x.at = p \/ (x.at = BackupOf(x.req) /\ ~w.alive[x.at][p])
     /\ x.kind = "exists" => Serves(x.at, Owner(x.req.user), w)
     /\ x.kind = "replicate" => x.at = BackupOf(x.req)

Promised(x, w) ==
  /\ x.pc \in {"replicate", "replicating"} =>
       /\ x.result.by = x.at
       /\ x.at = PrimaryOf(x.req) \/ x.req.op # "send_message" =>
            Kept(w.state[x.at], x.req, x.result.value)
  /\ x.pc = "start" /\ x.kind = "replicate" =>
       Kept(w.state[PrimaryOf(x.req)], x.req, x.result.value)
  /\ x.pc = "replied" => ResultOK(x.kind, x.req, x.result, w)

\* A client sends r when those before it are answered.
Informed(r, w) == \A q \in Before(r) : w.answer[q] # NoResult

HandledOK(x, w) == Placed(x, w) /\ Promised(x, w) /\ Informed(x.req, w)

ToldOK(r, w) ==
  w.answer[r] # NoResult => ResultOK("op", r, w.answer[r], w) /\ Informed(r, w)

\* The primary's next id is a new one, and as long as the primary is up the backup holds
\* no message that the primary does not.
StoredOK(ch, w) ==
  LET owner == Owner(ch)
  IN /\ Numbered(w.state[owner.primary], ch)
     /\ owner.primary \in w.up =>
          \A k, id : Holds(w.state[owner.backup], ch, k, id) =>
                       Holds(w.state[owner.primary], ch, k, id)

Safe ==
  /\ \A i \in InUse : HandledOK(task[i], Now)
  /\ \A r \in Requests : ToldOK(r, Now)
  /\ \A ch \in Channels : StoredOK(ch, Now)

-----------------------------------------------------------------------------
(***************************************************************************)
(* What was true stays true                                                *)
(***************************************************************************)
\* From v to w nothing is forgotten, nobody is restarted or found alive again, and what a
\* client was told is not told again.
Later(v, w) ==
  /\ \A s \in Servers : Grows(v.state[s], w.state[s])
  /\ w.up \subseteq v.up
  /\ \A s, t \in Servers : w.alive[s][t] => v.alive[s][t]
  /\ \A r \in Requests : v.answer[r] # NoResult => w.answer[r] = v.answer[r]

\* The owners of what a request is about are two servers.
LEMMA OwnersOf ==
  ASSUME NEW r \in Requests, NEW name \in {Subject(r), r.user, r.channel}
  PROVE  /\ Owner(name).primary \in Servers /\ Owner(name).backup \in Servers
         /\ Owner(name).primary # Owner(name).backup
<1>1. Hash \in [Users \cup Channels -> 0 .. 2] /\ r.user \in Users /\ r.channel \in Channels
  BY ReplicationAssumption
<1>2. Hash[name] \in 0 .. 2
  BY <1>1 DEF Subject
<1>3. Hash[name] = 0 \/ Hash[name] = 1 \/ Hash[name] = 2
  BY <1>2
<1> QED
  BY <1>3 DEF Owner, Servers

LEMMA ChannelOwners ==
  ASSUME NEW ch \in Channels
  PROVE  /\ Owner(ch).primary \in Servers /\ Owner(ch).backup \in Servers
         /\ Owner(ch).primary # Owner(ch).backup
<1>1. Hash[ch] \in 0 .. 2
  BY ReplicationAssumption
<1>2. Hash[ch] = 0 \/ Hash[ch] = 1 \/ Hash[ch] = 2
  BY <1>1
<1> QED
  BY <1>2 DEF Owner, Servers

\* A message is about its channel, and a registration about its user.
LEMMA Subjects ==
  \A r : /\ r.op = "create_user" => Subject(r) = r.user
         /\ r.op # "create_user" => Subject(r) = r.channel
BY DEF Subject

LEMMA KeptStays ==
  ASSUME NEW st, NEW tt, Grows(st, tt), NEW r, NEW value, Kept(st, r, value)
  PROVE  Kept(tt, r, value)
<1>1. /\ UserExists(st, r.user) => UserExists(tt, r.user)
      /\ ChannelExists(st, r.channel) => ChannelExists(tt, r.channel)
  BY DEF Grows, UserExists, ChannelExists
<1> QED
  BY <1>1, HoldsStays DEF Kept

LEMMA ResultStays ==
  ASSUME NEW v, NEW w, Later(v, w), NEW r \in Requests, Informed(r, v),
         NEW kind, NEW result, ResultOK(kind, r, result, v)
  PROVE  ResultOK(kind, r, result, w)
<1>1. PrimaryOf(r) \in Servers /\ BackupOf(r) \in Servers
  BY OwnersOf DEF PrimaryOf, BackupOf
<1>2. /\ \A value : Kept(v.state[PrimaryOf(r)], r, value) => Kept(w.state[PrimaryOf(r)], r, value)
      /\ \A value : Kept(v.state[BackupOf(r)], r, value) => Kept(w.state[BackupOf(r)], r, value)
      /\ w.up \subseteq v.up
  BY <1>1, KeptStays DEF Later
<1>3. \A value : Durable(r, value, v) => Durable(r, value, w)
  BY <1>2 DEF Durable
<1>4. \A q \in Before(r) : Acked(q, w) <=> Acked(q, v)
  BY DEF Later, Acked, Informed, Before
<1>5. /\ Unregistered(r, v) => Unregistered(r, w)
      /\ \A texts : Complete(r, texts, v) => Complete(r, texts, w)
  BY <1>4 DEF Unregistered, Complete
<1> QED
  BY <1>2, <1>3, <1>5 DEF ResultOK

LEMMA InformedStays ==
  ASSUME NEW v, NEW w, Later(v, w), NEW r \in Requests, Informed(r, v)
  PROVE  Informed(r, w)
BY DEF Informed, Later, Before

LEMMA PlacedStays ==
  ASSUME NEW v, NEW w, Later(v, w), NEW x, x.req \in Requests, x.at \in Servers, Placed(x, v)
  PROVE  Placed(x, w)
<1>1. PrimaryOf(x.req) \in Servers
  BY OwnersOf DEF PrimaryOf
<1>2. \A s \in Servers : ~v.alive[s][PrimaryOf(x.req)] => ~w.alive[s][PrimaryOf(x.req)]
  BY <1>1 DEF Later
<1>3. \A s, owner : Serves(s, owner, v) => Serves(s, owner, w)
  BY DEF Later, Serves
<1> QED
  BY <1>2, <1>3 DEF Placed

LEMMA HandledStays ==
  ASSUME NEW v, NEW w, Later(v, w), NEW x, x.req \in Requests, x.at \in Servers,
         HandledOK(x, v)
  PROVE  HandledOK(x, w)
<1>1. PrimaryOf(x.req) \in Servers
  BY OwnersOf DEF PrimaryOf
<1>2. \A value : /\ Kept(v.state[x.at], x.req, value) => Kept(w.state[x.at], x.req, value)
                 /\ Kept(v.state[PrimaryOf(x.req)], x.req, value) =>
                      Kept(w.state[PrimaryOf(x.req)], x.req, value)
  BY <1>1, KeptStays DEF Later
<1>3. x.pc = "replied" => ResultOK(x.kind, x.req, x.result, w)
  BY ResultStays DEF HandledOK, Promised
<1>4. Promised(x, w)
  BY <1>2, <1>3 DEF HandledOK, Promised
<1> QED
  BY <1>4, InformedStays, PlacedStays DEF HandledOK

LEMMA ToldStays ==
  ASSUME NEW v, NEW w, Later(v, w), NEW r \in Requests, ToldOK(r, v), v.answer[r] # NoResult
  PROVE  ToldOK(r, w)
<1>1. w.answer[r] = v.answer[r]
  BY DEF Later
<1> QED
  BY <1>1, ResultStays, InformedStays DEF ToldOK

LEMMA NowFields ==
  /\ Now.state = state /\ Now.up = up /\ Now.alive = alive /\ Now.answer = answer
  /\ Now'.state = state' /\ Now'.up = up' /\ Now'.alive = alive' /\ Now'.answer = answer'
BY SMTT(40) DEF Now

\* What clients were told by a step of one handler.
LEMMA StepAnswers ==
  ASSUME Tree, TasksOK(task, state), NEW i \in InUse,
         \/ Step(i) \/ Disconnect(i)
  PROVE  \/ answer' = answer
         \/ Top(i) /\ \E result : answer' = [answer EXCEPT ![Req(i)] = result]
<1>1. \A T, result : End(T, i, result) =>
        \/ answer' = answer
        \/ Top(i) /\ answer' = [answer EXCEPT ![Req(i)] = result]
  BY DEF End, Top, Req
<1> QED
  BY <1>1 DEF Step, Route, Forward, ForwardAnswered, ForwardRetries, CheckChannel, ExistsHere,
     ExistsElsewhere, ExistsForward, ExistsAnswered, ExistsRetries, Apply, Replicate,
     ReplicateAnswered, ReplicateUnavailable, Gather, GatherNext, Gathered, GatherSkips,
     GatherEnds, ServeExists, ServeNames, ServeReplicate, Disconnect, Top

\* Every step leads on.
LEMMA StepLater ==
  ASSUME IInv, Tree, Next
  PROVE  Later(Now, Now') /\ DOMAIN answer' = Requests
<1>0. /\ TasksOK(task, state) /\ DOMAIN answer = Requests
      /\ alive \in [Servers -> [Servers -> BOOLEAN]]
      /\ \A i \in InUse : task[i].req \in Requests /\ ClientOK(i)
  BY Used DEF IInv, Tree
<1>1. StatesGrow
  BY SMTT(40), EveryStep
<1>2. up' \subseteq up
  BY ZenonT(60) DEF Next, Step, Route, Forward, ForwardAnswered, ForwardRetries, CheckChannel, ExistsHere,
     ExistsElsewhere, ExistsForward, ExistsAnswered, ExistsRetries, Apply, Replicate,
     ReplicateAnswered, ReplicateUnavailable, Gather, GatherNext, Gathered, GatherSkips,
     GatherEnds, ServeExists, ServeNames, ServeReplicate, Disconnect, Issue, Crash, MarkDead
<1>3. \A s, t \in Servers : alive'[s][t] => alive[s][t]
  <2>1. \/ alive' = alive
        \/ \E s, t \in Servers : alive' = [alive EXCEPT ![s][t] = FALSE]
    BY ZenonT(60) DEF Next, Step, Route, Forward, ForwardAnswered, ForwardRetries, CheckChannel, ExistsHere,
       ExistsElsewhere, ExistsForward, ExistsAnswered, ExistsRetries, Apply, Replicate,
       ReplicateAnswered, ReplicateUnavailable, Gather, GatherNext, Gathered, GatherSkips,
       GatherEnds, ServeExists, ServeNames, ServeReplicate, Disconnect, Issue, Crash, MarkDead
  <2>2. CASE alive' = alive
    BY <2>2
  <2>3. ASSUME NEW a \in Servers, NEW b \in Servers, alive' = [alive EXCEPT ![a][b] = FALSE],
               NEW s \in Servers, NEW t \in Servers, alive'[s][t]
        PROVE  alive[s][t]
    <3>1. alive'[s][t] = IF s = a /\ t = b THEN FALSE ELSE alive[s][t]
      BY <1>0, <2>3
    <3> QED
      BY <2>3, <3>1
  <2> QED
    BY <2>1, <2>2, <2>3
<1>4. /\ \A r \in Requests : answer[r] # NoResult => answer'[r] = answer[r]
      /\ DOMAIN answer' = Requests
  <2>1. ASSUME NEW i \in InUse, Step(i) \/ Disconnect(i)
        PROVE  /\ \A r \in Requests : answer[r] # NoResult => answer'[r] = answer[r]
               /\ DOMAIN answer' = Requests
    <3>1. Top(i) => answer[Req(i)] = NoResult
      BY <1>0 DEF ClientOK, Req
    <3> QED
      BY <1>0, <2>1, <3>1, StepAnswers
  <2>2. ASSUME NEW s \in Servers, Crash(s)
        PROVE  /\ \A r \in Requests : answer[r] # NoResult => answer'[r] = answer[r]
               /\ DOMAIN answer' = Requests
    <3>1. answer' = [r \in Requests |->
              IF \E i \in InUse : task[i].req = r /\ Top(i) /\ task[i].at = s
              THEN Lost ELSE answer[r]]
      BY <1>0, <2>2, CrashForm
    <3> QED
      BY <1>0, <3>1 DEF ClientOK
  <2>3. CASE (\E r \in Requests : Issue(r)) \/ (\E s, t \in Servers : MarkDead(s, t))
    BY <1>0, <2>3 DEF Issue, MarkDead
  <2> QED
    BY <2>1, <2>2, <2>3 DEF Next
<1> QED
  BY <1>1, <1>2, <1>3, <1>4, NowFields DEF StatesGrow, Later

-----------------------------------------------------------------------------
(***************************************************************************)
(* What has to be shown of a step                                          *)
(***************************************************************************)
\* What the invariants say of a handler in use.
LEMMA InUseOK ==
  ASSUME IInv, Tree, Safe, NEW i \in InUse
  PROVE  /\ i \in Slots /\ task[i].req \in Requests /\ task[i].at \in Servers
         /\ Req(i) = task[i].req /\ At(i) = task[i].at
         /\ HandledOK(task[i], Now) /\ Informed(Req(i), Now)
         /\ task[i].pc \notin Over => At(i) \in up
         /\ task[i].pc \notin Over \cup {"start"} => task[i].kind = "op"
         /\ Top(i) => task[i].kind = "op" /\ answer[task[i].req] = NoResult
<1>1. /\ TasksOK(task, state) /\ HandlerOK(i) /\ ClientOK(i)
  BY DEF IInv, Tree
<1> QED
  BY <1>1, Used, Working DEF Safe, HandledOK, HandlerOK, ClientOK

\* A step that writes to no state.
LEMMA StoresStay ==
  ASSUME IInv, Tree, Safe, Next, state' = state
  PROVE  \A ch \in Channels : StoredOK(ch, Now')
<1>1. up' \subseteq up
  BY StepLater, NowFields DEF Later
<1> QED
  BY <1>1, NowFields DEF Safe, StoredOK

\* Handlers that stay as they are, and requests that nobody was told about.
LEMMA OthersStay ==
  ASSUME IInv, Tree, Safe, Next
  PROVE  /\ \A j \in InUse : task'[j] = task[j] => HandledOK(task'[j], Now')
         /\ \A r \in Requests : answer'[r] = answer[r] \/ answer[r] # NoResult => ToldOK(r, Now')
         /\ \A j \in InUse : Informed(Req(j), Now')
<1>1. Later(Now, Now')
  BY StepLater
<1>2. \A r \in Requests : ToldOK(r, Now)
  BY DEF Safe
<1>3. ASSUME NEW r \in Requests, answer'[r] = answer[r] \/ answer[r] # NoResult
      PROVE  ToldOK(r, Now')
  <2>1. CASE answer[r] # NoResult
    BY <1>1, <1>2, <2>1, ToldStays, NowFields
  <2>2. CASE answer'[r] = NoResult
    BY <2>2, NowFields DEF ToldOK
  <2> QED
    BY <1>3, <2>1, <2>2
<1>4. ASSUME NEW j \in InUse, task'[j] = task[j]
      PROVE  HandledOK(task'[j], Now')
  BY <1>1, <1>4, InUseOK, HandledStays
<1> QED
  BY <1>1, <1>3, <1>4, InUseOK, InformedStays

\* A handler that goes on.
LEMMA TurnSafe ==
  ASSUME IInv, Tree, Safe, Next, NEW i \in InUse, NEW pc, NEW result, NEW todo,
         Turns(i, pc, result, todo), \A ch \in Channels : StoredOK(ch, Now'),
         Placed(Task(task[i], pc, Client, result, todo), Now'),
         Promised(Task(task[i], pc, Client, result, todo), Now')
  PROVE  Safe'
<1>1. task'[i] = Task(task[i], pc, Client, result, todo)
  BY InUseOK DEF Turns, Becomes
<1>2. HandledOK(task'[i], Now')
  BY <1>1, OthersStay, TaskFields DEF HandledOK, Req
<1>3. ASSUME NEW j \in InUse' PROVE HandledOK(task'[j], Now')
  <2>1. j \in Slots /\ task'[j].pc # "free"
    BY NextUsed
  <2>2. CASE j = i
    BY <1>2, <2>2
  <2>3. CASE j # i
    <3>1. task'[j] = task[j]
      BY <2>1, <2>3, FreeFields DEF Turns, Becomes
    <3>2. j \in InUse
      BY <2>1, <3>1 DEF InUse
    <3> QED
      BY <3>1, <3>2, OthersStay
  <2> QED
    BY <2>2, <2>3
<1>4. \A r \in Requests : ToldOK(r, Now')
  BY OthersStay DEF Turns
<1> QED
  BY <1>3, <1>4 DEF Safe

\* A handler that ends, with a result it may give.
LEMMA EndSafe ==
  ASSUME IInv, Tree, Safe, Next, NEW i \in InUse, NEW result,
         Ends(i, result), \A ch \in Channels : StoredOK(ch, Now'),
         ResultOK(task[i].kind, Req(i), result, Now')
  PROVE  Safe'
<1>0. /\ i \in Slots /\ TasksOK(task, state) /\ Req(i) \in Requests /\ DOMAIN answer = Requests
  BY InUseOK DEF IInv, Tree
<1>1. \/ task'[i] = Free
      \/ task'[i] = Task(task[i], "lost", Client, task[i].result, task[i].todo)
      \/ task'[i] = Task(task[i], "replied", Client, result, task[i].todo)
  BY <1>0 DEF Ends, Becomes, Ending
<1>2. i \in InUse' => task'[i] # Free
  BY NextUsed, FreeFields
<1>3. Placed(task[i], Now')
  BY InUseOK, PlacedStays, StepLater DEF HandledOK
<1>4. ASSUME NEW pc \in {"lost", "replied"}, NEW x
      PROVE  Placed(Task(task[i], pc, Client, x, task[i].todo), Now')
  BY <1>3, TaskFields DEF Placed, Owned
<1>5. Promised(Task(task[i], "lost", Client, task[i].result, task[i].todo), Now')
  BY TaskFields DEF Promised
<1>6. Promised(Task(task[i], "replied", Client, result, task[i].todo), Now')
  BY TaskFields DEF Promised, Req
<1>7. i \in InUse' => HandledOK(task'[i], Now')
  BY <1>1, <1>2, <1>4, <1>5, <1>6, OthersStay, TaskFields DEF HandledOK, Req
<1>8. ASSUME NEW j \in InUse' PROVE HandledOK(task'[j], Now')
  <2>1. j \in Slots /\ task'[j].pc # "free"
    BY NextUsed
  <2>2. CASE j = i
    BY <1>7, <2>2
  <2>3. CASE j # i
    <3>1. task'[j] = task[j]
      BY <2>1, <2>3, FreeFields DEF Ends, Becomes
    <3>2. j \in InUse
      BY <2>1, <3>1 DEF InUse
    <3> QED
      BY <3>1, <3>2, OthersStay
  <2> QED
    BY <2>2, <2>3
<1>9. ASSUME NEW r \in Requests PROVE ToldOK(r, Now')
  <2>1. CASE answer'[r] = answer[r]
    BY <2>1, OthersStay
  <2>2. CASE answer'[r] # answer[r]
    <3>1. Top(i) /\ r = Req(i) /\ answer'[r] = result
      BY <1>0, <2>2 DEF Ends
    <3>2. task[i].kind = "op"
      BY <3>1, InUseOK
    <3> QED
      BY <3>1, <3>2, OthersStay, NowFields DEF ToldOK
  <2> QED
    BY <2>1, <2>2
<1> QED
  BY <1>8, <1>9 DEF Safe

\* A handler that calls another.
LEMMA CallSafe ==
  ASSUME IInv, Tree, Safe, Next, NEW i \in InUse, NEW d, NEW kind, NEW to, NEW result, NEW pc,
         Calls(i, d, kind, to, result, pc), state' = state,
         Placed(Task(task[i], pc, d, task[i].result, task[i].todo), Now'),
         Promised(Task(task[i], pc, d, task[i].result, task[i].todo), Now'),
         Placed(Callee(i, kind, to, result), Now'),
         Promised(Callee(i, kind, to, result), Now')
  PROVE  Safe'
<1>1. /\ task'[i] = Task(task[i], pc, d, task[i].result, task[i].todo)
      /\ task'[d] = Callee(i, kind, to, result)
      /\ \A j \in Slots \ {i, d} : task'[j] = task[j]
      /\ answer' = answer
  BY DEF Calls
<1>2. Callee(i, kind, to, result).req = Req(i)
  BY DEF Callee
<1>3. HandledOK(task'[i], Now') /\ HandledOK(task'[d], Now')
  BY <1>1, <1>2, OthersStay, TaskFields DEF HandledOK, Req
<1>4. ASSUME NEW j \in InUse' PROVE HandledOK(task'[j], Now')
  <2>1. j \in Slots /\ task'[j].pc # "free"
    BY NextUsed
  <2>2. CASE j \in {i, d}
    BY <1>3, <2>2
  <2>3. CASE j \notin {i, d}
    <3>1. task'[j] = task[j] /\ j \in InUse
      BY <1>1, <2>1, <2>3 DEF InUse
    <3> QED
      BY <3>1, OthersStay
  <2> QED
    BY <2>2, <2>3
<1>5. \A r \in Requests : ToldOK(r, Now')
  BY <1>1, OthersStay
<1> QED
  BY <1>4, <1>5, StoresStay DEF Safe

\* A handler that calls another, if it can.
LEMMA AskSafe ==
  ASSUME IInv, Tree, Safe, Next, NEW i \in InUse, NEW kind, NEW to, NEW result, NEW pc,
         Asks(i, kind, to, result, pc), state' = state,
         \A d : /\ Placed(Task(task[i], pc, d, task[i].result, task[i].todo), Now')
                /\ Promised(Task(task[i], pc, d, task[i].result, task[i].todo), Now'),
         alive[At(i)][to] => /\ Placed(Callee(i, kind, to, result), Now')
                             /\ Promised(Callee(i, kind, to, result), Now')
  PROVE  Safe'
BY CallSafe, TurnSafe, StoresStay DEF Asks

\* A handler stays where it was placed.
LEMMA StillPlaced ==
  ASSUME IInv, Tree, Safe, Next, NEW i \in InUse, NEW pc,
         \/ pc \notin Owned \cup {"forward", "forwarded"}
         \/ pc \in Owned /\ task[i].pc \in Owned
         \/ pc \in {"forward", "forwarded"} /\ task[i].pc \in {"forward", "forwarded"}
  PROVE  \A child, result, todo : Placed(Task(task[i], pc, child, result, todo), Now')
<1>1. Placed(task[i], Now')
  BY InUseOK, PlacedStays, StepLater DEF HandledOK
<1>2. Owned \cap {"forward", "forwarded"} = {}
  BY DEF Owned
<1> QED
  BY <1>1, <1>2, TaskFields DEF Placed

\* A server that has marked the primary dead finds it crashed.
LEMMA MarkedDead ==
  ASSUME Tree, NEW s \in Servers, NEW t \in Servers, s \in up, ~alive[s][t]
  PROVE  t \notin up
BY DEF Tree, AliveOK

\* Requests are sent to a server that serves the name.
LEMMA LocationServes ==
  ASSUME Tree, NEW s \in Servers, s \in up, NEW owner, owner.primary \in Servers,
         up' \subseteq up
  PROVE  /\ Serves(Location(s, owner), owner, Now')
         /\ Location(s, owner) = owner.primary \/ ~alive[s][owner.primary]
BY MarkedDead, NowFields DEF Serves, Location

\* Panics and lost answers promise nothing.
LEMMA FailuresOK ==
  \A kind, r, w : ResultOK(kind, r, Panicked, w) /\ ResultOK(kind, r, Lost, w)
BY DEF ResultOK, Panicked, Lost, NoResult

\* The answer of a call, passed on.
LEMMA AnswerSafe ==
  ASSUME IInv, Tree, Safe, Next, NEW i \in InUse, NEW pc, Answered(i, pc)
  PROVE  LET c == task[i].child
         IN ResultOK(task[c].kind, Req(i), Answer(i), Now')
<1> DEFINE c == task[i].child
<1>1. /\ c \in InUse /\ task[c].pc = "replied" /\ task[c].req = Req(i)
      /\ Answer(i) = task[c].result
  BY AnswerForm DEF IInv
<1>2. HandledOK(task[c], Now) /\ task[c].req \in Requests
  BY <1>1, InUseOK
<1>3. ResultOK(task[c].kind, task[c].req, task[c].result, Now')
  BY <1>1, <1>2, ResultStays, StepLater DEF HandledOK, Promised
<1> QED
  BY <1>1, <1>3

LEMMA ForwardSafe ==
  ASSUME IInv, Tree, Safe, Next, NEW i \in InUse,
         Route(i) \/ Forward(i) \/ ForwardAnswered(i) \/ ForwardRetries(i)
  PROVE  Safe'
<1>0. TasksOK(task, state) /\ UNCHANGED <<state, alive, up>>
  BY DEF IInv, Route, Forward, ForwardAnswered, ForwardRetries
<1>1. \A ch \in Channels : StoredOK(ch, Now')
  BY <1>0, StoresStay
<1>2. \A pc \in {"route", "forward", "forwarded", "apply", "exists", "check"} : \A d, result, todo :
        Promised(Task(task[i], pc, d, result, todo), Now')
  BY TaskFields DEF Promised
<1>3. CASE Route(i)
  <2>1. task[i].pc = "route" /\ task[i].kind = "op" /\ HandledOK(task[i], Now)
    BY <1>3, InUseOK DEF Route, Over
  <2>2. Routes(i) \in {"forward", "apply", "exists", "check"}
    BY DEF Routes
  <2>3. Placed(Task(task[i], Routes(i), Client, task[i].result, task[i].todo), Now')
    <3>1. CASE Routes(i) = "forward"
      <4>1. At(i) # PrimaryOf(Req(i))
        BY <3>1 DEF Routes, Authoritative, OwnerOf, PrimaryOf
      <4> QED
        BY <1>0, <2>1, <3>1, <4>1, TaskFields, NowFields
        DEF HandledOK, Placed, Owned, Serves, At, Req
    <3>2. CASE Routes(i) # "forward"
      <4>1. \/ At(i) = PrimaryOf(Req(i))
            \/ At(i) = BackupOf(Req(i)) /\ ~alive[At(i)][PrimaryOf(Req(i))]
        BY <3>2 DEF Routes, Authoritative, OwnerOf, PrimaryOf, BackupOf
      <4> QED
        BY <1>0, <2>1, <2>2, <3>2, <4>1, TaskFields, NowFields
        DEF HandledOK, Placed, Serves, At, Req
    <3> QED
      BY <3>1, <3>2
  <2> QED
    BY <1>1, <1>2, <1>3, <2>2, <2>3, ForwardForms, TurnSafe, <1>0
<1>4. CASE Forward(i)
  <2> DEFINE to == Location(At(i), OwnerOf(i))
  <2>1. /\ task[i].pc = "forward" /\ At(i) \in up /\ At(i) \in Servers
        /\ Req(i) \in Requests
    BY <1>4, InUseOK DEF Forward, Over
  <2>2. CASE to = At(i)
    BY <1>0, <1>1, <1>4, <2>2, ForwardForms, EndSafe, FailuresOK
  <2>3. CASE to # At(i)
    <3>1. Asks(i, "op", to, NoResult, "forwarded")
      BY <1>0, <1>4, <2>3, ForwardForms
    <3>2. \A d : Placed(Task(task[i], "forwarded", d, task[i].result, task[i].todo), Now')
      BY <2>1, StillPlaced
    <3>3. OwnerOf(i).primary \in Servers
      BY <2>1, OwnersOf DEF OwnerOf
    <3>4. /\ Serves(to, OwnerOf(i), Now')
          /\ to = PrimaryOf(Req(i)) \/ ~alive[At(i)][PrimaryOf(Req(i))]
      BY <1>0, <2>1, <3>3, LocationServes DEF OwnerOf, PrimaryOf
    <3> HIDE DEF to
    <3>5. /\ Placed(Callee(i, "op", to, NoResult), Now')
          /\ Promised(Callee(i, "op", to, NoResult), Now')
      BY <1>0, <2>1, <3>4, NowFields DEF Callee, Placed, Promised, Owned, OwnerOf
    <3> QED
      BY <1>0, <1>2, <3>1, <3>2, <3>5, AskSafe
  <2> QED
    BY <2>2, <2>3
<1>5. CASE ForwardAnswered(i)
  <2>1. Ends(i, Answer(i)) /\ Answered(i, "forwarded")
    BY <1>0, <1>5, ForwardForms DEF ForwardAnswered
  <2>2. /\ <<"forwarded", task[task[i].child].kind>> \in Waits
        /\ task[i].kind = "op"
    BY <1>0, <2>1, AnswerForm, InUseOK DEF Answered, Over
  <2>3. ResultOK("op", Req(i), Answer(i), Now')
    BY <2>1, <2>2, AnswerSafe DEF Waits
  <2> QED
    BY <1>1, <2>1, <2>2, <2>3, EndSafe
<1>6. CASE ForwardRetries(i)
  <2>1. Turns(i, "route", task[i].result, task[i].todo)
    BY <1>0, <1>6, ForwardForms
  <2>2. Placed(Task(task[i], "route", Client, task[i].result, task[i].todo), Now')
    BY StillPlaced DEF Owned
  <2> QED
    BY <1>1, <1>2, <2>1, <2>2, TurnSafe
<1> QED
  BY <1>3, <1>4, <1>5, <1>6

\* An acknowledged request before one that is under way left its mark.
LEMMA AckedBefore ==
  ASSUME IInv, Tree, Safe, Next, NEW i \in InUse, NEW c \in Before(Req(i)), Acked(c, Now')
  PROVE  Durable(c, answer[c].value, Now) /\ answer'[c] = answer[c]
<1>1. /\ answer[c] # NoResult /\ c \in Requests
  BY InUseOK, NowFields DEF Informed, Before
<1>2. answer'[c] = answer[c]
  BY <1>1, StepLater, NowFields DEF Later
<1>3. ResultOK("op", c, answer[c], Now)
  BY <1>1, NowFields DEF Safe, ToldOK
<1> QED
  BY <1>2, <1>3, NowFields DEF Acked, ResultOK

\* A server of the user that does not find it was not told that it was registered.
LEMMA NotFound ==
  ASSUME IInv, Tree, Safe, Next, NEW i \in InUse, At(i) \in up,
         Serves(At(i), Owner(Req(i).user), Now), ~UserExists(state[At(i)], Req(i).user)
  PROVE  Unregistered(Req(i), Now')
<1> SUFFICES ASSUME NEW c \in Before(Req(i)), c.op = "create_user", c.user = Req(i).user,
                    Acked(c, Now')
             PROVE  FALSE
  BY DEF Unregistered
<1>1. Durable(c, answer[c].value, Now)
  BY AckedBefore
<1>2. PrimaryOf(c) = Owner(Req(i).user).primary /\ BackupOf(c) = Owner(Req(i).user).backup
  BY Subjects DEF PrimaryOf, BackupOf
<1> QED
  BY <1>1, <1>2, NowFields DEF Durable, Kept, Serves

LEMMA ExistsSafe ==
  ASSUME IInv, Tree, Safe, Next, NEW i \in InUse,
         \/ CheckChannel(i) \/ ExistsHere(i) \/ ExistsElsewhere(i) \/ ExistsForward(i)
         \/ ExistsAnswered(i) \/ ExistsRetries(i)
  PROVE  Safe'
<1>0. /\ TasksOK(task, state) /\ UNCHANGED <<state, alive, up>>
      /\ task[i].pc \in {"check", "exists", "existsForward", "asked"}
  BY DEF IInv, CheckChannel, ExistsHere, ExistsElsewhere, ExistsForward, ExistsAnswered,
         ExistsRetries, Answered, Unavailable
<1>1. \A ch \in Channels : StoredOK(ch, Now')
  BY <1>0, StoresStay
<1>2. /\ task[i].kind = "op" /\ At(i) \in up /\ At(i) \in Servers /\ Req(i) \in Requests
      /\ Req(i).op \in {"join_channel", "leave_channel", "send_message"}
  BY <1>0, InUseOK, Working DEF Over, StandsOK
<1>3. \A pc \in {"exists", "existsForward", "asked", "apply"} : \A d, result, todo :
        /\ Promised(Task(task[i], pc, d, result, todo), Now')
        /\ Placed(Task(task[i], pc, d, result, todo), Now')
  <2>1. \A pc \in {"exists", "existsForward", "asked", "apply"} : \A d, result, todo :
          Promised(Task(task[i], pc, d, result, todo), Now')
    BY TaskFields DEF Promised
  <2>2. task[i].pc \in Owned /\ \A pc \in {"exists", "existsForward", "asked", "apply"} : pc \in Owned
    BY <1>0 DEF Owned
  <2> QED
    BY <2>1, <2>2, StillPlaced
<1>4. ASSUME NEW pc \in {"exists", "existsForward", "asked", "apply"},
             Turns(i, pc, task[i].result, task[i].todo)
      PROVE  Safe'
  BY <1>1, <1>3, <1>4, TurnSafe
<1>5. ASSUME NEW result, Ends(i, result), result.code # "OK",
             result.code = "UNKNOWN_USER" => Unregistered(Req(i), Now')
      PROVE  Safe'
  <2>1. ResultOK(task[i].kind, Req(i), result, Now')
    BY <1>2, <1>5 DEF ResultOK
  <2> QED
    BY <1>1, <1>5, <2>1, EndSafe
<1>6. /\ Panicked.code = "PANIC" /\ NoChannel.code = "UNKNOWN_CHANNEL"
      /\ NoUser.code = "UNKNOWN_USER"
  BY DEF Panicked, NoChannel, NoUser, NoResult
<1>7. CASE ExistsForward(i)
  <2> DEFINE to == Location(At(i), Owner(Req(i).user))
  <2>1. CASE to = At(i)
    BY <1>0, <1>5, <1>6, <1>7, <2>1, ExistsForms
  <2>2. CASE to # At(i)
    <3>1. Asks(i, "exists", to, NoResult, "asked")
      BY <1>0, <1>7, <2>2, ExistsForms
    <3>2. Serves(to, Owner(Req(i).user), Now')
      BY <1>0, <1>2, OwnersOf, LocationServes
    <3> HIDE DEF to
    <3>3. /\ Placed(Callee(i, "exists", to, NoResult), Now')
          /\ Promised(Callee(i, "exists", to, NoResult), Now')
      BY <3>2 DEF Callee, Placed, Promised
    <3> QED
      BY <1>0, <1>3, <3>1, <3>3, AskSafe
  <2> QED
    BY <2>1, <2>2
<1>8. CASE CheckChannel(i)
  BY <1>0, <1>4, <1>5, <1>6, <1>8, ExistsForms
<1>9. CASE ExistsHere(i)
  <2>1. Serves(At(i), Owner(Req(i).user), Now)
    BY <1>2, <1>9, MarkedDead, OwnersOf, NowFields DEF ExistsHere, Authoritative, Serves
  <2>2. ~UserExists(state[At(i)], Req(i).user) => Unregistered(Req(i), Now')
    BY <1>2, <2>1, NotFound
  <2> QED
    BY <1>0, <1>4, <1>5, <1>6, <1>9, <2>2, ExistsForms
<1>10. CASE ExistsElsewhere(i) \/ ExistsRetries(i)
  BY <1>0, <1>4, <1>10, ExistsForms
<1>11. CASE ExistsAnswered(i)
  <2>1. Answered(i, "asked")
    BY <1>11 DEF ExistsAnswered
  <2>2. Answer(i).code = "UNKNOWN_USER" => Unregistered(Req(i), Now')
    BY <2>1, AnswerSafe DEF ResultOK
  <2> QED
    BY <1>0, <1>4, <1>5, <1>11, <2>2, ExistsForms
<1> QED
  BY <1>7, <1>8, <1>9, <1>10, <1>11

\* What is not written needs not be kept.
LEMMA ReadsKeep ==
  \A r, st, value :
    r.op \notin {"create_user", "join_channel", "send_message"} => Kept(st, r, value)
BY DEF Kept

LEMMA GatherSafe ==
  ASSUME IInv, Tree, Safe, Next, NEW i \in InUse,
         Gather(i) \/ GatherNext(i) \/ Gathered(i) \/ GatherSkips(i) \/ GatherEnds(i)
  PROVE  Safe'
<1>0. /\ TasksOK(task, state) /\ UNCHANGED <<state, alive, up>>
      /\ task[i].pc \in {"route", "gather", "gathering"}
  BY DEF IInv, Gather, GatherNext, Gathered, GatherSkips, GatherEnds, Answered, Unavailable
<1>1. \A ch \in Channels : StoredOK(ch, Now')
  BY <1>0, StoresStay
<1>2. \A pc \in {"gather", "gathering"} : \A d, result, todo :
        /\ Promised(Task(task[i], pc, d, result, todo), Now')
        /\ Placed(Task(task[i], pc, d, result, todo), Now')
  <2>1. \A pc \in {"gather", "gathering"} : \A d, result, todo :
          Promised(Task(task[i], pc, d, result, todo), Now')
    BY TaskFields DEF Promised
  <2>2. \A pc \in {"gather", "gathering"} : pc \notin Owned \cup {"forward", "forwarded"}
    BY DEF Owned
  <2> QED
    BY <2>1, <2>2, StillPlaced
<1>3. CASE Gather(i)
  BY <1>0, <1>1, <1>2, <1>3, GatherForms, TurnSafe, EndSafe, FailuresOK
<1>4. CASE GatherNext(i)
  <2>1. /\ Placed(Callee(i, "names", Head(task[i].todo), NoResult), Now')
        /\ Promised(Callee(i, "names", Head(task[i].todo), NoResult), Now')
    BY DEF Callee, Placed, Promised
  <2> QED
    BY <1>0, <1>2, <1>4, <2>1, GatherForms, AskSafe
<1>5. CASE Gathered(i) \/ GatherSkips(i)
  BY <1>0, <1>1, <1>2, <1>5, GatherForms, TurnSafe
<1>6. CASE GatherEnds(i)
  <2>1. Req(i).op \in Gathers /\ task[i].result.code = "OK" /\ task[i].kind = "op"
    BY <1>0, <1>6, Working DEF GatherEnds, StandsOK, Over
  <2>2. ResultOK(task[i].kind, Req(i), task[i].result, Now')
    BY <2>1, ReadsKeep DEF ResultOK, Durable, Gathers
  <2> QED
    BY <1>0, <1>1, <1>6, <2>2, GatherForms, EndSafe
<1> QED
  BY SMTT(40), <1>3, <1>4, <1>5, <1>6

-----------------------------------------------------------------------------
(***************************************************************************)
(* The steps that write                                                    *)
(***************************************************************************)
\* A channel that was joined exists.
LEMMA JoinCreates ==
  ASSUME NEW st, StateOK(st), NEW u, NEW ch
  PROVE  LET e == JoinChannel(st, u, ch)
         IN e.result.code = "OK" => ChannelExists(e.state, ch)
<1> DEFINE c == IF ChannelExists(st, ch) THEN st.channels[ch] ELSE NewChannel
<1>1. \A d : ChannelExists(WithChannel(st, ch, d), ch)
  BY WithChannelFields DEF ChannelExists
<1> QED
  BY <1>1 DEF JoinChannel, Effect

\* What an operation stores on the server that carries it out.
LEMMA OpAdds ==
  ASSUME NEW st, StateOK(st), NEW r, r.op \in Ops \ Gathers,
         r.op \in {"leave_channel", "send_message"} => r.channel \in DOMAIN st.channels
  PROVE  LET e == OpEffect(st, r)
         IN /\ e.result.code = "OK" /\ (r.op = "send_message" => Numbered(st, r.channel)) =>
                 Kept(e.state, r, e.result.value)
            /\ e.result.code = "OK" /\ r.op = "create_user" => ~UserExists(st, r.user)
            /\ \A b, k, t : Holds(e.state, b, k, t) =>
                 \/ Holds(st, b, k, t)
                 \/ /\ r.op = "send_message" /\ e.result.code = "OK"
                    /\ b = r.channel /\ e.result.value = {k} /\ t = r.id
            /\ \A b : Numbered(st, b) => Numbered(e.state, b)
<1> DEFINE e == OpEffect(st, r)
<1>1. CASE r.op = "create_user"
  <2>1. e = CreateUser(st, r.user)
    BY <1>1 DEF OpEffect
  <2> HIDE DEF e
  <2> QED
    BY <1>1, <2>1, CreateUserAdds DEF Kept, e
<1>2. CASE r.op = "join_channel"
  <2>1. e = JoinChannel(st, r.user, r.channel)
    BY <1>2 DEF OpEffect
  <2> HIDE DEF e
  <2> QED
    BY <1>2, <2>1, JoinChannelAdds, JoinCreates DEF Kept, e
<1>3. CASE r.op = "leave_channel"
  <2>1. e = LeaveChannel(st, r.user, r.channel)
    BY <1>3 DEF OpEffect
  <2> HIDE DEF e
  <2> QED
    BY <1>3, <2>1, LeaveChannelAdds DEF Kept, e
<1>4. CASE r.op = "send_message"
  <2>1. e = SendMessage(st, r.user, r.channel, r.id)
    BY <1>4 DEF OpEffect
  <2> DEFINE next == st.channels[r.channel].next
             u == r.user
             ch == r.channel
             text == r.id
  <2>0. ch \in DOMAIN st.channels
    BY <1>4
  <2> HIDE DEF e, u, text, next
  <2>2. /\ e.result.code = "OK" =>
             /\ e.result.value = {next} /\ next \in Nat
             /\ Numbered(st, r.channel) => Holds(e.state, r.channel, next, r.id)
        /\ \A b, k, t : Holds(e.state, b, k, t) =>
             \/ Holds(st, b, k, t)
             \/ e.result.code = "OK" /\ b = r.channel /\ k = next /\ t = r.id
        /\ \A b : Numbered(st, b) => Numbered(e.state, b)
    <3>1. e = SendMessage(st, u, ch, text)
      BY <2>1 DEF u, text
    <3> HIDE DEF ch
    <3> DEFINE f == SendMessage(st, u, ch, text)
               n == st.channels[ch].next
    <3>2. /\ f.result.code = "OK" =>
               /\ f.result.value = {n} /\ n \in Nat
               /\ Numbered(st, ch) => Holds(f.state, ch, n, text)
          /\ \A b, k, t : Holds(f.state, b, k, t) =>
               \/ Holds(st, b, k, t)
               \/ f.result.code = "OK" /\ b = ch /\ k = n /\ t = text
          /\ \A b : Numbered(st, b) => Numbered(f.state, b)
      BY <2>0, SendMessageAdds
    <3>3. e = f /\ next = n
      BY <3>1 DEF next, ch
    <3> HIDE DEF f, n
    <3> QED
      BY <3>2, <3>3 DEF text, ch
  <2>3. e.result.code = "OK" /\ Numbered(st, r.channel) => Kept(e.state, r, e.result.value)
    BY <1>4, <2>2 DEF Kept
  <2> QED
    BY <1>4, <2>2, <2>3 DEF e
<1>5. CASE r.op \in {"list_channel_users", "get_messages"}
  <2>1. e.state = st
    BY <1>5, ReadsGrow DEF OpEffect
  <2> HIDE DEF e
  <2> QED
    BY <1>5, <2>1, ReadsKeep DEF e
<1> QED
  BY <1>1, <1>2, <1>3, <1>4, <1>5 DEF Ops, Gathers

\* What a replication request stores on the backup.
LEMMA ReplicaAdds ==
  ASSUME NEW st, StateOK(st), NEW r, r.op \in Writes, NEW result,
         r.op = "send_message" => r.channel \in DOMAIN st.channels
  PROVE  LET e == ReplicaEffect(st, r, result)
             id == CHOOSE k \in result.value : TRUE
         IN /\ e.result.code = "OK" /\ r.op = "create_user" => UserExists(e.state, r.user)
            /\ e.result.code = "OK" /\ r.op = "join_channel" => ChannelExists(e.state, r.channel)
            /\ r.op = "send_message" =>
                 /\ e.result.value = {id}
                 /\ \/ id \in DOMAIN st.channels[r.channel].messages
                    \/ Holds(e.state, r.channel, id, r.id)
            /\ \A b, k, t : Holds(e.state, b, k, t) =>
                 \/ Holds(st, b, k, t)
                 \/ r.op = "send_message" /\ b = r.channel /\ k = id /\ t = r.id
            /\ \A b : Numbered(st, b) /\ (r.op = "send_message" => b # r.channel) =>
                        Numbered(e.state, b)
<1> DEFINE e == ReplicaEffect(st, r, result)
           id == CHOOSE k \in result.value : TRUE
<1>1. CASE r.op = "create_user"
  <2>1. e = CreateUser(st, r.user)
    BY <1>1 DEF ReplicaEffect
  <2> HIDE DEF e, id
  <2> QED
    BY <1>1, <2>1, CreateUserAdds DEF e, id
<1>2. CASE r.op = "join_channel"
  <2>1. e = JoinChannel(st, r.user, r.channel)
    BY <1>2 DEF ReplicaEffect
  <2> HIDE DEF e, id
  <2> QED
    BY <1>2, <2>1, JoinChannelAdds, JoinCreates DEF e, id
<1>3. CASE r.op = "leave_channel"
  <2>1. \/ e.state = st
        \/ r.channel \in DOMAIN st.channels /\ e = LeaveChannel(st, r.user, r.channel)
    BY <1>3 DEF ReplicaEffect, Effect, ChannelExists
  <2> HIDE DEF e, id
  <2> QED
    BY <1>3, <2>1, LeaveChannelAdds DEF e, id
<1>4. CASE r.op = "send_message"
  <2>1. e = ReplicateSendMessage(st, r.channel, r.id, id)
    BY <1>4 DEF ReplicaEffect
  <2> HIDE DEF id
  <2>2. e.result.value = {id}
    BY <2>1 DEF ReplicateSendMessage, Effect
  <2> HIDE DEF e
  <2> QED
    BY <1>4, <2>1, <2>2, ReplicateAdds DEF e, id
<1> QED
  BY <1>1, <1>2, <1>3, <1>4 DEF Writes

LEMMA ReplicaHolds ==
  ASSUME NEW st, StateOK(st), NEW r, r.op \in Writes, NEW result,
         r.op = "send_message" => r.channel \in DOMAIN st.channels
  PROVE  \A b, k, t : Holds(ReplicaEffect(st, r, result).state, b, k, t) =>
           \/ Holds(st, b, k, t)
           \/ /\ r.op = "send_message" /\ b = r.channel /\ t = r.id
              /\ k = (CHOOSE l \in result.value : TRUE)
BY ReplicaAdds

\* What the steps that write start from.
LEMMA WritersOK ==
  ASSUME IInv, Tree, Safe, NEW i \in InUse
  PROVE  /\ At(i) \in Servers /\ Req(i) \in Requests /\ DOMAIN state = Servers
         /\ \A s \in Servers : StateOK(state[s])
         /\ Req(i).op \in Ops /\ Req(i).channel \in Channels
         /\ PcOK(task[i].kind, Req(i), At(i), task[i].pc, state)
         /\ PrimaryOf(Req(i)) \in Servers /\ BackupOf(Req(i)) \in Servers
         /\ PrimaryOf(Req(i)) # BackupOf(Req(i))
<1>1. /\ TaskOK(task[i], state) /\ task[i].pc # "free" /\ task[i].req \in Requests
      /\ At(i) \in Servers /\ Req(i) = task[i].req /\ At(i) = task[i].at
  BY Used, InUseOK DEF IInv
<1>2. Req(i).op \in Ops /\ Req(i).channel \in Channels
  BY <1>1, ReplicationAssumption
<1> QED
  BY <1>1, <1>2, OwnersOf DEF IInv, StatesOK, TaskOK, PrimaryOf, BackupOf

\* What is stored after one server's state has changed.
LEMMA StoresGrow ==
  ASSUME IInv, Tree, Safe, Next, NEW s \in Servers, NEW st,
         state' = [state EXCEPT ![s] = st], up' = up,
         \A ch \in Channels : Owner(ch).primary = s => Numbered(st, ch),
         \A ch \in Channels : Owner(ch).backup = s /\ Owner(ch).primary \in up =>
           \A k, id : Holds(st, ch, k, id) =>
             Holds(state[s], ch, k, id) \/ Holds(state[Owner(ch).primary], ch, k, id)
  PROVE  \A ch \in Channels : StoredOK(ch, Now')
<1> SUFFICES ASSUME NEW ch \in Channels PROVE StoredOK(ch, Now')
  OBVIOUS
<1> DEFINE p == Owner(ch).primary
           b == Owner(ch).backup
<1>0. p \in Servers /\ b \in Servers /\ p # b /\ DOMAIN state = Servers
  BY ChannelOwners DEF IInv, StatesOK
<1>1. /\ Numbered(state[p], ch)
      /\ p \in up => \A k, id : Holds(state[b], ch, k, id) => Holds(state[p], ch, k, id)
  BY NowFields DEF Safe, StoredOK
<1>2. \A k, id : Holds(state[p], ch, k, id) => Holds(state'[p], ch, k, id)
  BY <1>0, StepLater, NowFields, HoldsStays DEF Later
<1>3. /\ Numbered(state'[p], ch)
      /\ p \in up => \A k, id : Holds(state'[b], ch, k, id) => Holds(state'[p], ch, k, id)
  <2> HIDE DEF p, b
  <2>1. Numbered(state'[p], ch)
    BY <1>0, <1>1 DEF p
  <2>2. CASE b = s
    BY <1>0, <1>1, <1>2, <2>1, <2>2 DEF p, b
  <2>3. CASE b # s
    BY <1>0, <1>1, <1>2, <2>1, <2>3
  <2> QED
    BY <2>2, <2>3
<1> QED
  BY <1>3, NowFields DEF StoredOK

\* Whoever answers a read of the messages has those that were acknowledged before.
LEMMA ReadsComplete ==
  ASSUME IInv, Tree, Safe, Next, NEW i \in InUse, At(i) \in up,
         At(i) = PrimaryOf(Req(i)) \/ At(i) = BackupOf(Req(i)), Req(i).op = "get_messages"
  PROVE  Complete(Req(i), GetMessages(state[At(i)], Req(i).channel).result.value, Now')
<1> DEFINE ch == Req(i).channel
           st == state[At(i)]
<1> SUFFICES ASSUME NEW m \in Before(Req(i)), m.op = "send_message", m.channel = ch,
                    Acked(m, Now')
             PROVE  m.id \in GetMessages(st, ch).result.value
  BY DEF Complete
<1>1. Durable(m, answer[m].value, Now)
  BY AckedBefore
<1>2. PrimaryOf(m) = PrimaryOf(Req(i)) /\ BackupOf(m) = BackupOf(Req(i))
  BY Subjects DEF PrimaryOf, BackupOf
<1>3. PICK k \in Nat : Holds(st, ch, k, m.id)
  BY <1>1, <1>2, NowFields DEF Durable, Kept
<1> QED
  BY <1>3 DEF Holds, GetMessages, Effect, Range

LEMMA ApplySafe ==
  ASSUME IInv, Tree, Safe, Next, NEW i \in InUse, Apply(i)
  PROVE  Safe'
<1> DEFINE r == Req(i)
           s == At(i)
           e == Applied(i)
           result == By(s, e.result)
<1>1. /\ task[i].pc = "apply" /\ UNCHANGED <<alive, up>> /\ task[i].kind = "op"
      /\ s \in up /\ HandledOK(task[i], Now) /\ task[i].req = r /\ task[i].at = s
  BY InUseOK DEF Apply, Over
<1>2. /\ s \in Servers /\ r \in Requests /\ DOMAIN state = Servers
      /\ StateOK(state[s]) /\ r.op \in Ops \ Gathers /\ r.channel \in Channels
      /\ r.op \in {"leave_channel", "send_message"} => r.channel \in DOMAIN state[s].channels
      /\ PrimaryOf(r) \in Servers /\ PrimaryOf(r) # BackupOf(r)
  BY <1>1, WritersOK DEF PcOK, Routed, Looked, ChannelExists
<1>3. s = PrimaryOf(r) \/ (s = BackupOf(r) /\ PrimaryOf(r) \notin up)
  <2>1. s = PrimaryOf(r) \/ (s = BackupOf(r) /\ ~alive[s][PrimaryOf(r)])
    BY <1>1, NowFields DEF HandledOK, Placed, Owned
  <2> QED
    BY <1>1, <1>2, <2>1, MarkedDead
<1>4. CASE Ends(i, Panicked) /\ state' = state
  BY <1>4, EndSafe, StoresStay, FailuresOK
<1>5. CASE /\ state' = [state EXCEPT ![s] = e.state]
           /\ IF r.op \in Writes /\ result.code = "OK"
              THEN Turns(i, "replicate", result, task[i].todo)
              ELSE Ends(i, result)
  <2>1. /\ e.result.code = "OK" /\ (r.op = "send_message" => Numbered(state[s], r.channel)) =>
             Kept(e.state, r, e.result.value)
        /\ \A b, k, t : Holds(e.state, b, k, t) =>
             \/ Holds(state[s], b, k, t)
             \/ r.op = "send_message" /\ b = r.channel
        /\ \A b : Numbered(state[s], b) => Numbered(e.state, b)
    BY <1>2, OpAdds DEF Applied
  <2>2. /\ \A ch \in Channels : Owner(ch).primary = s => Numbered(state[s], ch)
        /\ r.op = "send_message" => Subject(r) = r.channel
    BY NowFields, Subjects DEF Safe, StoredOK
  <2>3. result.by = s /\ result.code = e.result.code /\ result.value = e.result.value
    BY DEF By
  <2>4. state'[s] = e.state
    BY <1>2, <1>5
  <2> HIDE DEF e, result, r, s
  <2>5. \A ch \in Channels : StoredOK(ch, Now')
    <3>1. \A ch \in Channels : Owner(ch).primary = s => Numbered(e.state, ch)
      BY <2>1, <2>2
    <3>2. ASSUME NEW ch \in Channels, Owner(ch).backup = s, Owner(ch).primary \in up,
                 NEW k, NEW id, Holds(e.state, ch, k, id)
          PROVE  Holds(state[s], ch, k, id)
      <4>1. CASE r.op = "send_message" /\ ch = r.channel
        <5>1. PrimaryOf(r) = Owner(ch).primary /\ BackupOf(r) = s
          BY <2>2, <3>2, <4>1 DEF PrimaryOf, BackupOf
        <5> QED
          BY <1>2, <1>3, <3>2, <5>1
      <4> QED
        BY <2>1, <3>2, <4>1
    <3> QED
      BY ZenonT(60), <1>1, <1>2, <1>5, <3>1, <3>2, StoresGrow
  <2>6. CASE r.op \in Writes /\ result.code = "OK"
    <3>1. s = PrimaryOf(r) \/ r.op # "send_message" => Kept(state'[s], r, result.value)
      BY <1>2, <2>1, <2>2, <2>3, <2>4, <2>6 DEF PrimaryOf
    <3>2. Promised(Task(task[i], "replicate", Client, result, task[i].todo), Now')
      BY <1>1, <2>3, <3>1, TaskFields, NowFields DEF Promised
    <3>3. Placed(Task(task[i], "replicate", Client, result, task[i].todo), Now')
      <4>1. "replicate" \in Owned /\ task[i].pc \in Owned
        BY <1>1 DEF Owned
      <4> QED
        BY <4>1, StillPlaced
    <3> QED
      BY <1>5, <2>5, <2>6, <3>2, <3>3, TurnSafe
  <2>7. CASE ~(r.op \in Writes /\ result.code = "OK")
    <3>1. result.code # "UNKNOWN_USER"
      BY <1>2, <2>3, OpCodes DEF e, Applied, r
    <3>2. result.code = "OK" => r.op \notin {"create_user", "join_channel", "send_message"}
      BY <2>7 DEF Writes
    <3>3. result.code = "OK" => Durable(r, result.value, Now')
      BY <3>2, ReadsKeep DEF Durable
    <3>4. r.op = "get_messages" => Complete(r, result.value, Now')
      <4> SUFFICES ASSUME r.op = "get_messages" PROVE Complete(r, result.value, Now')
        OBVIOUS
      <4>1. e.result.value = GetMessages(state[s], r.channel).result.value
        BY DEF e, Applied, OpEffect, r, s
      <4>2. Complete(r, GetMessages(state[s], r.channel).result.value, Now')
        BY <1>1, <1>3, ReadsComplete DEF r, s
      <4> QED
        BY <2>3, <4>1, <4>2
    <3>5. ResultOK(task[i].kind, r, result, Now')
      BY <1>1, <3>1, <3>2, <3>3, <3>4 DEF ResultOK
    <3> QED
      BY <1>5, <2>5, <2>7, <3>5, EndSafe DEF r
  <2> QED
    BY <2>6, <2>7
<1> QED
  BY <1>4, <1>5, ApplyForms DEF IInv

LEMMA ReplicateSafe ==
  ASSUME IInv, Tree, Safe, Next, NEW i \in InUse,
         Replicate(i) \/ ReplicateAnswered(i) \/ ReplicateUnavailable(i)
  PROVE  Safe'
<1> DEFINE r == Req(i)
           s == At(i)
           p == PrimaryOf(r)
           b == BackupOf(r)
           result == task[i].result
<1>0. UNCHANGED <<state, alive, up>> /\ task[i].pc \in {"replicate", "replicating"}
  BY DEF Replicate, ReplicateAnswered, ReplicateUnavailable, Answered, Unavailable
<1>1. /\ task[i].kind = "op" /\ s \in up /\ HandledOK(task[i], Now)
      /\ task[i].req = r /\ task[i].at = s /\ r.op \in Writes
      /\ p \in Servers /\ b \in Servers /\ s \in Servers /\ p # b
      /\ result.code = "OK" /\ (task[i].pc = "replicating" => task[i].child # Client)
      /\ OwnerOf(i).backup = b
  BY <1>0, InUseOK, WritersOK, Working DEF IInv, Over, PcOK, StandsOK, OwnerOf, BackupOf
<1>2. s = p \/ (s = b /\ p \notin up)
  <2>1. s = p \/ (s = b /\ ~alive[s][p])
    BY <1>0, <1>1, NowFields DEF HandledOK, Placed, Owned
  <2> QED
    BY <1>1, <2>1, MarkedDead
<1>3. /\ result.by = s
      /\ s = p \/ r.op # "send_message" => Kept(state'[s], r, result.value)
  BY <1>0, <1>1, NowFields DEF HandledOK, Promised
<1>4. \A ch \in Channels : StoredOK(ch, Now')
  BY <1>0, StoresStay
<1>5. r.op # "get_messages"
  BY <1>1 DEF Writes
<1>6. task[i].child # Client =>
        /\ task[task[i].child].at = b /\ task[task[i].child].kind = "replicate"
        /\ s = p
  <2> DEFINE c == task[i].child
  <2> SUFFICES ASSUME c # Client PROVE task[c].at = b /\ task[c].kind = "replicate" /\ s = p
    OBVIOUS
  <2>1. /\ c \in InUse /\ task[c].req = r /\ task[c].at # s
        /\ <<task[i].pc, task[c].kind>> \in Waits
    BY <1>1 DEF Tree, CalleeOK
  <2>2. task[c].kind = "replicate"
    BY <1>0, <2>1 DEF Waits
  <2>3. task[c].at = b
    BY <2>1, <2>2, InUseOK DEF HandledOK, Placed
  <2> QED
    BY <1>2, <2>1, <2>2, <2>3
<1> HIDE DEF r, s, p, b, result
<1>7. ASSUME Ends(i, result), s = p => b \notin up
      PROVE  Safe'
  <2>1. s = p => Durable(r, result.value, Now')
    BY <1>0, <1>3, <1>7, NowFields DEF Durable, p, b
  <2>2. s # p /\ r.op = "create_user" =>
          s = b /\ p \notin up /\ Kept(state'[b], r, result.value)
    BY <1>2, <1>3
  <2>3. ResultOK(task[i].kind, r, result, Now')
    BY <1>0, <1>1, <1>3, <1>5, <2>1, <2>2, NowFields DEF ResultOK, p, b
  <2> QED
    BY <1>4, <1>7, <2>3, EndSafe DEF r
<1>8. CASE Replicate(i)
  <2>1. CASE b = s \/ ~alive[s][b]
    <3>1. Ends(i, result)
      BY <1>1, <1>8, <2>1, ReplicateForms DEF IInv, s, result
    <3>2. s = p => b \notin up
      BY <1>1, <2>1, MarkedDead
    <3> QED
      BY <1>7, <3>1, <3>2
  <2>2. CASE ~(b = s \/ ~alive[s][b])
    <3>1. Asks(i, "replicate", b, result, "replicating") /\ s = p
      BY <1>1, <1>2, <1>8, <2>2, ReplicateForms DEF IInv, s, result
    <3>2. \A d : Placed(Task(task[i], "replicating", d, task[i].result, task[i].todo), Now')
      <4>1. "replicating" \in Owned /\ task[i].pc \in Owned
        BY <1>0 DEF Owned
      <4> QED
        BY <4>1, StillPlaced
    <3>3. \A d : Promised(Task(task[i], "replicating", d, task[i].result, task[i].todo), Now')
      BY <1>0, <1>1, <1>3, <3>1, TaskFields, NowFields DEF Promised, result
    <3>4. Placed(Callee(i, "replicate", b, result), Now')
      BY DEF Callee, Placed, b, r
    <3>5. Promised(Callee(i, "replicate", b, result), Now')
      BY <1>3, <3>1, NowFields DEF Callee, Promised, p, r
    <3> QED
      BY <1>0, <3>1, <3>2, <3>3, <3>4, <3>5, AskSafe
  <2> QED
    BY <2>1, <2>2
<1>9. CASE ReplicateAnswered(i)
  <2> DEFINE told == By(s, Answer(i))
  <2>1. Ends(i, told) /\ Answered(i, "replicating")
    BY <1>9, ReplicateForms DEF IInv, ReplicateAnswered, s
  <2>2. s = p /\ task[task[i].child].kind = "replicate"
    BY <1>6, <2>1 DEF Answered
  <2>3. ResultOK("replicate", r, Answer(i), Now')
    BY <2>1, <2>2, AnswerSafe DEF r
  <2>4. told.code = Answer(i).code /\ told.value = Answer(i).value /\ told.by = p
    BY <2>2 DEF By
  <2> HIDE DEF told
  <2>5. told.code = "OK" => Durable(r, told.value, Now')
    BY <1>0, <1>1, <2>2, <2>3, <2>4, NowFields DEF ResultOK, Durable, p, b
  <2>6. ResultOK(task[i].kind, r, told, Now')
    BY <1>1, <1>5, <2>3, <2>4, <2>5 DEF ResultOK, p
  <2> QED
    BY <1>4, <2>1, <2>6, EndSafe DEF r
<1>10. CASE ReplicateUnavailable(i)
  <2>1. /\ Ends(i, result) /\ task[i].child # Client
        /\ ~alive[s][task[task[i].child].at]
    BY <1>1, <1>10, ReplicateForms DEF IInv, ReplicateUnavailable, Unavailable, s, result
  <2>2. b \notin up
    BY <1>1, <1>6, <2>1, MarkedDead
  <2> QED
    BY <1>7, <2>1, <2>2
<1> QED
  BY <1>8, <1>9, <1>10

LEMMA ServeSafe ==
  ASSUME IInv, Tree, Safe, Next, NEW i \in InUse,
         ServeExists(i) \/ ServeNames(i)
  PROVE  Safe'
<1>0. /\ UNCHANGED <<state, alive, up>> /\ task[i].pc = "start"
      /\ task[i].kind \in {"exists", "names"}
  BY DEF ServeExists, ServeNames
<1>1. \A ch \in Channels : StoredOK(ch, Now')
  BY <1>0, StoresStay
<1>2. ASSUME NEW result, Ends(i, result),
             result.code = "UNKNOWN_USER" => Unregistered(Req(i), Now')
      PROVE  Safe'
  <2>1. ResultOK(task[i].kind, Req(i), result, Now')
    BY <1>0, <1>2 DEF ResultOK
  <2> QED
    BY <1>1, <1>2, <2>1, EndSafe
<1>3. Panicked.code = "PANIC" /\ TheirNames(i).code = "OK"
  BY DEF Panicked, TheirNames, NoResult
<1>4. CASE ServeExists(i)
  <2>1. Found(i).code = "UNKNOWN_USER" => ~UserExists(state[At(i)], Req(i).user)
    BY DEF Found, NoResult
  <2>2. Serves(At(i), Owner(Req(i).user), Now) /\ At(i) \in up
    BY <1>0, <1>4, InUseOK DEF HandledOK, Placed, ServeExists, Over
  <2>3. Found(i).code = "UNKNOWN_USER" => Unregistered(Req(i), Now')
    BY <2>1, <2>2, NotFound
  <2> QED
    BY <1>2, <1>3, <1>4, <2>3, ServeForms DEF IInv
<1>5. CASE ServeNames(i)
  BY <1>2, <1>3, <1>5, ServeForms DEF IInv
<1> QED
  BY <1>4, <1>5

LEMMA ReplicaSafe ==
  ASSUME IInv, Tree, Safe, Next, NEW i \in InUse, ServeReplicate(i)
  PROVE  Safe'
<1> DEFINE r == Req(i)
           s == At(i)
           p == PrimaryOf(r)
           x == task[i].result
           e == Replicated(i)
           told == By(s, e.result)
           id == CHOOSE k \in x.value : TRUE
<1>1. /\ task[i].pc = "start" /\ task[i].kind = "replicate" /\ UNCHANGED <<alive, up>>
      /\ HandledOK(task[i], Now) /\ task[i].req = r /\ task[i].at = s
  BY InUseOK DEF ServeReplicate
<1>2. /\ s \in Servers /\ r \in Requests /\ DOMAIN state = Servers /\ StateOK(state[s])
      /\ r.op \in Writes /\ r.channel \in Channels
      /\ p \in Servers /\ p # BackupOf(r)
  BY <1>1, WritersOK DEF PcOK
<1>3. s = BackupOf(r) /\ Kept(state[p], r, x.value)
  BY <1>1, NowFields DEF HandledOK, Placed, Promised
<1>4. CASE Ends(i, Panicked) /\ state' = state
  BY <1>4, EndSafe, StoresStay, FailuresOK
<1>5. CASE /\ ~ChannelMissing(i)
           /\ state' = [state EXCEPT ![s] = e.state]
           /\ Ends(i, told)
  <2>1. r.op = "send_message" => r.channel \in DOMAIN state[s].channels
    BY <1>5 DEF ChannelMissing, ChannelExists
  <2>2. /\ e.result.code = "OK" /\ r.op = "create_user" => UserExists(e.state, r.user)
        /\ e.result.code = "OK" /\ r.op = "join_channel" => ChannelExists(e.state, r.channel)
        /\ r.op = "send_message" =>
             /\ e.result.value = {id}
             /\ \/ id \in DOMAIN state[s].channels[r.channel].messages
                \/ Holds(e.state, r.channel, id, r.id)
        /\ \A b, k, t : Holds(e.state, b, k, t) =>
             \/ Holds(state[s], b, k, t)
             \/ r.op = "send_message" /\ b = r.channel /\ k = id /\ t = r.id
        /\ \A b : Numbered(state[s], b) /\ (r.op = "send_message" => b # r.channel) =>
                    Numbered(e.state, b)
    BY <1>2, <2>1, ReplicaAdds DEF Replicated
  <2>3. /\ \A ch \in Channels : StoredOK(ch, Now)
        /\ r.op = "send_message" => Subject(r) = r.channel
    BY Subjects DEF Safe
  <2>4. r.op = "send_message" =>
          /\ x.value = {id} /\ id \in Nat /\ Holds(state[p], r.channel, id, r.id)
          /\ Owner(r.channel).primary = p /\ Owner(r.channel).backup = s
    BY <1>3, <2>3 DEF Kept, PrimaryOf, BackupOf
  <2>5. /\ told.code = e.result.code /\ told.value = e.result.value
        /\ state'[s] = e.state /\ state'[p] = state[p]
    BY <1>2, <1>3, <1>5 DEF By
  <2>6. told.code # "UNKNOWN_USER"
    BY <1>2, <2>5, ReplicaCodes DEF Replicated
  <2>7. Grows(state[s], state'[s])
    BY <1>2, StepLater, NowFields DEF Later
  <2> HIDE DEF e, r, s, p, id, x, told
  <2>8. \A ch \in Channels : StoredOK(ch, Now')
    <3>1. ASSUME NEW ch \in Channels, Owner(ch).primary = s
          PROVE  Numbered(e.state, ch)
      <4>1. r.op = "send_message" => ch # r.channel
        BY <1>2, <1>3, <2>4, <3>1
      <4>2. Numbered(state[s], ch)
        BY <2>3, <3>1, NowFields DEF StoredOK
      <4> QED
        BY <2>2, <4>1, <4>2
    <3>2. \A ch \in Channels : \A k, t : Holds(e.state, ch, k, t) =>
            Holds(state[s], ch, k, t) \/ Holds(state[Owner(ch).primary], ch, k, t)
      BY <2>2, <2>4
    <3>3. up' = up /\ state' = [state EXCEPT ![s] = e.state]
      BY <1>1, <1>5
    <3>4. \A ch \in Channels : Owner(ch).primary = s => Numbered(e.state, ch)
      BY <3>1
    <3>5. \A ch \in Channels : Owner(ch).backup = s /\ Owner(ch).primary \in up =>
            \A k, t : Holds(e.state, ch, k, t) =>
              Holds(state[s], ch, k, t) \/ Holds(state[Owner(ch).primary], ch, k, t)
      BY <3>2
    <3> DEFINE st == e.state
    <3> HIDE DEF st
    <3>6. \A ch \in Channels : StoredOK(ch, Now')
      BY <1>2, <3>3, <3>4, <3>5, StoresGrow, ZenonT(60) DEF st
    <3> QED
      BY <3>6
  <2>9. told.code = "OK" => Kept(state'[p], r, told.value)
    BY <1>3, <2>2, <2>4, <2>5 DEF Kept
  <2>10. told.code = "OK" /\ p \in up => Kept(state'[s], r, told.value)
    <3>1. ASSUME r.op = "send_message", p \in up
          PROVE  Holds(state'[s], r.channel, id, r.id)
      <4>1. CASE id \in DOMAIN state[s].channels[r.channel].messages
        <5> DEFINE t == state[s].channels[r.channel].messages[id]
        <5>1. Holds(state[s], r.channel, id, t)
          BY <2>1, <3>1, <4>1 DEF Holds, ChannelExists
        <5>2. Holds(state[p], r.channel, id, t)
          BY <1>2, <2>3, <2>4, <3>1, <5>1, NowFields DEF StoredOK
        <5>3. t = r.id
          BY <2>4, <3>1, <5>2 DEF Holds
        <5> QED
          BY <2>7, <5>1, <5>3, HoldsStays
      <4> QED
        BY <2>2, <2>5, <3>1, <4>1
    <3> QED
      BY <2>2, <2>4, <2>5, <3>1 DEF Kept
  <2>11. ResultOK(task[i].kind, r, told, Now')
    BY <1>1, <1>3, <2>6, <2>9, <2>10, NowFields DEF ResultOK, p
  <2> QED
    BY <1>5, <2>8, <2>11, EndSafe DEF r
<1> QED
  BY <1>4, <1>5, ServeForms DEF IInv

-----------------------------------------------------------------------------
(***************************************************************************)
(* Clients and failures                                                    *)
(***************************************************************************)
LEMMA IssueSafe ==
  ASSUME IInv, Tree, Safe, Next, NEW r \in Requests, Issue(r)
  PROVE  Safe'
<1>1. UNCHANGED <<state, alive, up, answer>> /\ Informed(r, Now)
  BY NowFields DEF Issue, Informed, Before, Follows
<1>2. PICK d : Starts(d, r)
  BY IssueForm DEF IInv
<1> DEFINE x == NewTask("op", r, r.at, r.at, Client, NoResult)
<1>3. HandledOK(x, Now')
  <2>1. x.kind = "op" /\ x.pc = "route" /\ x.parent = Client /\ x.req = r
    BY DEF NewTask
  <2> HIDE DEF x
  <2>2. Informed(r, Now')
    BY <1>1, StepLater, InformedStays
  <2> QED
    BY <2>1, <2>2 DEF HandledOK, Placed, Promised, Owned
<1>4. ASSUME NEW j \in InUse' PROVE HandledOK(task'[j], Now')
  <2>1. j \in Slots /\ task'[j].pc # "free"
    BY NextUsed
  <2>2. CASE j = d
    BY <1>2, <1>3, <2>2 DEF Starts
  <2>3. CASE j # d
    <3>1. task'[j] = task[j] /\ j \in InUse
      BY <1>2, <2>1, <2>3 DEF Starts, InUse
    <3> QED
      BY <3>1, OthersStay
  <2> QED
    BY <2>2, <2>3
<1> QED
  BY <1>1, <1>4, OthersStay, StoresStay DEF Safe

LEMMA DisconnectSafe ==
  ASSUME IInv, Tree, Safe, Next, NEW i \in InUse, Disconnect(i)
  PROVE  Safe'
<1>1. /\ Top(i) /\ Becomes(i, Free) /\ UNCHANGED <<state, alive, up>>
      /\ answer' = [answer EXCEPT ![Req(i)] = Lost]
  BY DisconnectForm DEF IInv
<1>2. ~Awaited(i)
  BY <1>1 DEF Top, Awaited
<1>3. Ends(i, Lost)
  BY <1>1, <1>2 DEF Ends, Ending
<1> QED
  BY <1>1, <1>3, EndSafe, StoresStay, FailuresOK

LEMMA CrashSafe ==
  ASSUME IInv, Tree, Safe, Next, NEW s \in Servers, Crash(s)
  PROVE  Safe'
<1>1. /\ state' = state
      /\ answer' = [r \in Requests |->
           IF \E i \in InUse : task[i].req = r /\ Top(i) /\ task[i].at = s
           THEN Lost ELSE answer[r]]
  BY CrashForm DEF IInv
<1>2. ASSUME NEW j \in InUse' PROVE HandledOK(task'[j], Now')
  <2>1. /\ j \in InUse
        /\ task'[j].kind = task[j].kind /\ task'[j].req = task[j].req
        /\ task'[j].at = task[j].at /\ task'[j].from = task[j].from
        /\ task'[j].parent = task[j].parent
        /\ task'[j] = task[j] \/ task'[j].pc = "lost"
    BY <1>2, CrashLeaves DEF IInv
  <2>2. CASE task'[j] = task[j]
    BY <2>1, <2>2, OthersStay
  <2>3. CASE task'[j].pc = "lost"
    <3>1. Placed(task[j], Now') /\ Informed(Req(j), Now') /\ Req(j) = task[j].req
      BY <2>1, InUseOK, PlacedStays, StepLater, OthersStay DEF HandledOK
    <3> QED
      BY <2>1, <2>3, <3>1 DEF HandledOK, Placed, Promised, Owned
  <2> QED
    BY <2>1, <2>2, <2>3
<1>3. ASSUME NEW r \in Requests PROVE ToldOK(r, Now')
  <2>1. CASE answer'[r] = answer[r]
    BY <2>1, OthersStay
  <2>2. CASE answer'[r] # answer[r]
    <3>1. PICK i \in InUse : task[i].req = r
      BY <1>1, <2>2
    <3>2. answer'[r] = Lost /\ Informed(r, Now')
      BY <1>1, <2>2, <3>1, OthersStay, InUseOK
    <3> QED
      BY <3>2, FailuresOK, NowFields DEF ToldOK
  <2> QED
    BY <2>1, <2>2
<1> QED
  BY <1>1, <1>2, <1>3, StoresStay DEF Safe

LEMMA MarkDeadSafe ==
  ASSUME IInv, Tree, Safe, Next, NEW s \in Servers, NEW t \in Servers, MarkDead(s, t)
  PROVE  Safe'
<1>1. UNCHANGED <<state, task, answer>> /\ InUse' = InUse
  BY DEF MarkDead, InUse
<1> QED
  BY <1>1, OthersStay, StoresStay DEF Safe

LEMMA SafeStep ==
  ASSUME IInv, Tree, Safe, Next
  PROVE  Safe'
BY ForwardSafe, ExistsSafe, ApplySafe, ReplicateSafe, GatherSafe, ServeSafe, ReplicaSafe,
   IssueSafe, DisconnectSafe, CrashSafe, MarkDeadSafe DEF Next, Step

LEMMA SafeInit == Init => Safe
<1> SUFFICES ASSUME Init PROVE Safe
  OBVIOUS
<1>1. InUse = {}
  BY FreeFields DEF Init, InUse
<1>2. \A r \in Requests : answer[r] = NoResult
  BY DEF Init
<1>3. ASSUME NEW ch \in Channels PROVE StoredOK(ch, Now)
  <2>1. Owner(ch).primary \in Servers /\ Owner(ch).backup \in Servers
    BY ChannelOwners
  <2>2. ASSUME NEW s \in Servers, ChannelExists(state[s], ch)
        PROVE  DOMAIN state[s].channels[ch].messages = {}
    <3>1. /\ state[s].channels[ch] = InitialChannel(ch)
      BY <2>2 DEF Init, ChannelExists
    <3>2. InitialChannel(ch).messages = NewChannel.messages
      BY DEF InitialChannel, NewChannel
    <3>3. DOMAIN NewChannel.messages = {}
      BY DEF NewChannel
    <3> QED
      BY <3>1, <3>2, <3>3
  <2> QED
    BY <2>1, <2>2, NowFields DEF StoredOK, Numbered, Holds
<1> QED
  BY <1>1, <1>2, <1>3, NowFields DEF Safe, ToldOK

LEMMA SafeStutter ==
  ASSUME Safe, UNCHANGED vars
  PROVE  Safe'
<1>1. UNCHANGED <<state, alive, up, task, answer>>
  BY DEF vars
<1>2. InUse' = InUse /\ Now' = Now
  BY <1>1 DEF InUse, Now
<1> QED
  BY <1>1, <1>2 DEF Safe

\* In every reachable state, what clients were told is true, handlers run where they may,
\* and the two owners of a channel hold what the primary has acknowledged.
THEOREM SafeInvariance == Spec => []Safe
<1>1. IInv /\ Tree /\ Safe /\ [Next]_vars => Safe'
  BY SafeStep, SafeStutter
<1> QED
  BY <1>1, SafeInit, Invariance, TreeInvariance, PTL DEF Spec

\* Whoever answers it, a request that follows the acknowledged registration of its user is
\* not refused for an unknown user.
THEOREM UsersKnown == Spec => []RegisteredUsersKnown
<1>1. Safe => RegisteredUsersKnown
  <2> SUFFICES ASSUME Safe, NEW r \in Requests, answer[r].code = "UNKNOWN_USER",
                      NEW c \in Before(r), c.op = "create_user", c.user = r.user,
                      Acknowledged(c)
               PROVE  FALSE
    BY DEF RegisteredUsersKnown
  <2>1. ToldOK(r, Now) /\ answer[r] # NoResult
    BY DEF Safe, NoResult
  <2>2. Unregistered(r, Now)
    BY <2>1, NowFields DEF ToldOK, ResultOK
  <2> QED
    BY <2>2, NowFields, Subjects DEF Unregistered, Acked, Acknowledged, PrimaryOf
<1> QED
  BY <1>1, SafeInvariance, PTL

\* Whoever answers it, a get_messages sent after a message was acknowledged returns that
\* message.
THEOREM WritesSeen == Spec => []ReadsSeeWrites
<1>1. Safe => ReadsSeeWrites
  <2> SUFFICES ASSUME Safe, NEW r \in Requests, r.op = "get_messages",
                      answer[r].code \in {"OK", "UNKNOWN_CHANNEL"},
                      NEW m \in Before(r), m.op = "send_message", m.channel = r.channel,
                      Acknowledged(m)
               PROVE  m.id \in answer[r].value
    BY DEF ReadsSeeWrites
  <2>1. ToldOK(r, Now) /\ answer[r] # NoResult
    BY DEF Safe, NoResult
  <2>2. Complete(r, answer[r].value, Now)
    BY <2>1, NowFields DEF ToldOK, ResultOK
  <2> QED
    BY <2>2, NowFields DEF Complete, Acked, Acknowledged, PrimaryOf
<1> QED
  BY <1>1, SafeInvariance, PTL

-----------------------------------------------------------------------------
(***************************************************************************)
(* A name is registered once                                               *)
(***************************************************************************)
\* Where a handler has what the operation came to.
Outcomes == {"replicate", "replicating", "replied"}
Grants(x) == x.kind = "op" /\ x.pc \in Outcomes /\ x.result.code = "OK"

\* A request that succeeded, whether or not the client knows.
Granted(r) ==
  \/ answer[r].code = "OK"
  \/ \E i \in InUse : task[i].req = r /\ Grants(task[i])

OneGrant ==
  \A r, q \in Requests :
    /\ r.op = "create_user" /\ q.op = "create_user" /\ r.user = q.user
    /\ Granted(r) /\ Granted(q)
    => r = q

\* A step grants no registration but q.
GrantsOnly(q) ==
  \A r \in Requests : r.op = "create_user" /\ Granted(r)' => Granted(r) \/ r = q

\* A step that grants none.
LEMMA NoGrants ==
  ASSUME OneGrant, \A q : GrantsOnly(q)
  PROVE  OneGrant'
<1>1. ASSUME NEW r \in Requests, r.op = "create_user", Granted(r)'
      PROVE  Granted(r)
  <2>1. (Granted(r) \/ r = 0) /\ (Granted(r) \/ r = 1)
    BY <1>1 DEF GrantsOnly
  <2> QED
    BY <2>1
<1> QED
  BY <1>1 DEF OneGrant

LEMMA ChangeGrants ==
  ASSUME NEW i \in InUse, IInv, Tree, NEW q,
         \A j \in InUse' \ {i} : (j \in InUse /\ task'[j] = task[j]) \/ ~Grants(task'[j]),
         i \in InUse' => \/ task'[i].req = Req(i) /\ (Granted(Req(i)) \/ Req(i) = q)
                         \/ Req(i).op # "create_user" /\ task'[i].req = Req(i)
                         \/ ~Grants(task'[i]),
         \A r \in Requests : \/ answer'[r].code # "OK" \/ answer'[r] = answer[r]
                             \/ Granted(r) \/ r = q \/ r.op # "create_user"
  PROVE  GrantsOnly(q)
<1> SUFFICES ASSUME NEW r \in Requests, r.op = "create_user", Granted(r)'
             PROVE  Granted(r) \/ r = q
  BY DEF GrantsOnly
<1>1. CASE answer'[r].code = "OK"
  BY <1>1 DEF Granted
<1>2. ASSUME NEW j \in InUse', task'[j].req = r, Grants(task'[j])
      PROVE  Granted(r) \/ r = q
  BY <1>2 DEF Granted
<1>3. Granted(r)' <=> (answer'[r].code = "OK" \/ \E j \in InUse' : task'[j].req = r /\ Grants(task'[j]))
  BY DEF Granted, Grants
<1> QED
  BY <1>1, <1>2, <1>3

LEMMA TurnGrants ==
  ASSUME IInv, Tree, NEW i \in InUse, NEW pc, NEW result, NEW todo, NEW q,
         Turns(i, pc, result, todo),
         pc \in Outcomes /\ result.code = "OK" /\ Req(i).op = "create_user" =>
           Granted(Req(i)) \/ Req(i) = q
  PROVE  GrantsOnly(q)
<1>1. /\ task'[i] = Task(task[i], pc, Client, result, todo) /\ answer' = answer
      /\ Req(i) = task[i].req
  BY Used DEF IInv, Turns, Becomes, Req
<1>2. ASSUME NEW j \in InUse' \ {i} PROVE j \in InUse /\ task'[j] = task[j]
  BY NextUsed, FreeFields DEF Turns, Becomes, InUse
<1> QED
  BY <1>1, <1>2, ChangeGrants, TaskFields DEF Grants

LEMMA EndGrants ==
  ASSUME IInv, Tree, NEW i \in InUse, NEW result, NEW q, Ends(i, result),
         task[i].kind = "op" /\ result.code = "OK" /\ Req(i).op = "create_user" =>
           Granted(Req(i)) \/ Req(i) = q
  PROVE  GrantsOnly(q)
<1>1. /\ i \in Slots /\ Req(i) = task[i].req /\ Req(i) \in Requests /\ DOMAIN answer = Requests
      /\ Top(i) => task[i].kind = "op"
  BY Used DEF IInv, Tree, HandlerOK, Req
<1>2. \/ task'[i] = Free
      \/ task'[i] = Task(task[i], "lost", Client, task[i].result, task[i].todo)
      \/ task'[i] = Task(task[i], "replied", Client, result, task[i].todo)
  BY <1>1 DEF Ends, Becomes, Ending
<1>3. \/ task'[i].req = Req(i) /\ (Granted(Req(i)) \/ Req(i) = q)
      \/ Req(i).op # "create_user" /\ task'[i].req = Req(i)
      \/ ~Grants(task'[i])
  BY <1>1, <1>2, TaskFields, FreeFields DEF Grants, Outcomes
<1>4. ASSUME NEW j \in InUse' \ {i} PROVE j \in InUse /\ task'[j] = task[j]
  BY NextUsed, FreeFields DEF Ends, Becomes, InUse
<1>5. ASSUME NEW r \in Requests
      PROVE  \/ answer'[r].code # "OK" \/ answer'[r] = answer[r]
             \/ Granted(r) \/ r = q \/ r.op # "create_user"
  BY <1>1 DEF Ends
<1> QED
  BY <1>3, <1>4, <1>5, ChangeGrants

LEMMA AskGrants ==
  ASSUME IInv, Tree, NEW i \in InUse, NEW kind, NEW to, NEW result, NEW pc, NEW q,
         Asks(i, kind, to, result, pc),
         pc \in Outcomes /\ task[i].result.code = "OK" /\ Req(i).op = "create_user" =>
           Granted(Req(i))
  PROVE  GrantsOnly(q)
<1>1. CASE Turns(i, pc, task[i].result, task[i].todo)
  BY <1>1, TurnGrants
<1>2. ASSUME NEW d, Calls(i, d, kind, to, result, pc)
      PROVE  GrantsOnly(q)
  <2>1. /\ task'[i] = Task(task[i], pc, d, task[i].result, task[i].todo)
        /\ task'[d] = Callee(i, kind, to, result) /\ answer' = answer
        /\ Req(i) = task[i].req
    BY <1>2, Used DEF IInv, Calls, Req
  <2>2. ~Grants(task'[d])
    BY <2>1 DEF Grants, Outcomes, Callee
  <2>3. ASSUME NEW j \in InUse' \ {i, d} PROVE j \in InUse /\ task'[j] = task[j]
    BY <1>2, NextUsed DEF Calls, InUse
  <2> QED
    BY <2>1, <2>2, <2>3, ChangeGrants, TaskFields DEF Grants
<1> QED
  BY <1>1, <1>2 DEF Asks

\* No step but that of create_user on the user's server grants a registration.
LEMMA StepGrants ==
  ASSUME IInv, Tree, NEW i \in InUse, NEW q,
         \/ Step(i) /\ ~Apply(i)
         \/ Disconnect(i)
  PROVE  GrantsOnly(q)
<1>0. /\ i \in Slots /\ TasksOK(task, state) /\ Req(i) = task[i].req /\ Req(i) \in Requests
      /\ StandsOK(task[i].kind, Req(i).op, task[i].child, task[i].pc, task[i].result,
                  task[i].todo)
  BY Working DEF IInv
<1>1. ASSUME NEW pc, NEW result, NEW todo, Turns(i, pc, result, todo), pc \notin Outcomes
      PROVE  GrantsOnly(q)
  BY <1>1, TurnGrants
<1>2. ASSUME NEW result, Ends(i, result), result.code # "OK" \/ Req(i).op # "create_user"
      PROVE  GrantsOnly(q)
  BY <1>2, EndGrants
<1>3. /\ Panicked.code = "PANIC" /\ NoChannel.code = "UNKNOWN_CHANNEL"
      /\ NoUser.code = "UNKNOWN_USER" /\ Lost.code = "LOST"
  BY DEF Panicked, NoChannel, NoUser, Lost, NoResult
<1>4. ASSUME NEW kind, NEW to, NEW result, NEW pc, Asks(i, kind, to, result, pc),
             pc \notin Outcomes
      PROVE  GrantsOnly(q)
  BY <1>4, AskGrants
<1>5. ASSUME NEW result, task[i].kind = "op" => Granted(Req(i)), Ends(i, result)
      PROVE  GrantsOnly(q)
  BY <1>5, EndGrants
<1>6. \A pc \in {"route", "forward", "forwarded", "apply", "exists", "existsForward", "asked",
                 "check", "gather", "gathering"} : pc \notin Outcomes
  BY DEF Outcomes
<1>7. CASE Route(i) \/ Forward(i) \/ ForwardRetries(i)
  <2>1. Routes(i) \in {"forward", "apply", "exists", "check"}
    BY DEF Routes
  <2> HIDE DEF Routes
  <2> QED
    BY <1>0, <1>1, <1>2, <1>3, <1>4, <1>6, <1>7, <2>1, ForwardForms
<1>8. CASE ForwardAnswered(i)
  <2>1. Ends(i, Answer(i)) /\ Answered(i, "forwarded")
    BY <1>0, <1>8, ForwardForms DEF ForwardAnswered
  <2>2. Answer(i).code = "OK" => Granted(Req(i))
    BY <1>0, <2>1, AnswerForm DEF Granted, Grants, Outcomes, Waits
  <2> QED
    BY <1>2, <1>5, <2>1, <2>2
<1>9. CASE \/ CheckChannel(i) \/ ExistsHere(i) \/ ExistsElsewhere(i) \/ ExistsForward(i)
           \/ ExistsAnswered(i) \/ ExistsRetries(i)
  BY <1>0, <1>1, <1>2, <1>3, <1>4, <1>6, <1>9, ExistsForms
<1>10. CASE Replicate(i) \/ ReplicateAnswered(i) \/ ReplicateUnavailable(i)
  <2>1. task[i].pc \in {"replicate", "replicating"}
    BY <1>10 DEF Replicate, ReplicateAnswered, ReplicateUnavailable, Answered, Unavailable
  <2>2. Granted(Req(i))
    BY <1>0, <2>1, Working DEF Granted, Grants, Outcomes, StandsOK, Over
  <2> DEFINE to == OwnerOf(i).backup
  <2>3. \/ \E result : Ends(i, result)
        \/ Asks(i, "replicate", to, task[i].result, "replicating")
    BY <1>0, <1>10, ReplicateForms
  <2> HIDE DEF to
  <2> QED
    BY <1>5, <2>2, <2>3, AskGrants
<1>11. CASE Gather(i) \/ GatherNext(i) \/ Gathered(i) \/ GatherSkips(i) \/ GatherEnds(i)
  <2>1. Req(i).op \in Gathers \/ task[i].pc \in {"gather", "gathering"}
    <3>1. CASE Gather(i)
      BY <3>1 DEF Gather
    <3>2. CASE GatherNext(i) \/ GatherEnds(i)
      BY <3>2 DEF GatherNext, GatherEnds
    <3>3. CASE Gathered(i) \/ GatherSkips(i)
      BY <3>3 DEF Gathered, GatherSkips, Answered, Unavailable
    <3> QED
      BY <1>11, <3>1, <3>2, <3>3
  <2>2. Req(i).op # "create_user"
    BY <1>0, <2>1 DEF StandsOK, Gathers
  <2> QED
    BY <1>0, <1>1, <1>2, <1>4, <1>6, <1>11, <2>2, GatherForms
<1>12. CASE ServeExists(i) \/ ServeNames(i) \/ ServeReplicate(i)
  <2>1. task[i].kind # "op"
    BY <1>12 DEF ServeExists, ServeNames, ServeReplicate
  <2> QED
    BY <1>0, <1>5, <1>12, <2>1, ServeForms
<1>13. CASE Disconnect(i)
  <2>1. Top(i) /\ Becomes(i, Free) /\ answer' = [answer EXCEPT ![Req(i)] = Lost]
    BY <1>0, <1>13, DisconnectForm
  <2>2. ~Awaited(i)
    BY <2>1 DEF Top, Awaited
  <2>3. Ends(i, Lost)
    BY <2>1, <2>2 DEF Ends, Ending
  <2> QED
    BY <1>2, <1>3, <2>3
<1> QED
  BY <1>7, <1>8, <1>9, <1>10, <1>11, <1>12, <1>13 DEF Step

LEMMA OtherGrants ==
  ASSUME IInv, Tree, NEW q,
         \/ \E r \in Requests : Issue(r)
         \/ \E s \in Servers : Crash(s)
         \/ \E s, t \in Servers : MarkDead(s, t)
         \/ UNCHANGED vars
  PROVE  GrantsOnly(q)
<1> SUFFICES ASSUME NEW r \in Requests, r.op = "create_user", Granted(r)'
             PROVE  Granted(r)
  BY DEF GrantsOnly
<1>1. \/ answer'[r].code = "OK"
      \/ \E j \in InUse' : task'[j].req = r /\ Grants(task'[j])
  BY DEF Granted, Grants
<1>2. Lost.code # "OK"
  BY DEF Lost, NoResult
<1>3. ASSUME NEW a \in Requests, Issue(a) PROVE Granted(r)
  <2>1. PICK d : Starts(d, a)
    BY <1>3, IssueForm DEF IInv
  <2>2. answer' = answer
    BY <1>3 DEF Issue
  <2>3. ~Grants(task'[d])
    BY <2>1 DEF Starts, NewTask, Grants, Outcomes
  <2>4. \A j \in InUse' : j # d => j \in InUse /\ task'[j] = task[j]
    BY <2>1, NextUsed DEF Starts, InUse
  <2> QED
    BY <1>1, <2>2, <2>3, <2>4 DEF Granted
<1>4. ASSUME NEW s \in Servers, Crash(s) PROVE Granted(r)
  <2>1. answer'[r] = Lost \/ answer'[r] = answer[r]
    BY <1>4, CrashForm DEF IInv
  <2>2. \A j \in InUse' : j \in InUse /\ (task'[j] = task[j] \/ ~Grants(task'[j]))
    BY <1>4, CrashLeaves DEF IInv, Grants, Outcomes
  <2> QED
    BY <1>1, <1>2, <2>1, <2>2 DEF Granted
<1>5. CASE (\E s, t \in Servers : MarkDead(s, t)) \/ UNCHANGED vars
  <2>1. task' = task /\ answer' = answer /\ InUse' = InUse
    BY <1>5 DEF MarkDead, vars, InUse
  <2> QED
    BY <1>1, <2>1 DEF Granted
<1> QED
  BY <1>3, <1>4, <1>5

\* A server that serves the user of a granted registration knows it.
LEMMA GrantedKnown ==
  ASSUME IInv, Tree, Safe, NEW r \in Requests, r.op = "create_user", Granted(r),
         NEW s \in up, s = PrimaryOf(r) \/ (s = BackupOf(r) /\ PrimaryOf(r) \notin up)
  PROVE  UserExists(state[s], r.user)
<1>1. ASSUME NEW result, ResultOK("op", r, result, Now), result.code = "OK"
      PROVE  UserExists(state[s], r.user)
  BY <1>1, NowFields DEF ResultOK, Durable, Kept
<1>2. CASE answer[r].code = "OK"
  <2>1. ToldOK(r, Now) /\ answer[r] # NoResult
    BY <1>2 DEF Safe, NoResult
  <2> QED
    BY <1>1, <1>2, <2>1, NowFields DEF ToldOK
<1>3. ASSUME NEW i \in InUse, task[i].req = r, Grants(task[i])
      PROVE  UserExists(state[s], r.user)
  <2>1. HandledOK(task[i], Now) /\ task[i].pc # "free"
    BY InUseOK DEF InUse
  <2>2. CASE task[i].pc = "replied"
    BY <1>1, <1>3, <2>1, <2>2 DEF HandledOK, Promised, Grants
  <2>3. CASE task[i].pc \in {"replicate", "replicating"}
    <3> DEFINE x == task[i]
    <3>1. x.at \in up /\ x.at \in Servers /\ PrimaryOf(r) \in Servers /\ task[i].kind = "op"
      BY <1>3, <2>3, InUseOK, OwnersOf DEF Over, PrimaryOf, At
    <3>2. Kept(state[x.at], r, x.result.value)
      BY <1>3, <2>1, <2>3, NowFields DEF HandledOK, Promised
    <3>3. x.at = PrimaryOf(r) \/ (x.at = BackupOf(r) /\ ~alive[x.at][PrimaryOf(r)])
      BY <1>3, <2>1, <2>3, <3>1, NowFields DEF HandledOK, Placed, Owned
    <3>4. x.at = s
      BY <3>1, <3>3, MarkedDead
    <3> QED
      BY <3>2, <3>4 DEF Kept
  <2> QED
    BY <1>3, <2>2, <2>3 DEF Grants, Outcomes
<1> QED
  BY <1>2, <1>3 DEF Granted

\* create_user on the user's server grants a registration, and there is no other.
LEMMA ApplyGrants ==
  ASSUME IInv, Tree, Safe, OneGrant, NEW i \in InUse, Apply(i)
  PROVE  OneGrant'
<1> DEFINE r == Req(i)
           s == At(i)
           e == Applied(i)
           result == By(s, e.result)
<1>1. /\ task[i].pc = "apply" /\ task[i].kind = "op" /\ s \in up /\ s \in Servers
      /\ HandledOK(task[i], Now) /\ task[i].req = r /\ task[i].at = s
      /\ StateOK(state[s]) /\ r \in Requests
  BY InUseOK, WritersOK DEF Apply, Over
<1>2. r.op \in Ops \ Gathers
      /\ (r.op \in {"leave_channel", "send_message"} => r.channel \in DOMAIN state[s].channels)
  BY <1>1, WritersOK DEF PcOK, Routed, Looked, ChannelExists
<1>3. s = PrimaryOf(r) \/ (s = BackupOf(r) /\ PrimaryOf(r) \notin up)
  <2>1. s = PrimaryOf(r) \/ (s = BackupOf(r) /\ ~alive[s][PrimaryOf(r)])
    BY <1>1, NowFields DEF HandledOK, Placed, Owned
  <2>2. PrimaryOf(r) \in Servers
    BY <1>1, OwnersOf DEF PrimaryOf
  <2> QED
    BY <1>1, <2>1, <2>2, MarkedDead
<1>4. result.code = "OK" /\ r.op = "create_user" => ~UserExists(state[s], r.user)
  BY <1>1, <1>2, OpAdds DEF Applied, By
<1>5. \/ Ends(i, Panicked) \/ Ends(i, result)
      \/ result.code = "OK" /\ Turns(i, "replicate", result, task[i].todo)
  BY ApplyForms DEF IInv
<1>6. Panicked.code # "OK"
  BY DEF Panicked, NoResult
<1> HIDE DEF r, s, e, result
<1>7. CASE result.code = "OK" /\ r.op = "create_user"
  <2>1. GrantsOnly(r)
    BY <1>5, <1>6, EndGrants, TurnGrants DEF r
  <2>2. ASSUME NEW q \in Requests, q.op = "create_user", q.user = r.user, Granted(q)
        PROVE  FALSE
    <3>1. PrimaryOf(q) = PrimaryOf(r) /\ BackupOf(q) = BackupOf(r)
      BY <1>7, <2>2, Subjects DEF PrimaryOf, BackupOf
    <3> QED
      BY <1>1, <1>3, <1>4, <1>7, <2>2, <3>1, GrantedKnown
  <2>3. ASSUME NEW a \in Requests, NEW b \in Requests, a.op = "create_user",
               b.op = "create_user", a.user = b.user, Granted(a)', Granted(b)'
        PROVE  a = b
    <3>1. (Granted(a) \/ a = r) /\ (Granted(b) \/ b = r)
      BY <2>1, <2>3 DEF GrantsOnly
    <3> QED
      BY <2>2, <2>3, <3>1 DEF OneGrant
  <2> QED
    BY <2>3 DEF OneGrant
<1>8. CASE ~(result.code = "OK" /\ r.op = "create_user")
  <2>1. \A q : GrantsOnly(q)
    BY <1>5, <1>6, <1>8, EndGrants, TurnGrants DEF r
  <2> QED
    BY <2>1, NoGrants
<1> QED
  BY <1>7, <1>8

LEMMA OneGrantStep ==
  ASSUME IInv, Tree, Safe, OneGrant, [Next]_vars
  PROVE  OneGrant'
<1>1. CASE \E i \in InUse : Apply(i)
  BY <1>1, ApplyGrants
<1>2. CASE ~\E i \in InUse : Apply(i)
  <2>1. \A q : GrantsOnly(q)
    BY <1>2, StepGrants, OtherGrants DEF Next
  <2> QED
    BY <2>1, NoGrants
<1> QED
  BY <1>1, <1>2

\* In every reachable state, at most one registration of a user was granted, told to its
\* client or not yet.
LEMMA OneGrantInvariance == Spec => []OneGrant
<1>1. Init => OneGrant
  <2> SUFFICES ASSUME Init PROVE \A r \in Requests : ~Granted(r)
    BY DEF OneGrant
  <2>1. InUse = {} /\ \A r \in Requests : answer[r].code # "OK"
    BY FreeFields DEF Init, InUse, NoResult
  <2> QED
    BY <2>1 DEF Granted
<1>2. IInv /\ Tree /\ Safe /\ OneGrant /\ [Next]_vars => OneGrant'
  BY OneGrantStep
<1> QED
  BY <1>1, <1>2, Invariance, TreeInvariance, SafeInvariance, PTL DEF Spec

\* A name is registered for at most one client, also across a failover: create_user
\* rejects duplicates.
THEOREM RegisteredOnce == Spec => []RegistrationUnique
<1>1. OneGrant => RegistrationUnique
  <2> SUFFICES ASSUME OneGrant, NEW u \in Users
               PROVE  LET granted == {r \in Requests : /\ r.op = "create_user" /\ r.user = u
                                                       /\ answer[r].code = "OK"}
                      IN Cardinality(granted) <= 1
    BY DEF RegistrationUnique
  <2> DEFINE granted == {r \in Requests : /\ r.op = "create_user" /\ r.user = u
                                          /\ answer[r].code = "OK"}
  <2>1. \A r, q \in granted : r = q
    BY DEF OneGrant, Granted
  <2> HIDE DEF granted
  <2>2. CASE granted = {}
    <3>1. Cardinality(granted) = 0
      BY <2>2, FS_EmptySet, Zenon
    <3>2. Cardinality(granted) <= 1
      BY <3>1
    <3> QED
      BY <3>2 DEF granted
  <2>3. CASE granted # {}
    <3>1. PICK r : granted = {r}
      BY <2>1, <2>3
    <3>2. Cardinality(granted) = 1
      BY <3>1, FS_Singleton, Zenon
    <3>3. Cardinality(granted) <= 1
      BY <3>2
    <3> QED
      BY <3>3 DEF granted
  <2> QED
    BY <2>2, <2>3
<1> QED
  BY <1>1, OneGrantInvariance, PTL

-----------------------------------------------------------------------------
(***************************************************************************)
(* A message is carried out once                                           *)
(***************************************************************************)
\* A handler of r's operation, and where it has written nothing yet.
Runs(i, r) == task[i].req = r /\ task[i].kind = "op"
PreApply == {"route", "check", "exists", "existsForward", "asked", "apply"}

\* The handler that serves the client looks for the primary, and called nobody yet.
Searching(i) ==
  LET p == PrimaryOf(task[i].req)
  IN Top(i) /\ task[i].at # p /\ task[i].child = Client /\ alive[task[i].at][p]

Started(r) == answer[r] # NoResult \/ \E i \in InUse : Top(i) /\ task[i].req = r

\* The primary has not carried r out.
Fresh(r) ==
  \/ ~Started(r)
  \/ \E i \in InUse : /\ Runs(i, r)
                      /\ Searching(i) \/ (task[i].at = PrimaryOf(r) /\ task[i].pc \in PreApply)

\* The primary has crashed, and its answer to r, if it gave one, no longer reaches the client.
CallsOf(c, p) == c # Client /\ task[c].kind = "op" /\ task[c].at = p
Diverted(r) ==
  LET p == PrimaryOf(r)
  IN /\ p \notin up /\ Started(r) /\ ~Acked(r, Now)
     /\ \A i \in InUse : Top(i) /\ task[i].req = r =>
          (~alive[task[i].at][p] /\ ~CallsOf(task[i].child, p))

\* One handler at the primary, the handlers at the backup when the primary is gone.
CourseOK(i, r) ==
  LET x == task[i]
  IN /\ Searching(i) => (\A j \in InUse : task[j].req = r => j = i)
     /\ x.at = PrimaryOf(r) /\ x.pc \notin Over =>
          \A j \in InUse :
            (Runs(j, r) /\ task[j].at = PrimaryOf(r) /\ task[j].pc \notin Over) => j = i
     /\ x.at = BackupOf(r) /\ (~Top(i) \/ x.pc \in Owned) => Diverted(r)
     /\ ~Top(i) /\ x.child # Client /\ task[x.child].kind = "op" =>
          task[x.child].pc = "lost"
     /\ x.pc = "replied" /\ x.result.code = "OK" => x.result.by = x.at

Course(r) == \A i \in InUse : Runs(i, r) => CourseOK(i, r)

\* The primary stores it under one id, and the backup what the primary stored, unless it
\* carried r out itself.
StoredOnce(r) ==
  LET P(k) == Holds(state[PrimaryOf(r)], r.channel, k, r.id)
  IN /\ Fresh(r) => \A k : ~P(k)
     /\ \A k, l : P(k) /\ P(l) => k = l
     /\ \A k : Holds(state[BackupOf(r)], r.channel, k, r.id) => (P(k) \/ Diverted(r))

Once == \A r \in Requests : r.op = "send_message" => Course(r) /\ StoredOnce(r)

\* What a step may do to request r's handlers and to what r has come to.
Onward(r) ==
  /\ Course(r)'
  /\ Fresh(r)' => Fresh(r)
  /\ Diverted(r) => Diverted(r)'

\* A step of others leaves r's operation alone, or ends handlers that their server lost.
Gone(j) == ~Top(j) /\ task'[j].pc = "lost" /\ task'[j].child = Client

Quiet(r) ==
  /\ \A j \in InUse' : task'[j].req = r =>
       /\ j \in InUse /\ task[j].req = r /\ task'[j].kind = task[j].kind
       /\ task'[j].at = task[j].at /\ task'[j].parent = task[j].parent
       /\ task[j].kind = "op" => task'[j] = task[j] \/ Gone(j)
  /\ answer'[r] = answer[r] \/ answer'[r] = Lost
  /\ Started(r) => Started(r)'

LEMMA QuietOnward ==
  ASSUME Tree, Tree', NEW r \in Requests, Course(r), Quiet(r), Later(Now, Now')
  PROVE  Onward(r)
<1> DEFINE p == PrimaryOf(r)
           b == BackupOf(r)
<1>0. /\ p \in Servers /\ up' \subseteq up
      /\ \A s \in Servers : ~alive[s][p] => ~alive'[s][p]
  BY OwnersOf, NowFields DEF Later, PrimaryOf
<1>1. ASSUME NEW j \in InUse', task'[j].req = r
      PROVE  /\ j \in InUse /\ task[j].req = r /\ task'[j].kind = task[j].kind
             /\ task'[j].at = task[j].at /\ task'[j].parent = task[j].parent
             /\ task[j].kind = "op" => task'[j] = task[j] \/ Gone(j)
             /\ Top(j)' <=> Top(j)
             /\ task'[j].at \in Servers
             /\ Top(j) => task[j].kind = "op" /\ task'[j] = task[j]
  BY <1>1 DEF Quiet, Top, Gone, Tree, HandlerOK
<1>2. ASSUME NEW j \in InUse', task'[j].req = r, Searching(j)'
      PROVE  Searching(j) /\ Runs(j, r)
  BY <1>0, <1>1, <1>2 DEF Searching, Runs
<1>3. Fresh(r)' => Fresh(r)
  <2>1. ASSUME NEW j \in InUse', Runs(j, r)', Searching(j)' \/ (task'[j].at = p /\ task'[j].pc \in PreApply)
        PROVE  Fresh(r)
    BY <1>1, <1>2, <2>1 DEF Fresh, Runs, PreApply, Gone
  <2> QED
    BY <2>1 DEF Fresh, Quiet
<1>4. Diverted(r) => Diverted(r)'
  <2> SUFFICES ASSUME Diverted(r) PROVE Diverted(r)'
    OBVIOUS
  <2>1. p \notin up' /\ Started(r)' /\ ~Acked(r, Now')
    BY <1>0, NowFields DEF Diverted, Quiet, Acked, Lost, NoResult
  <2>2. ASSUME NEW j \in InUse', Top(j)', task'[j].req = r
        PROVE  ~alive'[task'[j].at][p] /\ ~CallsOf(task[j].child, p)'
    <3> DEFINE c == task[j].child
    <3>1. /\ task'[j] = task[j] /\ ~alive'[task[j].at][p] /\ ~CallsOf(c, p)
      BY <1>0, <1>1, <2>2 DEF Diverted
    <3>2. c # Client => c \in InUse' /\ task'[c].req = r
      <4>1. CalleeOK(j)'
        BY DEF Tree
      <4> QED
        BY <2>2, <3>1, <4>1 DEF CalleeOK
    <3>3. ~CallsOf(task[j].child, p)'
      BY <1>1, <3>1, <3>2 DEF CallsOf
    <3> QED
      BY <3>1, <3>3
  <2> QED
    BY <2>1, <2>2 DEF Diverted
<1>5. ASSUME NEW j \in InUse', Runs(j, r)' PROVE CourseOK(j, r)'
  <2>1. /\ j \in InUse /\ Runs(j, r) /\ CourseOK(j, r)
        /\ task'[j] = task[j] \/ Gone(j)
    BY <1>1, <1>5 DEF Runs, Course
  <2>2. Searching(j)' => \A k \in InUse' : task'[k].req = r => k = j
    BY <1>1, <1>2, <1>5, <2>1 DEF CourseOK, Runs
  <2>3. task'[j].at = p /\ task'[j].pc \notin Over =>
          \A k \in InUse' :
            (Runs(k, r)' /\ task'[k].at = p /\ task'[k].pc \notin Over) => k = j
    BY <1>1, <2>1 DEF CourseOK, Runs, Gone, Over
  <2>4. task'[j].at = b /\ (~Top(j)' \/ task'[j].pc \in Owned) => Diverted(r)'
    BY <1>1, <1>4, <1>5, <2>1 DEF CourseOK, Runs, Gone
  <2>5. ~Top(j)' /\ task'[j].child # Client /\ task'[task'[j].child].kind = "op" =>
          task'[task'[j].child].pc = "lost"
    <3> SUFFICES ASSUME ~Top(j)', task'[j].child # Client, task'[task'[j].child].kind = "op"
                 PROVE  task'[task'[j].child].pc = "lost"
      OBVIOUS
    <3> DEFINE c == task[j].child
    <3>1. task'[j] = task[j]
      BY <2>1 DEF Gone
    <3>2. c \in InUse' /\ task'[c].req = r
      <4>1. CalleeOK(j)'
        BY DEF Tree
      <4> QED
        BY <1>5, <3>1, <4>1 DEF CalleeOK, Runs
    <3>3. task[c].kind = "op" /\ (task'[c] = task[c] \/ Gone(c))
      BY <1>1, <3>1, <3>2
    <3>4. task[c].pc = "lost"
      BY <1>1, <1>5, <2>1, <3>1, <3>3 DEF CourseOK, Runs
    <3> QED
      BY <3>1, <3>3, <3>4 DEF Gone
  <2>6. task'[j].pc = "replied" /\ task'[j].result.code = "OK" =>
          task'[j].result.by = task'[j].at
    BY <2>1 DEF CourseOK, Gone
  <2> QED
    BY <2>2, <2>3, <2>4, <2>5, <2>6 DEF CourseOK
<1> QED
  BY <1>3, <1>4, <1>5 DEF Onward, Course

\* A handler of a request shows that it has started.
LEMMA InUseStarted ==
  ASSUME Tree, NEW i \in InUse
  PROVE  Started(task[i].req)
<1>1. ClientOK(i)
  BY DEF Tree
<1> QED
  BY <1>1 DEF ClientOK, Started

\* Handler i of r goes on, ends, or asks another server something else; r's other handlers
\* stay.
LEMMA ChangeOnward ==
  ASSUME IInv, Tree, Safe, Tree', NEW i \in InUse, NEW r, Runs(i, r), Course(r),
         task[i].pc \notin Over, UNCHANGED <<alive, up>>, Started(r)',
         \A j \in InUse' \ {i} : Runs(j, r)' => j \in InUse /\ task'[j] = task[j],
         i \in InUse' =>
           /\ task'[i].kind = "op" /\ task'[i].req = r
           /\ task'[i].at = task[i].at /\ task'[i].parent = task[i].parent
           /\ task'[i].child # Client => task'[task'[i].child].kind # "op"
           /\ Searching(i)' => Searching(i) /\ \A j \in InUse' : task'[j].req = r => j = i
           /\ task'[i].at = PrimaryOf(r) /\ task'[i].pc \in PreApply => task[i].pc \in PreApply
           /\ Top(i) /\ task'[i].pc \in Owned =>
                task'[i].at = PrimaryOf(r) \/ ~alive[task'[i].at][PrimaryOf(r)]
           /\ task'[i].pc = "replied" /\ task'[i].result.code = "OK" =>
                task'[i].result.by = task'[i].at,
         Diverted(r) => ~Acked(r, Now'),
         Top(i) /\ i \in InUse' => answer'[r] = NoResult
  PROVE  Onward(r)
<1> DEFINE p == PrimaryOf(r)
           b == BackupOf(r)
<1>0. /\ i \in Slots /\ r \in Requests /\ task[i].req = r /\ task[i].kind = "op"
      /\ task[i].at \in up /\ task[i].at \in Servers
      /\ p \in Servers /\ b \in Servers /\ p # b /\ Started(r)
  BY InUseOK, InUseStarted, WritersOK DEF Runs
<1>1. CourseOK(i, r)
  BY DEF Course
<1>2. ASSUME NEW j \in InUse', Runs(j, r)'
      PROVE  /\ j \in InUse /\ Runs(j, r) /\ task'[j].at = task[j].at
             /\ Top(j)' <=> Top(j)
             /\ Searching(j)' => Searching(j)
             /\ j # i => task'[j] = task[j] /\ ~Searching(j)
  BY <1>0, <1>2 DEF Runs, Top, Searching, Course, CourseOK
<1>3. Fresh(r)' => Fresh(r)
  BY <1>0, <1>2 DEF Fresh, Runs
<1>4. ASSUME NEW j \in InUse', Top(j)', task'[j].req = r
      PROVE  Runs(j, r)' /\ j \in InUse /\ Top(j)
  <2>1. HandlerOK(j)'
    BY DEF Tree
  <2> QED
    BY <1>2, <1>4, <2>1 DEF HandlerOK, Runs
<1>5. ASSUME NEW j \in InUse', Runs(j, r)', task'[j].child # Client,
             task'[task'[j].child].kind = "op"
      PROVE  /\ j # i /\ task'[j] = task[j]
             /\ task[j].child \in InUse' /\ Runs(task[j].child, r)' /\ Runs(task[j].child, r)
             /\ task[j].child # i => task'[task[j].child] = task[task[j].child]
             /\ task'[task[j].child].at = task[task[j].child].at
  <2>1. CalleeOK(j)'
    BY DEF Tree
  <2>2. j # i /\ task'[j] = task[j]
    BY <1>2, <1>5
  <2>3. task[j].child \in InUse' /\ Runs(task[j].child, r)'
    BY <1>5, <2>1, <2>2 DEF CalleeOK, Runs
  <2> QED
    BY <1>2, <2>2, <2>3
<1>6. ASSUME Diverted(r) PROVE Diverted(r)'
  <2>1. p \notin up' /\ ~Acked(r, Now')
    BY <1>6, NowFields DEF Diverted
  <2>2. ASSUME NEW j \in InUse', Top(j)', task'[j].req = r
        PROVE  ~alive'[task'[j].at][p] /\ ~CallsOf(task[j].child, p)'
    <3>1. ~alive[task[j].at][p] /\ ~CallsOf(task[j].child, p)
      BY <1>2, <1>4, <1>6, <2>2 DEF Diverted, Runs
    <3>2. ~CallsOf(task[j].child, p)'
      BY <1>4, <1>5, <2>2, <3>1 DEF CallsOf, Runs
    <3> QED
      BY <1>2, <1>4, <2>2, <3>1, <3>2
  <2> QED
    BY <2>1, <2>2 DEF Diverted
<1>7. ASSUME i \in InUse', Top(i), task[i].at = b, task'[i].pc \in Owned PROVE Diverted(r)'
  <2>1. ~alive[b][p] /\ p \notin up
    BY <1>0, <1>7, MarkedDead
  <2>2. ASSUME NEW j \in InUse', Top(j)', task'[j].req = r PROVE j = i
    BY <1>0, <1>4, <1>7, <2>2 DEF Tree, OneTop, Runs
  <2>3. ~Acked(r, Now')
    BY <1>7, NowFields DEF Acked, NoResult
  <2>4. ~CallsOf(task[i].child, p)'
    BY <1>7 DEF CallsOf
  <2> QED
    BY <1>7, <2>1, <2>2, <2>3, <2>4 DEF Diverted
<1>8. ASSUME NEW j \in InUse', Runs(j, r)' PROVE CourseOK(j, r)'
  <2>0. CourseOK(j, r)
    BY <1>2, <1>8 DEF Course
  <2>1. Searching(j)' => \A k \in InUse' : task'[k].req = r => k = j
    BY <1>2, <1>8
  <2>2. task'[j].at = p /\ task'[j].pc \notin Over =>
          \A k \in InUse' :
            (Runs(k, r)' /\ task'[k].at = p /\ task'[k].pc \notin Over) => k = j
    BY <1>0, <1>1, <1>2, <1>8, <2>0 DEF CourseOK
  <2>3. task'[j].at = b /\ (~Top(j)' \/ task'[j].pc \in Owned) => Diverted(r)'
    BY <1>2, <1>6, <1>7, <1>8, <2>0 DEF CourseOK
  <2>4. ~Top(j)' /\ task'[j].child # Client /\ task'[task'[j].child].kind = "op" =>
          task'[task'[j].child].pc = "lost"
    BY <1>2, <1>5, <1>8, <2>0 DEF CourseOK, Over, Runs
  <2>5. task'[j].pc = "replied" /\ task'[j].result.code = "OK" =>
          task'[j].result.by = task'[j].at
    BY <1>2, <1>8, <2>0 DEF CourseOK
  <2> QED
    BY <2>1, <2>2, <2>3, <2>4, <2>5 DEF CourseOK
<1> QED
  BY <1>3, <1>6, <1>8 DEF Onward, Course

\* Handler i of r forwards the operation: to the primary, which nobody has asked before or
\* which is down, or to the backup, after the primary was marked dead.
LEMMA ForwardsOnward ==
  ASSUME IInv, Tree, Safe, Tree', NEW i \in InUse, NEW r, Runs(i, r), Course(r),
         task[i].pc = "forward", UNCHANGED <<alive, up>>,
         NEW d, NEW to, to = Location(At(i), Owner(Subject(r))), to # At(i), alive[At(i)][to],
         Calls(i, d, "op", to, NoResult, "forwarded")
  PROVE  Onward(r)
<1> DEFINE p == PrimaryOf(r)
           b == BackupOf(r)
           s == task[i].at
           y == Task(task[i], "forwarded", d, task[i].result, task[i].todo)
           z == Callee(i, "op", to, NoResult)
<1>0. /\ i \in Slots /\ r \in Requests /\ task[i].req = r /\ task[i].kind = "op"
      /\ s \in up /\ s \in Servers /\ p \in Servers /\ b \in Servers /\ p # b /\ Started(r)
      /\ task[i].child = Client /\ s # p /\ At(i) = s
      /\ Top(i) \/ (s = b /\ p \notin up)
      /\ Top(i) => answer[r] = NoResult
  <2>1. Over = {"replied", "lost"} /\ Placed(task[i], Now)
    BY InUseOK DEF Over, HandledOK
  <2>2. task[i].child = Client
    BY NoCall
  <2>3. Placed(task[i], Now) => s # p /\ (Top(i) \/ s = p \/ (s = b /\ p \notin up))
    BY NowFields DEF Placed, Serves, Runs, Top, PrimaryOf, BackupOf
  <2> QED
    BY <2>1, <2>2, <2>3, InUseOK, InUseStarted, WritersOK DEF Runs
<1>1. \/ to = p /\ (Searching(i) \/ (~Top(i) /\ p \notin up))
      \/ to = b /\ Top(i) /\ ~alive[s][p] /\ p \notin up
  <2>1. CASE alive[s][p]
    BY <1>0, <2>1 DEF Location, PrimaryOf, Searching
  <2>2. CASE ~alive[s][p]
    BY <1>0, <2>2, MarkedDead DEF Location, PrimaryOf, BackupOf
  <2> QED
    BY <2>1, <2>2
<1>2. /\ y.kind = "op" /\ y.req = r /\ y.at = s /\ y.parent = task[i].parent
      /\ y.pc = "forwarded" /\ y.child = d
  BY <1>0, TaskFields
<1>3. /\ z.kind = "op" /\ z.req = r /\ z.at = to /\ z.parent = i /\ z.child = Client
      /\ z.pc = IF to \notin up THEN "lost" ELSE "route"
  BY <1>0 DEF Callee, Req
<1>4. /\ d \in Slots \ InUse /\ d # i
      /\ task'[i] = y /\ task'[d] = z /\ answer' = answer
      /\ \A j \in InUse' \ {i, d} : j \in InUse /\ task'[j] = task[j]
  BY NextUsed DEF Calls, InUse
<1> HIDE DEF y, z
<1>5. i \in InUse' /\ d \in InUse' /\ i # Client /\ CourseOK(i, r)
  BY <1>0, <1>2, <1>3, <1>4, NextUsed, ClientNoSlot DEF Course
<1>6. /\ Runs(i, r)' /\ Runs(d, r)' /\ (Top(i)' <=> Top(i)) /\ ~Top(d)'
      /\ ~Searching(i)' /\ ~Searching(d)'
  BY <1>0, <1>2, <1>3, <1>4, <1>5, ClientNoSlot DEF Runs, Top, Searching
<1>7. ASSUME NEW j \in InUse' \ {i, d}, task'[j].req = r
      PROVE  /\ j \in InUse /\ task[j].req = r /\ task'[j] = task[j] /\ ~Searching(j)
             /\ ~Searching(j)' /\ (Top(j)' <=> Top(j)) /\ ~Searching(i) /\ (~Top(i) \/ ~Top(j))
  <2>1. /\ j \in InUse /\ task[j].req = r /\ task'[j] = task[j] /\ (Top(j)' <=> Top(j))
        /\ Searching(j)' <=> Searching(j)
    BY <1>4, <1>7 DEF Top, Searching
  <2>2. ~Top(i) \/ ~Top(j)
    BY <1>0, <1>7, <2>1 DEF Tree, OneTop
  <2>3. Top(j) => Runs(j, r)
    <3>1. HandlerOK(j)
      BY <2>1 DEF Tree
    <3> QED
      BY <2>1, <3>1 DEF HandlerOK, Runs
  <2>4. ~Searching(i)
    BY <1>5, <1>7, <2>1 DEF CourseOK
  <2>5. ~Searching(j)
    <3>1. Searching(j) => CourseOK(j, r)
      BY <2>1, <2>3 DEF Searching, Course
    <3> QED
      BY <1>0, <1>7, <3>1 DEF CourseOK
  <2> QED
    BY <2>1, <2>2, <2>4, <2>5
<1>8. ASSUME NEW j \in InUse', Runs(j, r)' PROVE ~Searching(j)'
  BY <1>6, <1>7, <1>8 DEF Runs
<1>9. Started(r)'
  <2>1. ASSUME NEW j \in InUse, Top(j), task[j].req = r
        PROVE  \E k \in InUse' : Top(k)' /\ task'[k].req = r
    <3>1. CASE j = i
      BY <1>5, <1>6, <2>1, <3>1 DEF Runs
    <3>2. CASE j # i
      <4>1. j \in Slots /\ task'[j] = task[j] /\ task[j].pc # "free"
        BY <1>4, <2>1, <3>2 DEF Calls, InUse
      <4> QED
        BY <2>1, <4>1, NextUsed DEF Top
    <3> QED
      BY <3>1, <3>2
  <2> QED
    BY <1>0, <1>4, <2>1 DEF Started
<1>10. Fresh(r)' => Fresh(r)
  <2>1. to = p /\ p \in up => Fresh(r)
    BY <1>0, <1>1 DEF Fresh, Runs
  <2>2. ASSUME NEW j \in InUse', Runs(j, r)', task'[j].at = p, task'[j].pc \in PreApply
        PROVE  Fresh(r)
    BY <1>0, <1>2, <1>3, <1>4, <1>7, <2>1, <2>2 DEF Fresh, Runs, PreApply
  <2> QED
    BY <1>8, <1>9, <2>2 DEF Fresh
<1>11. Diverted(r) \/ to = b => Diverted(r)'
  <2> SUFFICES ASSUME Diverted(r) \/ to = b PROVE Diverted(r)'
    OBVIOUS
  <2>1. p \notin up' /\ ~Acked(r, Now')
    BY <1>0, <1>1, <1>4, NowFields DEF Diverted, Acked, NoResult
  <2>2. ASSUME Top(i) PROVE ~alive[s][p] /\ to # p
    BY <1>0, <1>1, <2>2 DEF Diverted, Searching
  <2>3. ASSUME NEW j \in InUse', Top(j)', task'[j].req = r
        PROVE  ~alive'[task'[j].at][p] /\ ~CallsOf(task[j].child, p)'
    <3>1. CASE j = i
      BY <1>2, <1>3, <1>4, <1>6, <2>2, <2>3, <3>1 DEF CallsOf
    <3>2. CASE j \in InUse' \ {i, d}
      <4>1. Diverted(r) /\ j \in InUse /\ task[j].req = r /\ task'[j] = task[j] /\ Top(j)
        BY <1>0, <1>1, <1>7, <2>3, <3>2
      <4>2. ~alive[task[j].at][p] /\ ~CallsOf(task[j].child, p)
        BY <4>1 DEF Diverted
      <4>3. task[j].child # Client => task[j].child \in InUse
        <5>1. CalleeOK(j)
          BY <4>1 DEF Tree
        <5> QED
          BY <5>1 DEF CalleeOK
      <4>4. task[j].child # Client /\ task'[task[j].child].kind = "op" =>
              /\ task[task[j].child].kind = "op"
              /\ task'[task[j].child].at = task[task[j].child].at
        <5>1. CalleeOK(j)'
          BY <3>2 DEF Tree
        <5> QED
          BY <1>0, <1>2, <1>4, <4>1, <4>3, <5>1 DEF CalleeOK
      <4> QED
        BY <4>1, <4>2, <4>4 DEF CallsOf
    <3> QED
      BY <1>6, <2>3, <3>1, <3>2
  <2> QED
    BY <1>9, <2>1, <2>3 DEF Diverted
<1>12. CourseOK(i, r)'
  <2>1. task'[i].at # p /\ task'[i].pc \notin Owned /\ task'[i].pc # "replied"
    BY <1>0, <1>2, <1>4 DEF Owned
  <2>2. ~Top(i)' => task'[d].pc = "lost"
    BY <1>0, <1>1, <1>3, <1>4, <1>6 DEF Searching
  <2>3. ~Top(i)' => Diverted(r)'
    BY <1>0, <1>5, <1>6, <1>11 DEF CourseOK
  <2> QED
    BY <1>2, <1>4, <1>6, <2>1, <2>2, <2>3 DEF CourseOK
<1>13. CourseOK(d, r)'
  <2>1. ASSUME task'[d].at = p, task'[d].pc \notin Over, NEW k \in InUse', Runs(k, r)', task'[k].at = p
        PROVE  k = d
    BY <1>0, <1>1, <1>2, <1>3, <1>4, <1>7, <2>1 DEF Over, Runs
  <2> QED
    BY <1>3, <1>4, <1>6, <1>11, <2>1 DEF CourseOK
<1>14. ASSUME NEW j \in InUse' \ {i, d}, Runs(j, r)' PROVE CourseOK(j, r)'
  <2>1. j \in InUse /\ CourseOK(j, r) /\ task'[j] = task[j] /\ Runs(j, r) /\ (Top(j)' <=> Top(j))
    BY <1>7, <1>14 DEF Course, Runs
  <2>2. ASSUME task'[j].at = p, task'[j].pc \notin Over, NEW k \in InUse', Runs(k, r)',
               task'[k].at = p, task'[k].pc \notin Over
        PROVE  k = j
    BY <1>0, <1>1, <1>2, <1>3, <1>4, <1>7, <1>14, <2>1, <2>2 DEF CourseOK, Over, Runs
  <2>3. ~Top(j)' /\ task'[j].child # Client /\ task'[task'[j].child].kind = "op" =>
          task'[task'[j].child].pc = "lost"
    <3> SUFFICES ASSUME ~Top(j), task[j].child # Client, task'[task[j].child].kind = "op"
                 PROVE  task'[task[j].child].pc = "lost"
      BY <2>1
    <3>1. CalleeOK(j) /\ CalleeOK(j)'
      BY <1>14, <2>1 DEF Tree
    <3>2. task[j].child \in InUse /\ task[j].child \in InUse'
      BY <2>1, <3>1 DEF CalleeOK
    <3>3. task[j].child # i
      BY <1>0, <2>1 DEF CourseOK
    <3> QED
      BY <1>4, <2>1, <3>2, <3>3 DEF CourseOK
  <2> QED
    BY <1>7, <1>11, <1>14, <2>1, <2>2, <2>3 DEF CourseOK, Runs
<1> QED
  BY <1>6, <1>10, <1>11, <1>12, <1>13, <1>14 DEF Onward, Course

\* A handler that goes on or ends leaves the others as they are, or frees them.
Leaves(i) == \A j \in InUse' \ {i} : j \in InUse /\ task'[j] = task[j]

LEMMA FormLeaves ==
  ASSUME IInv, Tree, NEW i \in InUse
  PROVE  /\ \A pc, result, todo : Turns(i, pc, result, todo) =>
              Leaves(i) /\ task'[i] = Task(task[i], pc, Client, result, todo) /\ answer' = answer
         /\ \A result : Ends(i, result) => Leaves(i) /\ task'[i] = Ending(i, result)
<1>1. i \in Slots
  BY Used DEF IInv
<1>2. ASSUME NEW y, Becomes(i, y) PROVE Leaves(i) /\ task'[i] = y
  <2>1. ASSUME NEW j \in InUse', j # i PROVE task'[j] = task[j] /\ j \in InUse
    BY <1>2, <2>1, NextUsed, FreeFields DEF Becomes, InUse
  <2> QED
    BY <1>1, <1>2, <2>1 DEF Leaves, Becomes
<1> QED
  BY <1>2 DEF Turns, Ends

\* A handler of r that goes on without waiting.
LEMMA TurnOnward ==
  ASSUME IInv, Tree, Safe, Tree', Safe', NEW i \in InUse, NEW r, Runs(i, r), Course(r),
         NEW pc, NEW result, NEW todo, Turns(i, pc, result, todo), UNCHANGED <<alive, up>>,
         task[i].pc \notin Over, pc \notin Over \cup {"free"},
         pc \in PreApply => task[i].pc \in PreApply \/ At(i) # PrimaryOf(r),
         task[i].child = Client \/ At(i) = PrimaryOf(r) \/ ~alive[At(i)][PrimaryOf(r)]
  PROVE  Onward(r)
<1> DEFINE p == PrimaryOf(r)
           y == Task(task[i], pc, Client, result, todo)
<1>0. /\ i \in Slots /\ r \in Requests /\ task[i].req = r /\ At(i) = task[i].at
      /\ task[i].kind = "op" /\ (Top(i) => answer[r] = NoResult)
  BY InUseOK DEF Runs
<1>1. /\ task'[i] = y /\ answer' = answer
      /\ \A j \in InUse' \ {i} : j \in InUse /\ task'[j] = task[j]
  BY FormLeaves DEF Leaves
<1>2. /\ y.kind = "op" /\ y.req = r /\ y.at = At(i) /\ y.parent = task[i].parent
      /\ y.pc = pc /\ y.child = Client
  BY <1>0, TaskFields
<1> HIDE DEF y
<1>3. i \in InUse' /\ Started(r)'
  <2>1. i \in InUse'
    BY <1>0, <1>1, <1>2, NextUsed
  <2>2. ClientOK(i)'
    BY <2>1 DEF Tree
  <2> QED
    BY <1>1, <1>2, <2>1, <2>2 DEF ClientOK, Started
<1>4. Searching(i)' => Searching(i)
  BY <1>0, <1>1, <1>2 DEF Searching, Top
<1>5. Searching(i)' => \A j \in InUse' : task'[j].req = r => j = i
  BY <1>0, <1>1, <1>4 DEF Course, CourseOK
<1>6. task'[i].pc \in Owned => task'[i].at = p \/ ~alive[task'[i].at][p]
  <2>1. HandledOK(task'[i], Now')
    BY <1>3 DEF Safe
  <2>2. Placed(y, Now')
    BY <1>1, <2>1 DEF HandledOK
  <2> QED
    BY <1>0, <1>1, <1>2, <2>2, NowFields DEF Placed
<1>7. Diverted(r) => ~Acked(r, Now')
  BY <1>1, NowFields DEF Diverted, Acked
<1>8. pc # "replied"
  BY DEF Over
<1> QED
  BY <1>0, <1>1, <1>2, <1>3, <1>4, <1>5, <1>6, <1>7, <1>8, ChangeOnward

\* A handler of r that ends. What it says was done here, or where the client's handler
\* had forwarded the operation.
LEMMA EndOnward ==
  ASSUME IInv, Tree, Safe, Tree', Safe', NEW i \in InUse, NEW r, Runs(i, r), Course(r),
         NEW result, Ends(i, result), UNCHANGED <<alive, up>>,
         task[i].pc \notin Over, result.code # "NONE",
         result.code = "OK" =>
           \/ result.by = At(i)
           \/ Top(i) /\ \E q : result.by = q /\ CallsOf(task[i].child, q)
  PROVE  Onward(r)
<1> DEFINE p == PrimaryOf(r)
           y == Ending(i, result)
<1>0. /\ i \in Slots /\ r \in Requests /\ task[i].req = r /\ At(i) = task[i].at
      /\ task[i].kind = "op" /\ At(i) \in up /\ DOMAIN answer = Requests
  BY InUseOK DEF Runs, Tree
<1>1. /\ task'[i] = y
      /\ \A j \in InUse' \ {i} : j \in InUse /\ task'[j] = task[j]
      /\ answer' = IF Top(i) THEN [answer EXCEPT ![r] = result] ELSE answer
  BY <1>0, FormLeaves DEF Leaves, Ends, Req
<1>2. i \in InUse' =>
        /\ ~Top(i) /\ y.kind = "op" /\ y.req = r /\ y.at = At(i) /\ y.parent = task[i].parent
        /\ y.pc \in Over /\ y.child = Client
        /\ y.pc = "replied" => y.result = result
  <2>1. i \in InUse' => y # Free
    BY <1>1, NextUsed, FreeFields
  <2>2. Awaited(i) => ~Top(i)
    BY DEF Awaited, Top
  <2> QED
    BY <1>0, <2>1, <2>2, TaskFields DEF Ending, Over
<1> HIDE DEF y
<1>3. Started(r)'
  <2>1. CASE Top(i)
    BY <1>0, <1>1, <2>1 DEF Started, NoResult
  <2>2. CASE ~Top(i)
    <3>1. Started(r)
      BY <1>0, InUseStarted
    <3>2. ASSUME NEW j \in InUse, Top(j), task[j].req = r
          PROVE  j \in InUse' /\ Top(j)' /\ task'[j].req = r
      <4>1. j # i /\ j # task[i].child /\ j \in Slots /\ task[j].pc # "free"
        BY <2>2, <3>2, TopNoCallee, Used DEF IInv
      <4>2. task'[j] = task[j]
        BY <4>1 DEF Ends, Becomes
      <4> QED
        BY <3>2, <4>1, <4>2, NextUsed DEF Top
    <3> QED
      BY <1>1, <2>2, <3>1, <3>2 DEF Started
  <2> QED
    BY <2>1, <2>2
<1>4. Diverted(r) => ~Acked(r, Now')
  <2>1. CASE Top(i)
    <3> SUFFICES ASSUME Diverted(r), result.code = "OK", result.by = p PROVE FALSE
      BY <1>0, <1>1, <2>1, NowFields DEF Acked
    <3>1. p \notin up /\ ~CallsOf(task[i].child, p)
      BY <1>0, <2>1 DEF Diverted
    <3> QED
      BY <1>0, <3>1
  <2>2. CASE ~Top(i)
    BY <1>1, <2>2, NowFields DEF Diverted, Acked
  <2> QED
    BY <2>1, <2>2
<1>5. i \in InUse' =>
        /\ ~Searching(i)' /\ task'[i].pc \notin PreApply \cup Owned
        /\ task'[i].pc = "replied" /\ task'[i].result.code = "OK" =>
             task'[i].result.by = task'[i].at
  BY <1>1, <1>2 DEF Searching, Top, PreApply, Owned, Over
<1> QED
  BY <1>0, <1>1, <1>2, <1>3, <1>4, <1>5, ChangeOnward

\* A handler of r that asks another server for something else.
LEMMA AskOnward ==
  ASSUME IInv, Tree, Safe, Tree', Safe', NEW i \in InUse, NEW r, Runs(i, r), Course(r),
         NEW kind, NEW to, NEW result, NEW pc, Asks(i, kind, to, result, pc), kind # "op",
         UNCHANGED <<alive, up>>, task[i].pc \notin Over, task[i].child = Client,
         pc \in Owned, pc \in PreApply => task[i].pc \in PreApply
  PROVE  Onward(r)
<1> DEFINE p == PrimaryOf(r)
<1>0. /\ i \in Slots /\ r \in Requests /\ task[i].req = r /\ At(i) = task[i].at
      /\ task[i].kind = "op" /\ (Top(i) => answer[r] = NoResult)
  BY InUseOK DEF Runs
<1>1. CASE \E d : Calls(i, d, kind, to, result, pc)
  <2>1. PICK d : Calls(i, d, kind, to, result, pc)
    BY <1>1
  <2> DEFINE y == Task(task[i], pc, d, task[i].result, task[i].todo)
  <2>2. /\ task'[i] = y /\ answer' = answer /\ task'[d].kind = kind
        /\ \A j \in InUse' \ {i, d} : j \in InUse /\ task'[j] = task[j]
        /\ d \in Slots /\ d # Client /\ d # i
    BY <2>1, NextUsed, ClientNoSlot DEF Calls, InUse, Callee
  <2>3. /\ y.kind = "op" /\ y.req = r /\ y.at = At(i) /\ y.parent = task[i].parent
        /\ y.pc = pc /\ y.child = d
    BY <1>0, TaskFields
  <2> HIDE DEF y
  <2>4. i \in InUse' /\ Started(r)'
    <3>1. i \in InUse'
      BY <1>0, <2>2, <2>3, NextUsed DEF Owned
    <3>2. ClientOK(i)'
      BY <3>1 DEF Tree
    <3> QED
      BY <2>2, <2>3, <3>1, <3>2 DEF ClientOK, Started
  <2>5. task'[i].at = p \/ ~alive[task'[i].at][p]
    <3>1. HandledOK(task'[i], Now')
      BY <2>4 DEF Safe
    <3>2. Placed(y, Now')
      BY <2>2, <3>1 DEF HandledOK
    <3> QED
      BY <1>0, <2>2, <2>3, <3>2, NowFields DEF Placed
  <2>6. Diverted(r) => ~Acked(r, Now')
    BY <2>2, NowFields DEF Diverted, Acked
  <2>7. ~Searching(i)' /\ pc # "replied"
    BY <2>2, <2>3 DEF Searching, Owned
  <2>8. \A j \in InUse' \ {i} : Runs(j, r)' => j \in InUse /\ task'[j] = task[j]
    BY <2>2 DEF Runs
  <2> QED
    BY <1>0, <2>2, <2>3, <2>4, <2>5, <2>6, <2>7, <2>8, ChangeOnward
<1>2. CASE Turns(i, pc, task[i].result, task[i].todo)
  <2>1. pc \notin Over \cup {"free"}
    BY DEF Over, Owned
  <2> QED
    BY <1>2, <2>1, TurnOnward
<1> QED
  BY <1>1, <1>2 DEF Asks

\* A step of a handler of r, which sends a message.
LEMMA RunsOnward ==
  ASSUME IInv, Tree, Safe, Tree', Safe', NEW i \in InUse, NEW r, r.op = "send_message",
         Runs(i, r), Course(r), Step(i) \/ Disconnect(i)
  PROVE  Onward(r)
<1> DEFINE p == PrimaryOf(r)
<1>0. /\ TasksOK(task, state) /\ i \in Slots /\ task[i].req = r /\ Req(i) = r /\ At(i) = task[i].at
      /\ r.op \notin Gathers /\ r.op \in Writes /\ task[i].kind = "op"
      /\ HandledOK(task[i], Now) /\ OwnerOf(i) = Owner(Subject(r))
  BY InUseOK DEF IInv, Runs, Gathers, Writes, OwnerOf
<1>1. /\ Panicked.code = "PANIC" /\ NoChannel.code = "UNKNOWN_CHANNEL"
      /\ NoUser.code = "UNKNOWN_USER" /\ Lost.code = "LOST"
  BY DEF Panicked, NoChannel, NoUser, Lost, NoResult
<1>2. Over = {"replied", "lost"}
  BY DEF Over
<1>3. task[i].pc \in Owned => At(i) = p \/ ~alive[At(i)][p]
  BY <1>0, NowFields DEF HandledOK, Placed
<1>4. ASSUME NEW result, Ends(i, result), result.code \notin {"NONE", "OK"},
             UNCHANGED <<alive, up>>, task[i].pc \notin Over
      PROVE  Onward(r)
  BY <1>4, EndOnward
<1>5. CASE Route(i)
  <2>1. Routes(i) \in {"forward", "apply", "exists", "check"}
    BY DEF Routes
  <2>2. Turns(i, Routes(i), task[i].result, task[i].todo)
    BY <1>0, <1>5, ForwardForms
  <2>3. task[i].pc = "route" /\ UNCHANGED <<alive, up>> /\ task[i].child = Client
    BY <1>5, NoCall DEF Route
  <2> HIDE DEF Routes
  <2>4. Routes(i) \notin Over \cup {"free"} /\ task[i].pc \in PreApply /\ task[i].pc \notin Over
    BY <1>2, <2>1, <2>3 DEF PreApply
  <2> QED
    BY <2>2, <2>3, <2>4, TurnOnward
<1>6. CASE Forward(i)
  <2> DEFINE to == Location(At(i), OwnerOf(i))
  <2>1. /\ task[i].pc = "forward" /\ UNCHANGED <<alive, up>> /\ task[i].pc \notin Over
        /\ task[i].child = Client
    BY <1>2, <1>6, NoCall DEF Forward
  <2>2. IF to = At(i) THEN Ends(i, Panicked)
        ELSE Asks(i, "op", to, NoResult, "forwarded")
    BY <1>0, <1>6, ForwardForms
  <2> HIDE DEF to
  <2>3. CASE to = At(i)
    BY <1>1, <1>4, <2>1, <2>2, <2>3
  <2>4. CASE to # At(i) /\ ~alive[At(i)][to]
    <3>1. Turns(i, "forwarded", task[i].result, task[i].todo)
      BY <2>2, <2>4 DEF Asks
    <3>2. "forwarded" \notin PreApply /\ "forwarded" \notin Over \cup {"free"}
      BY DEF PreApply, Over
    <3> QED
      BY <2>1, <3>1, <3>2, TurnOnward
  <2>5. CASE to # At(i) /\ alive[At(i)][to]
    <3>1. PICK d : Calls(i, d, "op", to, NoResult, "forwarded")
      BY <2>2, <2>5 DEF Asks
    <3> QED
      BY <1>0, <2>1, <2>5, <3>1, ForwardsOnward DEF to
  <2> QED
    BY <2>3, <2>4, <2>5
<1>7. CASE ForwardAnswered(i)
  <2> DEFINE c == task[i].child
  <2>1. /\ Ends(i, Answer(i)) /\ Answered(i, "forwarded") /\ UNCHANGED <<alive, up>>
        /\ task[i].pc \notin Over
    BY <1>0, <1>2, <1>7, ForwardForms DEF ForwardAnswered, Answered
  <2>2. /\ c \in InUse /\ task[c].pc = "replied" /\ task[c].req = r /\ task[c].kind = "op"
        /\ Answer(i) = task[c].result /\ Answer(i).code # "NONE" /\ c # Client
    BY <1>0, <2>1, AnswerForm DEF Waits, Answered
  <2>3. CourseOK(i, r) /\ CourseOK(c, r)
    BY <1>0, <2>2 DEF Course, Runs
  <2>4. Top(i)
    BY <2>2, <2>3 DEF CourseOK
  <2>5. Answer(i).code = "OK" => Answer(i).by = task[c].at /\ CallsOf(c, task[c].at)
    BY <2>2, <2>3 DEF CourseOK, CallsOf
  <2> QED
    BY <2>1, <2>2, <2>4, <2>5, EndOnward
<1>8. CASE ForwardRetries(i)
  <2> DEFINE c == task[i].child
  <2>1. /\ Turns(i, "route", task[i].result, task[i].todo) /\ Unavailable(i, "forwarded")
        /\ UNCHANGED <<alive, up>>
    BY <1>0, <1>8, ForwardForms DEF ForwardRetries
  <2>2. task[i].pc = "forwarded" /\ At(i) # p
    BY <1>0, <2>1, NowFields DEF Unavailable, HandledOK, Placed
  <2>3. c = Client \/ ~alive[At(i)][p]
    <3> SUFFICES ASSUME c # Client PROVE ~alive[At(i)][p]
      OBVIOUS
    <3>1. CalleeOK(i)
      BY DEF Tree
    <3>2. /\ c \in InUse /\ task[c].parent = i /\ task[c].req = r /\ task[c].from = At(i)
          /\ task[c].kind = "op"
      BY <1>0, <2>2, <3>1 DEF CalleeOK, Waits
    <3>3. Placed(task[c], Now) /\ i # Client
      BY <1>0, <3>2, InUseOK, ClientNoSlot DEF HandledOK
    <3>4. task[c].at = p \/ ~alive[At(i)][p]
      BY <3>2, <3>3, NowFields DEF Placed
    <3>5. ~alive[At(i)][task[c].at]
      BY <1>0, <2>1 DEF Unavailable
    <3> QED
      BY <3>4, <3>5
  <2>4. task[i].pc \notin Over /\ "route" \notin Over \cup {"free"}
    BY <1>2, <2>2
  <2> QED
    BY <2>1, <2>2, <2>3, <2>4, TurnOnward
<1>9. CASE \/ CheckChannel(i) \/ ExistsHere(i) \/ ExistsElsewhere(i) \/ ExistsForward(i)
           \/ ExistsAnswered(i) \/ ExistsRetries(i)
  <2>1. /\ task[i].pc \in {"check", "exists", "existsForward", "asked"}
        /\ UNCHANGED <<alive, up>>
    BY <1>9 DEF CheckChannel, ExistsHere, ExistsElsewhere, ExistsForward, ExistsAnswered,
                ExistsRetries, Answered, Unavailable
  <2>2. task[i].pc \in PreApply /\ task[i].pc \notin Over /\ (At(i) = p \/ ~alive[At(i)][p])
    BY <1>2, <1>3, <2>1 DEF PreApply, Owned
  <2>3. ASSUME NEW pc \in {"exists", "existsForward", "apply"},
               Turns(i, pc, task[i].result, task[i].todo)
        PROVE  Onward(r)
    <3>1. pc \notin Over \cup {"free"}
      BY <1>2, <2>3
    <3> QED
      BY <2>1, <2>2, <2>3, <3>1, TurnOnward
  <2>4. CASE ExistsForward(i)
    <3> DEFINE to == Location(At(i), Owner(Req(i).user))
    <3>1. Ends(i, Panicked) \/ Asks(i, "exists", to, NoResult, "asked")
      BY <1>0, <2>4, ExistsForms
    <3>2. task[i].child = Client /\ "asked" \in Owned
      BY <2>4, NoCall DEF ExistsForward, Owned
    <3> HIDE DEF to
    <3> QED
      BY <1>1, <1>4, <2>1, <2>2, <3>1, <3>2, AskOnward
  <2>5. CASE ExistsAnswered(i)
    <3>1. \/ Turns(i, "apply", task[i].result, task[i].todo)
          \/ Answer(i).code # "OK" /\ Ends(i, Answer(i))
      BY <1>0, <2>5, ExistsForms
    <3>2. Answer(i).code # "NONE"
      BY <1>0, <2>5, AnswerForm DEF ExistsAnswered
    <3> QED
      BY <1>4, <2>1, <2>2, <2>3, <3>1, <3>2
  <2> QED
    BY <1>0, <1>1, <1>4, <1>9, <2>1, <2>2, <2>3, <2>4, <2>5, ExistsForms
<1>10. CASE Apply(i)
  <2> DEFINE result == By(At(i), Applied(i).result)
  <2>1. /\ task[i].pc = "apply" /\ UNCHANGED <<alive, up>> /\ task[i].pc \notin Over
        /\ task[i].child = Client
    BY <1>2, <1>10, NoCall DEF Apply
  <2>2. \/ Ends(i, Panicked)
        \/ result.code = "OK" /\ Turns(i, "replicate", result, task[i].todo)
        \/ result.code # "OK" /\ Ends(i, result)
    BY <1>0, <1>10, ApplyForms
  <2>3. result.code # "NONE"
    BY <1>0, OpCodes DEF Applied, By, Ops
  <2> HIDE DEF result
  <2>4. "replicate" \notin PreApply \cup Over \cup {"free"}
    BY DEF PreApply, Over
  <2> QED
    BY <1>1, <1>4, <2>1, <2>2, <2>3, <2>4, TurnOnward
<1>11. CASE Replicate(i) \/ ReplicateAnswered(i) \/ ReplicateUnavailable(i)
  <2>1. /\ task[i].pc \in {"replicate", "replicating"} /\ UNCHANGED <<alive, up>>
    BY <1>11 DEF Replicate, ReplicateAnswered, ReplicateUnavailable, Answered, Unavailable
  <2>2. /\ task[i].pc \notin Over /\ task[i].result.by = At(i) /\ task[i].result.code = "OK"
    BY <1>0, <1>2, <2>1, Working DEF HandledOK, Promised, StandsOK
  <2>3. CASE ReplicateAnswered(i)
    <3>1. Ends(i, By(At(i), Answer(i))) /\ Answer(i).code # "NONE"
      BY <1>0, <2>3, ReplicateForms, AnswerForm DEF ReplicateAnswered
    <3>2. By(At(i), Answer(i)).by = At(i) /\ By(At(i), Answer(i)).code = Answer(i).code
      BY DEF By
    <3> QED
      BY <2>1, <2>2, <3>1, <3>2, EndOnward
  <2>4. CASE Ends(i, task[i].result)
    BY <2>1, <2>2, <2>4, EndOnward
  <2>5. CASE Replicate(i)
    <3> DEFINE to == OwnerOf(i).backup
    <3>1. Ends(i, task[i].result) \/ Asks(i, "replicate", to, task[i].result, "replicating")
      BY <1>0, <2>5, ReplicateForms
    <3>2. task[i].child = Client /\ "replicating" \in Owned /\ "replicating" \notin PreApply
      BY <2>5, NoCall DEF Replicate, Owned, PreApply
    <3> HIDE DEF to
    <3> QED
      BY <2>1, <2>2, <2>4, <3>1, <3>2, AskOnward
  <2> QED
    BY <1>0, <1>11, <2>3, <2>4, <2>5, ReplicateForms
<1>12. CASE Gather(i) \/ GatherNext(i) \/ Gathered(i) \/ GatherSkips(i) \/ GatherEnds(i)
  <2>1. Req(i).op \in Gathers \/ task[i].pc \in {"gather", "gathering"}
    <3>1. CASE Gather(i)
      BY <3>1 DEF Gather
    <3>2. CASE GatherNext(i) \/ GatherEnds(i)
      BY <3>2 DEF GatherNext, GatherEnds
    <3>3. CASE Gathered(i) \/ GatherSkips(i)
      BY <3>3 DEF Gathered, GatherSkips, Answered, Unavailable
    <3> QED
      BY <1>12, <3>1, <3>2, <3>3
  <2> QED
    BY <1>0, <2>1, Working DEF StandsOK
<1>13. CASE ServeExists(i) \/ ServeNames(i) \/ ServeReplicate(i)
  BY <1>0, <1>13 DEF ServeExists, ServeNames, ServeReplicate
<1>14. CASE Disconnect(i)
  <2>1. /\ Top(i) /\ Becomes(i, Free) /\ answer' = [answer EXCEPT ![Req(i)] = Lost]
        /\ UNCHANGED <<alive, up>>
    BY <1>0, <1>14, DisconnectForm
  <2>2. ~Awaited(i) /\ task[i].pc \notin Over
    BY <1>2, <1>14, <2>1 DEF Top, Awaited, Disconnect
  <2>3. Ends(i, Lost)
    BY <2>1, <2>2 DEF Ends, Ending
  <2> QED
    BY <1>1, <1>4, <2>1, <2>2, <2>3
<1> QED
  BY <1>5, <1>6, <1>7, <1>8, <1>9, <1>10, <1>11, <1>12, <1>13, <1>14 DEF Step

\* A handler of another request, or one that does not carry r out, leaves r's handlers alone.
LEMMA BecomesQuiet ==
  ASSUME IInv, Tree, NEW i \in InUse, NEW r \in Requests, ~Runs(i, r), NEW y, Becomes(i, y),
         \/ y = Free
         \/ /\ y.kind = task[i].kind /\ y.req = task[i].req /\ y.at = task[i].at
            /\ y.parent = task[i].parent,
         answer'[r] = answer[r]
  PROVE  Quiet(r)
<1>0. TasksOK(task, state) /\ i \in Slots /\ HandlerOK(i) /\ task'[i] = y
  BY Used DEF IInv, Tree, Becomes
<1>1. ASSUME NEW j \in InUse', task'[j].req = r
      PROVE  /\ j \in InUse /\ task[j].req = r /\ task'[j].kind = task[j].kind
             /\ task'[j].at = task[j].at /\ task'[j].parent = task[j].parent
             /\ task[j].kind = "op" => task'[j] = task[j]
  <2>1. j \in Slots /\ task'[j].pc # "free"
    BY NextUsed
  <2>2. CASE j = i
    BY <1>0, <1>1, <2>1, <2>2, FreeFields DEF Runs
  <2>3. CASE j # i
    BY <1>1, <2>1, <2>3, FreeFields DEF Becomes, InUse
  <2> QED
    BY <2>2, <2>3
<1>2. ASSUME NEW j \in InUse, Top(j), task[j].req = r
      PROVE  j \in InUse' /\ Top(j)' /\ task'[j].req = r
  <2>1. HandlerOK(j) /\ j # task[i].child /\ j \in Slots /\ task[j].pc # "free"
    BY <1>0, <1>2, TopNoCallee, Used DEF Tree
  <2>2. j # i
    BY <1>2, <2>1 DEF HandlerOK, Runs
  <2>3. task'[j] = task[j]
    BY <2>1, <2>2 DEF Becomes
  <2> QED
    BY <1>2, <2>1, <2>3, NextUsed DEF Top
<1>3. Started(r) => Started(r)'
  BY <1>2 DEF Started
<1> QED
  BY <1>1, <1>3 DEF Quiet

LEMMA CallsQuiet ==
  ASSUME IInv, Tree, NEW i \in InUse, NEW r \in Requests, Req(i) # r,
         NEW d, NEW kind, NEW to, NEW result, NEW pc, Calls(i, d, kind, to, result, pc)
  PROVE  Quiet(r)
<1>0. TasksOK(task, state) /\ i \in Slots /\ task[i].req # r
  BY Used DEF IInv, Req
<1>1. /\ task'[i] = Task(task[i], pc, d, task[i].result, task[i].todo)
      /\ task'[d].req # r /\ d \notin InUse
      /\ \A j \in Slots \ {i, d} : task'[j] = task[j]
      /\ answer' = answer
  BY <1>0 DEF Calls, Callee, Req
<1>2. task'[i].req # r
  BY <1>0, <1>1, TaskFields
<1>3. ASSUME NEW j \in InUse', task'[j].req = r PROVE j \in InUse /\ task'[j] = task[j]
  BY <1>1, <1>2, <1>3, NextUsed DEF InUse
<1>4. ASSUME NEW j \in InUse, Top(j), task[j].req = r
      PROVE  j \in InUse' /\ Top(j)' /\ task'[j].req = r
  <2>1. j \in Slots \ {i, d} /\ task[j].pc # "free"
    BY <1>0, <1>1, <1>4, Used
  <2> QED
    BY <1>1, <1>4, <2>1, NextUsed DEF Top
<1>5. Started(r) => Started(r)'
  BY <1>1, <1>4 DEF Started
<1> QED
  BY <1>1, <1>3, <1>5 DEF Quiet

\* What a step of a handler is.
LEMMA StepForms ==
  ASSUME IInv, Tree, NEW i \in InUse, Step(i) \/ Disconnect(i)
  PROVE  \/ \E pc, result, todo : Turns(i, pc, result, todo) /\ task[i].kind = "op"
         \/ \E result : Ends(i, result)
         \/ \E kind, to, result, pc : Asks(i, kind, to, result, pc) /\ task[i].kind = "op"
<1>0. TasksOK(task, state) /\ (task[i].pc \notin Over \cup {"start"} => task[i].kind = "op")
  BY InUseOK, Working DEF IInv
<1>1. CASE ServeExists(i) \/ ServeNames(i) \/ ServeReplicate(i)
  BY <1>0, <1>1, ServeForms
<1>2. CASE Disconnect(i)
  <2>1. Top(i) /\ Becomes(i, Free) /\ answer' = [answer EXCEPT ![Req(i)] = Lost]
    BY <1>0, <1>2, DisconnectForm
  <2>2. ~Awaited(i)
    BY <2>1 DEF Top, Awaited
  <2>3. Ends(i, Lost)
    BY <2>1, <2>2 DEF Ends, Ending
  <2> QED
    BY <2>3
<1>3. CASE Route(i) \/ Forward(i) \/ ForwardAnswered(i) \/ ForwardRetries(i)
  <2>1. task[i].kind = "op"
    BY <1>0, <1>3 DEF Route, Forward, ForwardAnswered, ForwardRetries, Answered, Unavailable, Over
  <2> QED
    BY <1>0, <1>3, <2>1, ForwardForms
<1>4. CASE \/ CheckChannel(i) \/ ExistsHere(i) \/ ExistsElsewhere(i) \/ ExistsForward(i)
           \/ ExistsAnswered(i) \/ ExistsRetries(i)
  <2>1. task[i].kind = "op"
    BY <1>0, <1>4 DEF CheckChannel, ExistsHere, ExistsElsewhere, ExistsForward, ExistsAnswered,
                      ExistsRetries, Answered, Unavailable, Over
  <2> QED
    BY <1>0, <1>4, <2>1, ExistsForms
<1>5. CASE Apply(i)
  <2>1. task[i].kind = "op"
    BY <1>0, <1>5 DEF Apply, Over
  <2> QED
    BY <1>0, <1>5, <2>1, ApplyForms
<1>6. CASE Replicate(i) \/ ReplicateAnswered(i) \/ ReplicateUnavailable(i)
  <2>1. task[i].kind = "op"
    BY <1>0, <1>6 DEF Replicate, ReplicateAnswered, ReplicateUnavailable, Answered, Unavailable,
                      Over
  <2> QED
    BY <1>0, <1>6, <2>1, ReplicateForms
<1>7. CASE Gather(i) \/ GatherNext(i) \/ Gathered(i) \/ GatherSkips(i) \/ GatherEnds(i)
  <2>1. task[i].kind = "op"
    <3>1. CASE Gather(i)
      BY <1>0, <3>1 DEF Gather, Over
    <3>2. CASE GatherNext(i) \/ GatherEnds(i)
      BY <1>0, <3>2 DEF GatherNext, GatherEnds, Over
    <3>3. CASE Gathered(i) \/ GatherSkips(i)
      BY <1>0, <3>3 DEF Gathered, GatherSkips, Answered, Unavailable, Over
    <3> QED
      BY <1>7, <3>1, <3>2, <3>3
  <2> QED
    BY <1>0, <1>7, <2>1, GatherForms
<1> QED
  BY <1>1, <1>2, <1>3, <1>4, <1>5, <1>6, <1>7 DEF Step

LEMMA StepQuiet ==
  ASSUME IInv, Tree, NEW i \in InUse, NEW r \in Requests, ~Runs(i, r), Step(i) \/ Disconnect(i)
  PROVE  Quiet(r)
<1>0. TasksOK(task, state) /\ HandlerOK(i) /\ Req(i) = task[i].req /\ DOMAIN answer = Requests
  BY DEF IInv, Tree, Req
<1>1. ASSUME NEW pc, NEW result, NEW todo, Turns(i, pc, result, todo) PROVE Quiet(r)
  <2> DEFINE y == Task(task[i], pc, Client, result, todo)
  <2>1. /\ y.kind = task[i].kind /\ y.req = task[i].req /\ y.at = task[i].at
        /\ y.parent = task[i].parent
    BY TaskFields
  <2>2. Becomes(i, y) /\ answer' = answer
    BY <1>1 DEF Turns
  <2> HIDE DEF y
  <2> QED
    BY <2>1, <2>2, BecomesQuiet
<1>2. ASSUME NEW result, Ends(i, result) PROVE Quiet(r)
  <2> DEFINE y == Ending(i, result)
  <2>1. \/ y = Free
        \/ /\ y.kind = task[i].kind /\ y.req = task[i].req /\ y.at = task[i].at
           /\ y.parent = task[i].parent
    BY TaskFields DEF Ending
  <2>2. Becomes(i, y) /\ answer'[r] = answer[r]
    BY <1>0, <1>2 DEF Ends, HandlerOK, Runs
  <2> HIDE DEF y
  <2> QED
    BY <2>1, <2>2, BecomesQuiet
<1>3. ASSUME NEW kind, NEW to, NEW result, NEW pc, Asks(i, kind, to, result, pc),
             task[i].kind = "op"
      PROVE  Quiet(r)
  <2>1. Req(i) # r
    BY <1>0, <1>3 DEF Runs
  <2> QED
    BY <1>1, <1>3, <2>1, CallsQuiet DEF Asks
<1> QED
  BY <1>1, <1>2, <1>3, StepForms

LEMMA FailureQuiet ==
  ASSUME IInv, Tree, NEW r \in Requests,
         \/ \E s \in Servers : Crash(s)
         \/ \E s, t \in Servers : MarkDead(s, t)
         \/ UNCHANGED vars
  PROVE  Quiet(r)
<1>1. ASSUME NEW s \in Servers, Crash(s) PROVE Quiet(r)
  <2>0. TasksOK(task, state)
    BY DEF IInv
  <2>1. ASSUME NEW j \in InUse', task'[j].req = r
        PROVE  /\ j \in InUse /\ task[j].req = r /\ task'[j].kind = task[j].kind
               /\ task'[j].at = task[j].at /\ task'[j].parent = task[j].parent
               /\ task'[j] = task[j] \/ Gone(j)
    BY <1>1, <2>0, <2>1, CrashLeaves DEF Gone
  <2>2. answer'[r] = IF \E i \in InUse : task[i].req = r /\ Top(i) /\ task[i].at = s
                     THEN Lost ELSE answer[r]
    BY <1>1, <2>0, CrashForm
  <2>3. Lost # NoResult
    BY DEF Lost, NoResult
  <2>4. ASSUME NEW j \in InUse, Top(j), task[j].req = r, task[j].at # s
        PROVE  j \in InUse' /\ Top(j)' /\ task'[j].req = r
    <3>1. j \in Slots /\ task[j].pc # "free" /\ ~Orphan(j, s)
      BY <2>0, <2>4, Used DEF Orphan, Top
    <3>2. task'[j] = task[j]
      BY <1>1, <2>0, <2>4, <3>1, CrashForm
    <3> QED
      BY <2>4, <3>1, <3>2, NextUsed DEF Top
  <2>5. Started(r) => Started(r)'
    BY <2>2, <2>3, <2>4 DEF Started
  <2> QED
    BY <2>1, <2>2, <2>5 DEF Quiet
<1>2. CASE (\E s, t \in Servers : MarkDead(s, t)) \/ UNCHANGED vars
  <2>1. task' = task /\ answer' = answer /\ InUse' = InUse
    BY <1>2 DEF MarkDead, vars, InUse
  <2> QED
    BY <2>1 DEF Quiet, Started, Top
<1> QED
  BY <1>1, <1>2

\* A request starts with one handler, and nothing has been done for it before.
LEMMA IssueOnward ==
  ASSUME IInv, Tree, Tree', NEW r \in Requests, Issue(r)
  PROVE  Onward(r)
<1>1. /\ answer[r] = NoResult /\ \A j \in InUse : task[j].req # r
      /\ UNCHANGED <<alive, up, answer>>
  BY DEF Issue
<1>2. PICK d : Starts(d, r)
  BY IssueForm DEF IInv
<1>3. ~Started(r)
  BY <1>1 DEF Started
<1>4. /\ task'[d].req = r /\ task'[d].parent = Client /\ task'[d].pc = "route"
      /\ task'[d].child = Client
      /\ \A j \in InUse' : j # d => j \in InUse /\ task'[j].req # r
  BY <1>1, <1>2, NextUsed DEF Starts, NewTask, InUse
<1>5. ASSUME NEW j \in InUse', Runs(j, r)' PROVE CourseOK(j, r)'
  <2>1. j = d /\ Top(j)'
    BY <1>4, <1>5 DEF Runs, Top
  <2>2. task'[d].pc \notin Owned \cup Over
    BY <1>4 DEF Owned, Over
  <2> QED
    BY <1>4, <2>1, <2>2 DEF CourseOK, Runs, Over
<1> QED
  BY <1>3, <1>5 DEF Onward, Course, Fresh, Diverted

LEMMA EveryOnward ==
  ASSUME IInv, Tree, Safe, Tree', Safe', [Next]_vars, NEW r \in Requests,
         r.op = "send_message", Course(r)
  PROVE  Onward(r)
<1>1. Later(Now, Now')
  <2>1. CASE UNCHANGED vars
    BY <2>1, Same DEF vars, Later, Now, IInv, StatesOK
  <2> QED
    BY <2>1, StepLater
<1>2. CASE Issue(r)
  BY <1>2, IssueOnward
<1>3. ASSUME NEW a \in Requests, Issue(a), a # r PROVE Quiet(r)
  <2>1. PICK d : Starts(d, a)
    BY <1>3, IssueForm DEF IInv
  <2>2. answer' = answer /\ task'[d].req = a
    BY <1>3, <2>1 DEF Issue, Starts, NewTask
  <2>3. \A j \in InUse' : j # d => j \in InUse /\ task'[j] = task[j]
    BY <2>1, NextUsed DEF Starts, InUse
  <2>4. \A j \in InUse : j \in InUse' /\ task'[j] = task[j]
    BY <2>1, NextUsed DEF Starts, InUse
  <2>5. Started(r) => Started(r)'
    BY <2>2, <2>4 DEF Started, Top
  <2> QED
    BY <1>3, <2>2, <2>3, <2>5 DEF Quiet
<1>4. ASSUME NEW i \in InUse, Step(i) \/ Disconnect(i) PROVE Onward(r)
  BY <1>1, <1>4, RunsOnward, StepQuiet, QuietOnward
<1> QED
  BY <1>1, <1>2, <1>3, <1>4, FailureQuiet, QuietOnward DEF Next

\* Where nothing of r is written, it stays stored once.
LEMMA UnwrittenOnce ==
  ASSUME NEW r \in Requests, Onward(r), StoredOnce(r),
         \A s \in {PrimaryOf(r), BackupOf(r)} : \A k :
           Holds(state'[s], r.channel, k, r.id) <=> Holds(state[s], r.channel, k, r.id)
  PROVE  StoredOnce(r)'
BY DEF StoredOnce, Onward

\* Who writes carries out an operation, or replicates one.
LEMMA WhoWrites ==
  ASSUME IInv, [Next]_vars, \A i \in InUse : ~Apply(i) /\ ~ServeReplicate(i)
  PROVE  state' = state
<1>1. ASSUME NEW i \in InUse, Step(i) \/ Disconnect(i) PROVE state' = state
  <2>1. ~Apply(i) /\ ~ServeReplicate(i)
    OBVIOUS
  <2>2. CASE \/ Route(i) \/ Forward(i) \/ ForwardAnswered(i) \/ ForwardRetries(i)
             \/ CheckChannel(i) \/ ExistsHere(i) \/ ExistsElsewhere(i) \/ ExistsForward(i)
             \/ ExistsAnswered(i) \/ ExistsRetries(i)
    BY <2>2 DEF Route, Forward, ForwardAnswered, ForwardRetries, CheckChannel, ExistsHere,
       ExistsElsewhere, ExistsForward, ExistsAnswered, ExistsRetries
  <2>3. CASE Replicate(i) \/ ReplicateAnswered(i) \/ ReplicateUnavailable(i)
    BY <2>3 DEF Replicate, ReplicateAnswered, ReplicateUnavailable
  <2>4. CASE Gather(i) \/ GatherNext(i) \/ Gathered(i) \/ GatherSkips(i) \/ GatherEnds(i)
    <3>1. Gather(i) => state' = state
      BY DEF Gather
    <3>2. GatherNext(i) \/ GatherEnds(i) => state' = state
      BY DEF GatherNext, GatherEnds
    <3>3. Gathered(i) \/ GatherSkips(i) => state' = state
      BY DEF Gathered, GatherSkips
    <3> QED
      BY <2>4, <3>1, <3>2, <3>3
  <2>5. CASE ServeExists(i) \/ ServeNames(i) \/ Disconnect(i)
    BY <2>5 DEF ServeExists, ServeNames, Disconnect
  <2> QED
    BY <1>1, <2>1, <2>2, <2>3, <2>4, <2>5 DEF Step
<1>2. /\ \A r \in Requests : Issue(r) => state' = state
      /\ \A s, t \in Servers : MarkDead(s, t) => state' = state
  BY DEF Issue, MarkDead
<1>3. ASSUME NEW s \in Servers, Crash(s) PROVE state' = state
  BY <1>3, CrashForm DEF IInv
<1>4. CASE UNCHANGED vars
  BY <1>4 DEF vars
<1> QED
  BY <1>1, <1>2, <1>3, <1>4 DEF Next

\* The primary carries r out where nobody has, and the backup only in its place.
LEMMA ApplyOnce ==
  ASSUME IInv, Tree, Safe, Tree', Safe', Next, NEW r \in Requests, r.op = "send_message",
         Course(r), StoredOnce(r), Onward(r), NEW i \in InUse, Apply(i)
  PROVE  StoredOnce(r)'
<1> DEFINE q == Req(i)
           s == At(i)
           e == Applied(i)
           p == PrimaryOf(r)
           b == BackupOf(r)
<1>1. /\ task[i].pc = "apply" /\ task[i].kind = "op" /\ HandledOK(task[i], Now)
      /\ task[i].req = q /\ task[i].at = s /\ i \in Slots
  BY InUseOK DEF Apply, Over
<1>2. /\ s \in Servers /\ q \in Requests /\ DOMAIN state = Servers
      /\ \A x \in Servers : StateOK(state[x])
      /\ q.op \in Ops \ Gathers
      /\ q.op \in {"leave_channel", "send_message"} => q.channel \in DOMAIN state[s].channels
  BY <1>1, WritersOK DEF PcOK, Routed, Looked, ChannelExists
<1>3. p \in Servers /\ b \in Servers /\ p # b
  BY OwnersOf DEF PrimaryOf, BackupOf
<1>4. \A k : Holds(e.state, r.channel, k, r.id) =>
        \/ Holds(state[s], r.channel, k, r.id)
        \/ q.id = r.id /\ e.result.code = "OK" /\ e.result.value = {k}
  BY <1>2, OpAdds DEF Applied
<1>5. q.id = r.id => q = r
  BY <1>2, ReplicationAssumption
<1>6. \A x \in Servers : \A k : Holds(state[x], r.channel, k, r.id) =>
                                  Holds(state'[x], r.channel, k, r.id)
  BY StepLater, NowFields, HoldsStays DEF Later
<1>7. \/ state' = state
      \/ /\ state' = [state EXCEPT ![s] = e.state]
         /\ e.result.code = "OK" /\ q = r =>
              \E result : Turns(i, "replicate", result, task[i].todo)
  <2>1. r.op \in Writes
    BY DEF Writes
  <2>2. By(s, e.result).code = e.result.code
    BY DEF By
  <2> QED
    BY <2>1, <2>2, ApplyForms DEF IInv
<1> HIDE DEF e
<1>8. CASE state' = state
  BY <1>8, UnwrittenOnce
<1>9. CASE state' = [state EXCEPT ![s] = e.state] /\ q # r
  <2>1. \A x \in Servers : state'[x] = IF x = s THEN e.state ELSE state[x]
    BY <1>2, <1>9
  <2>2. \A x \in Servers : \A k : Holds(state'[x], r.channel, k, r.id) =>
                                    Holds(state[x], r.channel, k, r.id)
    BY <1>4, <1>5, <1>9, <2>1
  <2> QED
    BY <1>3, <1>6, <2>2, UnwrittenOnce
<1>10. CASE /\ state' = [state EXCEPT ![s] = e.state] /\ q = r
            /\ e.result.code = "OK" => \E result : Turns(i, "replicate", result, task[i].todo)
  <2>0. \A x \in Servers : state'[x] = IF x = s THEN e.state ELSE state[x]
    BY <1>2, <1>10
  <2>1. Runs(i, r) /\ CourseOK(i, r)
    BY <1>1, <1>10 DEF Runs, Course
  <2>2. CASE s = p
    <3>1. \A k : ~Holds(state[p], r.channel, k, r.id)
      BY <1>1, <2>1, <2>2 DEF StoredOnce, Fresh, PreApply
    <3>2. \A k : Holds(state'[p], r.channel, k, r.id) =>
                   e.result.code = "OK" /\ e.result.value = {k}
      BY <1>3, <1>4, <2>0, <2>2, <3>1
    <3>3. ASSUME NEW k, Holds(state'[p], r.channel, k, r.id) PROVE ~Fresh(r)'
      <4>1. PICK result : Turns(i, "replicate", result, task[i].todo)
        BY <1>10, <3>2, <3>3
      <4>2. task'[i] = Task(task[i], "replicate", Client, result, task[i].todo)
        BY <4>1, FormLeaves DEF Leaves
      <4>3. /\ task'[i].pc = "replicate" /\ task'[i].req = r /\ task'[i].at = p
            /\ task'[i].kind = "op"
        BY <1>1, <1>10, <2>2, <4>2, TaskFields
      <4>4. i \in InUse' /\ Runs(i, r)' /\ CourseOK(i, r)'
        BY <1>1, <4>3, NextUsed DEF Runs, Onward, Course
      <4>5. Started(r)'
        <5>1. ClientOK(i)'
          BY <4>4 DEF Tree
        <5> QED
          BY <4>3, <4>4, <5>1 DEF ClientOK, Started
      <4>6. ASSUME NEW j \in InUse', Runs(j, r)', Searching(j)' PROVE FALSE
        <5>1. CourseOK(j, r)'
          BY <4>6 DEF Onward, Course
        <5>2. i = j
          BY <4>3, <4>4, <4>6, <5>1 DEF CourseOK
        <5> QED
          BY <4>3, <4>6, <5>2 DEF Searching, Runs
      <4>7. ASSUME NEW j \in InUse', Runs(j, r)', task'[j].at = p, task'[j].pc \in PreApply
            PROVE  FALSE
        <5>1. task'[j].pc \notin Over /\ task'[i].pc \notin Over
          BY <4>3, <4>7 DEF PreApply, Over
        <5>2. j = i
          BY <4>3, <4>4, <4>7, <5>1 DEF CourseOK
        <5> QED
          BY <4>3, <4>7, <5>2 DEF PreApply
      <4> QED
        BY <4>5, <4>6, <4>7 DEF Fresh
    <3>4. \A k, l : Holds(state'[p], r.channel, k, r.id) /\ Holds(state'[p], r.channel, l, r.id) =>
                      k = l
      <4>1. \A k, l : {k} = {l} => k = l
        OBVIOUS
      <4> QED
        BY <3>2, <4>1
    <3>5. \A k : Holds(state'[b], r.channel, k, r.id) =>
                   Holds(state'[p], r.channel, k, r.id) \/ Diverted(r)'
      BY <1>3, <1>6, <2>0, <2>2 DEF StoredOnce, Onward
    <3> QED
      BY <3>3, <3>4, <3>5 DEF StoredOnce
  <2>3. CASE s # p
    <3>1. s = b
      BY <1>1, <1>10, <2>3 DEF HandledOK, Placed, Owned
    <3>2. Diverted(r)'
      BY <1>1, <2>1, <3>1 DEF CourseOK, Owned, Onward
    <3>3. state'[p] = state[p]
      BY <1>3, <2>0, <3>1
    <3> QED
      BY <3>2, <3>3 DEF StoredOnce, Onward
  <2> QED
    BY <2>2, <2>3
<1> QED
  BY <1>7, <1>8, <1>9, <1>10

\* What the backup copies the primary has.
LEMMA ReplicaOnce ==
  ASSUME IInv, Tree, Safe, Next, NEW r \in Requests, r.op = "send_message",
         StoredOnce(r), Onward(r), NEW i \in InUse, ServeReplicate(i)
  PROVE  StoredOnce(r)'
<1> DEFINE q == Req(i)
           s == At(i)
           e == Replicated(i)
           p == PrimaryOf(r)
           b == BackupOf(r)
           id == CHOOSE k \in task[i].result.value : TRUE
<1>1. /\ task[i].pc = "start" /\ task[i].kind = "replicate" /\ HandledOK(task[i], Now)
      /\ task[i].req = q /\ task[i].at = s
  BY InUseOK DEF ServeReplicate
<1>2. /\ s \in Servers /\ q \in Requests /\ DOMAIN state = Servers
      /\ \A x \in Servers : StateOK(state[x])
      /\ q.op \in Writes /\ s = BackupOf(q)
      /\ Kept(state[PrimaryOf(q)], q, task[i].result.value)
  BY <1>1, WritersOK, NowFields DEF PcOK, HandledOK, Placed, Promised
<1>3. p \in Servers /\ b \in Servers /\ p # b
  BY OwnersOf DEF PrimaryOf, BackupOf
<1>4. \/ state' = state
      \/ ~ChannelMissing(i) /\ state' = [state EXCEPT ![s] = e.state]
  BY ServeForms DEF IInv
<1>5. CASE state' = state
  BY <1>5, UnwrittenOnce
<1>6. CASE ~ChannelMissing(i) /\ state' = [state EXCEPT ![s] = e.state]
  <2>0. q.op = "send_message" => q.channel \in DOMAIN state[s].channels
    BY <1>6 DEF ChannelMissing, ChannelExists
  <2>1. \A k : Holds(e.state, r.channel, k, r.id) =>
          \/ Holds(state[s], r.channel, k, r.id)
          \/ q.id = r.id /\ k = id
    <3>1. e = ReplicaEffect(state[s], q, task[i].result)
      BY DEF Replicated
    <3>2. \A c, k, t : Holds(ReplicaEffect(state[s], q, task[i].result).state, c, k, t) =>
            \/ Holds(state[s], c, k, t)
            \/ q.op = "send_message" /\ c = q.channel /\ k = id /\ t = q.id
      BY <1>2, <2>0, ReplicaHolds
    <3> HIDE DEF e
    <3> QED
      BY <3>1, <3>2
  <2>2. q.id = r.id => q = r
    BY <1>2, ReplicationAssumption
  <2>3. \A x \in Servers : \A k : Holds(state[x], r.channel, k, r.id) =>
                                    Holds(state'[x], r.channel, k, r.id)
    BY StepLater, NowFields, HoldsStays DEF Later
  <2>4. q = r => Holds(state[p], r.channel, id, r.id)
    <3> SUFFICES ASSUME q = r PROVE Holds(state[p], r.channel, id, r.id)
      OBVIOUS
    <3>1. PICK k : task[i].result.value = {k} /\ Holds(state[p], r.channel, k, r.id)
      BY <1>2 DEF Kept
    <3>2. id = k
      BY <3>1
    <3> QED
      BY <3>1, <3>2
  <2>5. \A x \in Servers : state'[x] = IF x = s THEN e.state ELSE state[x]
    BY <1>2, <1>6
  <2> HIDE DEF e, id
  <2>6. CASE q = r
    <3>1. state'[p] = state[p] /\ s = b
      BY <1>2, <1>3, <2>5, <2>6
    <3> QED
      BY <1>3, <2>1, <2>4, <2>5, <2>6, <3>1 DEF StoredOnce, Onward
  <2>7. CASE q # r
    <3>1. \A x \in Servers : \A k : Holds(state'[x], r.channel, k, r.id) =>
                                      Holds(state[x], r.channel, k, r.id)
      BY <2>1, <2>2, <2>5, <2>7
    <3> QED
      BY <1>3, <2>3, <3>1, UnwrittenOnce
  <2> QED
    BY <2>6, <2>7
<1> QED
  BY <1>4, <1>5, <1>6

LEMMA OnceStep ==
  ASSUME IInv, Tree, Safe, Tree', Safe', Once, [Next]_vars
  PROVE  Once'
<1> SUFFICES ASSUME NEW r \in Requests, r.op = "send_message"
             PROVE  Course(r)' /\ StoredOnce(r)'
  BY DEF Once
<1>1. Course(r) /\ StoredOnce(r)
  BY DEF Once
<1>2. Onward(r)
  BY <1>1, EveryOnward
<1>3. CASE \A i \in InUse : ~Apply(i) /\ ~ServeReplicate(i)
  <2>1. state' = state
    BY <1>3, WhoWrites
  <2> QED
    BY <1>1, <1>2, <2>1, UnwrittenOnce DEF Onward
<1>4. ASSUME NEW i \in InUse, Apply(i) \/ ServeReplicate(i)
      PROVE  StoredOnce(r)'
  <2>1. Next
    <3>1. task[i].pc \in {"apply", "start"} /\ UNCHANGED alive
      BY <1>4 DEF Apply, ServeReplicate
    <3> QED
      BY <1>4 DEF Next, Step
  <2> QED
    BY <1>1, <1>2, <1>4, <2>1, ApplyOnce, ReplicaOnce
<1> QED
  BY <1>2, <1>3, <1>4 DEF Onward

LEMMA OnceInit == Init => Once
<1> SUFFICES ASSUME Init, NEW r \in Requests, r.op = "send_message"
             PROVE  Course(r) /\ StoredOnce(r)
  BY DEF Once
<1>1. InUse = {}
  BY FreeFields DEF Init, InUse
<1>2. ASSUME NEW s \in {PrimaryOf(r), BackupOf(r)}, NEW k
      PROVE  ~Holds(state[s], r.channel, k, r.id)
  <2>1. s \in Servers
    BY OwnersOf DEF PrimaryOf, BackupOf
  <2>2. ChannelExists(state[s], r.channel) =>
          state[s].channels[r.channel] = InitialChannel(r.channel)
    BY <2>1 DEF Init, ChannelExists
  <2>3. DOMAIN InitialChannel(r.channel).messages = {}
    BY DEF InitialChannel, NewChannel
  <2> QED
    BY <2>2, <2>3 DEF Holds
<1> QED
  BY <1>1, <1>2 DEF Course, StoredOnce

\* In every reachable state, the primary has carried a message out at most once, and the
\* backup has it as the primary does, unless it took the message over and the primary's
\* answer is lost.
THEOREM OnceInvariance == Spec => []Once
<1>1. IInv /\ Tree /\ Safe /\ Tree' /\ Safe' /\ Once /\ [Next]_vars => Once'
  BY OnceStep
<1> QED
  BY <1>1, OnceInit, Invariance, TreeInvariance, SafeInvariance, PTL DEF Spec

\* A message the primary acknowledged is stored on every owner that is up, under the id the
\* client was told and under no other.
THEOREM MessagesKept == Spec => []AckedMessagesKept
<1>1. Safe /\ Once => AckedMessagesKept
  <2> SUFFICES ASSUME Safe, Once, NEW r \in Requests, r.op = "send_message", Acknowledged(r),
                      NEW s \in Owners(r.channel) \cap up
               PROVE  StoredAs(s, r) = answer[r].value
    BY DEF AckedMessagesKept
  <2> DEFINE p == PrimaryOf(r)
             b == BackupOf(r)
  <2>1. /\ s \in {p, b} /\ Acked(r, Now)
    BY Subjects, NowFields DEF Owners, PrimaryOf, BackupOf, Acknowledged, Acked
  <2>2. Durable(r, answer[r].value, Now)
    <3>1. ToldOK(r, Now) /\ answer[r] # NoResult
      BY <2>1, NowFields DEF Safe, Acked, NoResult
    <3> QED
      BY <2>1, <3>1, NowFields DEF ToldOK, ResultOK, Acked
  <2>3. PICK k \in Nat : answer[r].value = {k} /\ Holds(state[p], r.channel, k, r.id)
    BY <2>2, NowFields DEF Durable, Kept
  <2>4. Holds(state[s], r.channel, k, r.id)
    <3>1. CASE s = p
      BY <2>3, <3>1
    <3>2. CASE s = b
      <4>1. PICK l : answer[r].value = {l} /\ Holds(state[b], r.channel, l, r.id)
        BY <2>2, <3>2, NowFields DEF Durable, Kept
      <4>2. l = k
        BY <2>3, <4>1
      <4> QED
        BY <3>2, <4>1, <4>2
    <3> QED
      BY <2>1, <3>1, <3>2
  <2>5. ASSUME NEW l, Holds(state[s], r.channel, l, r.id) PROVE l = k
    <3>1. /\ \A m, n : /\ Holds(state[p], r.channel, m, r.id)
                       /\ Holds(state[p], r.channel, n, r.id)
                       => m = n
          /\ \A m : Holds(state[b], r.channel, m, r.id) =>
                      Holds(state[p], r.channel, m, r.id) \/ Diverted(r)
      BY DEF Once, StoredOnce
    <3>2. ~Diverted(r)
      BY <2>1 DEF Diverted
    <3> QED
      BY <2>1, <2>3, <2>5, <3>1, <3>2
  <2> HIDE DEF p, b
  <2>6. StoredAs(s, r) = {k}
    BY <2>4, <2>5 DEF StoredAs, Holds
  <2> QED
    BY <2>3, <2>6
<1> QED
  BY <1>1, SafeInvariance, OnceInvariance, PTL

-----------------------------------------------------------------------------
(***************************************************************************)
(* Types                                                                   *)
(***************************************************************************)
Texts == {r.id : r \in Requests}

StateTyped(st) ==
  /\ st.users \subseteq Users
  /\ DOMAIN st.channels \subseteq Channels
  /\ \A ch \in DOMAIN st.channels : IsChannel(st.channels[ch])

Typed ==
  /\ \A s \in Servers : StateTyped(state[s])
  /\ poisoned \subseteq Servers

LEMMA NewChannelTyped == IsChannel(NewChannel)
BY DEF IsChannel, NewChannel, Range

LEMMA WithChannelTyped ==
  ASSUME NEW st, StateOK(st), StateTyped(st), NEW ch \in Channels, NEW c, IsChannel(c)
  PROVE  StateTyped(WithChannel(st, ch, c))
<1> DEFINE tt == WithChannel(st, ch, c)
<1>1. /\ tt.users = st.users /\ DOMAIN tt.channels = DOMAIN st.channels \cup {ch}
      /\ tt.channels[ch] = c
      /\ \A b \in DOMAIN st.channels \ {ch} : tt.channels[b] = st.channels[b]
  BY WithChannelFields
<1> HIDE DEF tt
<1>2. \A b \in DOMAIN tt.channels : IsChannel(tt.channels[b])
  BY <1>1 DEF StateTyped
<1> QED
  BY <1>1, <1>2 DEF StateTyped, tt

\* A change of members.
LEMMA MembersTyped ==
  ASSUME NEW c, ChannelOK(c), IsChannel(c), NEW S, S \subseteq Users
  PROVE  IsChannel([c EXCEPT !.users = S])
<1>1. [c EXCEPT !.users = S] = [users |-> S, messages |-> c.messages, next |-> c.next]
  BY DEF ChannelOK
<1> QED
  BY <1>1 DEF IsChannel

\* A message more, and a next id.
LEMMA MessagesTyped ==
  ASSUME NEW c, IsChannel(c), NEW d, d.users = c.users, d.next \in Nat,
         NEW id \in Nat, NEW text \in Texts, DOMAIN d.messages \subseteq DOMAIN c.messages \cup {id},
         \A k \in DOMAIN d.messages :
           IF k \in DOMAIN c.messages THEN d.messages[k] = c.messages[k] ELSE d.messages[k] = text
  PROVE  IsChannel(d)
<1>1. \A k \in DOMAIN c.messages : k \in Nat /\ c.messages[k] \in Texts
  BY DEF IsChannel, Range, Texts
<1>2. \A k \in DOMAIN d.messages : k \in Nat /\ d.messages[k] \in Texts
  BY <1>1
<1>3. DOMAIN d.messages \subseteq Nat /\ Range(d.messages) \subseteq Texts
  BY <1>2 DEF Range
<1>4. d.users \subseteq Users
  BY DEF IsChannel
<1> QED
  BY <1>3, <1>4 DEF IsChannel, Texts

LEMMA CreateUserTyped ==
  ASSUME NEW st, StateOK(st), StateTyped(st), NEW u \in Users
  PROVE  StateTyped(CreateUser(st, u).state)
<1>1. [st EXCEPT !.users = st.users \cup {u}] = [users |-> st.users \cup {u}, channels |-> st.channels]
  BY DEF StateOK
<1> QED
  BY <1>1 DEF StateTyped, CreateUser, Effect

LEMMA JoinChannelTyped ==
  ASSUME NEW st, StateOK(st), StateTyped(st), NEW u \in Users, NEW ch \in Channels
  PROVE  StateTyped(JoinChannel(st, u, ch).state)
<1> DEFINE c == IF ChannelExists(st, ch) THEN st.channels[ch] ELSE NewChannel
           d == [c EXCEPT !.users = c.users \cup {u}]
<1>1. ChannelOK(c) /\ IsChannel(c)
  BY NewChannelOK, NewChannelTyped DEF StateOK, StateTyped, ChannelExists
<1>2. IsChannel(d)
  <2> HIDE DEF c
  <2>1. c.users \cup {u} \subseteq Users
    BY <1>1 DEF IsChannel
  <2> QED
    BY <1>1, <2>1, MembersTyped
<1>3. \/ JoinChannel(st, u, ch).state = st
      \/ JoinChannel(st, u, ch).state = WithChannel(st, ch, d)
  BY DEF JoinChannel, Effect
<1> HIDE DEF d
<1> QED
  BY <1>2, <1>3, WithChannelTyped

LEMMA LeaveChannelTyped ==
  ASSUME NEW st, StateOK(st), StateTyped(st), NEW u, NEW ch \in DOMAIN st.channels
  PROVE  StateTyped(LeaveChannel(st, u, ch).state)
<1> DEFINE c == st.channels[ch]
           d == [c EXCEPT !.users = c.users \ {u}]
<1>1. ChannelOK(c) /\ IsChannel(c) /\ ch \in Channels
  BY DEF StateOK, StateTyped
<1>2. IsChannel(d)
  <2> HIDE DEF c
  <2>1. c.users \ {u} \subseteq Users
    BY <1>1 DEF IsChannel
  <2> QED
    BY <1>1, <2>1, MembersTyped
<1>3. \/ LeaveChannel(st, u, ch).state = st
      \/ LeaveChannel(st, u, ch).state = WithChannel(st, ch, d)
  BY DEF LeaveChannel, Effect
<1> HIDE DEF d
<1> QED
  BY <1>1, <1>2, <1>3, WithChannelTyped

LEMMA SendMessageTyped ==
  ASSUME NEW st, StateOK(st), StateTyped(st), NEW u, NEW ch \in DOMAIN st.channels,
         NEW text \in Texts
  PROVE  StateTyped(SendMessage(st, u, ch, text).state)
<1> DEFINE c == st.channels[ch]
           d == [c EXCEPT !.next = c.next + 1]
           x == Insert(d, c.next, text)
<1>1. ChannelOK(c) /\ IsChannel(c) /\ ch \in Channels /\ c.next \in Nat
  BY DEF StateOK, StateTyped, IsChannel
<1>2. d = [users |-> c.users, messages |-> c.messages, next |-> c.next + 1]
  BY <1>1 DEF ChannelOK
<1>3. /\ ChannelOK(d) /\ d.users = c.users /\ d.messages = c.messages /\ d.next = c.next + 1
  <2> HIDE DEF c, d
  <2> QED
    BY <1>1, <1>2 DEF ChannelOK
<1>4. IsChannel(x)
  <2> HIDE DEF c, d
  <2>1. /\ x.users = c.users /\ x.next = c.next + 1
        /\ DOMAIN x.messages = DOMAIN c.messages \cup {c.next}
        /\ \A k \in DOMAIN c.messages : x.messages[k] = c.messages[k]
        /\ c.next \notin DOMAIN c.messages => x.messages[c.next] = text
    BY <1>3, InsertForm
  <2> HIDE DEF x
  <2>2. \A k \in DOMAIN x.messages : IF k \in DOMAIN c.messages THEN x.messages[k] = c.messages[k]
                                     ELSE x.messages[k] = text
    BY <2>1
  <2>3. x.next \in Nat
    BY <1>1, <2>1
  <2> QED
    BY <1>1, <2>1, <2>2, <2>3, MessagesTyped
<1>5. \/ SendMessage(st, u, ch, text).state = st
      \/ SendMessage(st, u, ch, text).state = WithChannel(st, ch, x)
  BY DEF SendMessage, Effect
<1> HIDE DEF x
<1> QED
  BY <1>1, <1>4, <1>5, WithChannelTyped

LEMMA ReplicateTyped ==
  ASSUME NEW st, StateOK(st), StateTyped(st), NEW ch \in DOMAIN st.channels,
         NEW text \in Texts, NEW id \in Nat
  PROVE  StateTyped(ReplicateSendMessage(st, ch, text, id).state)
<1> DEFINE c == st.channels[ch]
           d == Received(c, text, id)
<1>1. IsChannel(c) /\ ch \in Channels /\ c.next \in Nat
  BY DEF StateTyped, IsChannel
<1>2. /\ d.users = c.users /\ d.next \in Nat
      /\ DOMAIN d.messages = DOMAIN c.messages \cup {id}
      /\ \A k \in DOMAIN d.messages :
           IF k \in DOMAIN c.messages THEN d.messages[k] = c.messages[k] ELSE d.messages[k] = text
  <2> HIDE DEF c
  <2> QED
    BY <1>1 DEF Received
<1>3. ReplicateSendMessage(st, ch, text, id).state = WithChannel(st, ch, d)
  BY ReplicateIsReceived
<1> HIDE DEF c, d
<1>4. IsChannel(d)
  BY <1>1, <1>2, MessagesTyped
<1> QED
  BY <1>1, <1>3, <1>4, WithChannelTyped

\* The two steps that write.
LEMMA ApplyTyped ==
  ASSUME IInv, Tree, Safe, Typed, NEW i \in InUse, Apply(i)
  PROVE  Typed'
<1> DEFINE r == Req(i)
           s == At(i)
           st == state[s]
           e == Applied(i)
<1>1. task[i].pc = "apply" /\ task[i].kind = "op" /\ poisoned' = poisoned
  BY InUseOK DEF Apply, Over
<1>2. /\ s \in Servers /\ r \in Requests /\ DOMAIN state = Servers /\ StateOK(st)
      /\ r.op \in Ops \ Gathers /\ r.user \in Users /\ r.channel \in Channels
      /\ r.op \in {"leave_channel", "send_message"} => r.channel \in DOMAIN st.channels
  BY <1>1, WritersOK, ReplicationAssumption DEF PcOK, Routed, Looked, ChannelExists
<1>3. StateTyped(st) /\ r.id \in Texts
  BY <1>2 DEF Typed, Texts
<1>4. StateTyped(e.state)
  <2>0. e = OpEffect(st, r)
    BY DEF Applied
  <2> HIDE DEF e, st, r
  <2>1. CASE r.op = "create_user"
    BY <1>2, <1>3, <2>0, <2>1, CreateUserTyped DEF OpEffect
  <2>2. CASE r.op = "join_channel"
    BY <1>2, <1>3, <2>0, <2>2, JoinChannelTyped DEF OpEffect
  <2>3. CASE r.op = "leave_channel"
    BY <1>2, <1>3, <2>0, <2>3, LeaveChannelTyped DEF OpEffect
  <2>4. CASE r.op = "send_message"
    BY <1>2, <1>3, <2>0, <2>4, SendMessageTyped DEF OpEffect
  <2>5. CASE r.op \in {"list_channel_users", "get_messages"}
    BY <1>3, <2>0, <2>5 DEF OpEffect, ListChannelUsers, GetMessages, Effect
  <2> QED
    BY <1>2, <2>1, <2>2, <2>3, <2>4, <2>5 DEF Ops, Gathers
<1>5. state' = state \/ state' = [state EXCEPT ![s] = e.state]
  BY ApplyForms DEF IInv
<1> HIDE DEF e, s
<1> QED
  BY <1>1, <1>2, <1>4, <1>5 DEF Typed

LEMMA ReplicaTyped ==
  ASSUME IInv, Tree, Safe, Typed, NEW i \in InUse, ServeReplicate(i)
  PROVE  Typed'
<1> DEFINE r == Req(i)
           s == At(i)
           st == state[s]
           x == task[i].result
           id == CHOOSE k \in x.value : TRUE
           e == Replicated(i)
<1>1. /\ task[i].pc = "start" /\ task[i].kind = "replicate" /\ HandledOK(task[i], Now)
      /\ task[i].req = r
  BY InUseOK DEF ServeReplicate
<1>2. /\ s \in Servers /\ r \in Requests /\ DOMAIN state = Servers /\ StateOK(st)
      /\ r.op \in Writes /\ r.user \in Users /\ r.channel \in Channels
  BY <1>1, WritersOK, ReplicationAssumption DEF PcOK
<1>3. StateTyped(st) /\ r.id \in Texts
  BY <1>2 DEF Typed, Texts
<1>4. poisoned' \subseteq Servers
  BY <1>2 DEF ServeReplicate, Typed
<1>5. r.op = "send_message" => id \in Nat
  <2>1. r.op = "send_message" => \E k \in Nat : x.value = {k}
    BY <1>1, NowFields DEF HandledOK, Promised, Kept
  <2> QED
    BY <2>1
<1>6. CASE ~ChannelMissing(i)
  <2>0. /\ e = ReplicaEffect(st, r, x)
        /\ r.op = "send_message" => r.channel \in DOMAIN st.channels
    BY <1>6 DEF ChannelMissing, ChannelExists, Replicated
  <2> HIDE DEF e, st, r, x
  <2>1. StateTyped(e.state)
    <3>1. CASE r.op = "create_user"
      BY <1>2, <1>3, <2>0, <3>1, CreateUserTyped DEF ReplicaEffect
    <3>2. CASE r.op = "join_channel"
      BY <1>2, <1>3, <2>0, <3>2, JoinChannelTyped DEF ReplicaEffect
    <3>3. CASE r.op = "leave_channel"
      BY <1>2, <1>3, <2>0, <3>3, LeaveChannelTyped DEF ReplicaEffect, ChannelExists, Effect
    <3>4. CASE r.op = "send_message"
      <4>1. e = ReplicateSendMessage(st, r.channel, r.id, id)
        BY <2>0, <3>4 DEF ReplicaEffect
      <4> QED
        BY <1>2, <1>3, <1>5, <2>0, <3>4, <4>1, ReplicateTyped
    <3> QED
      BY <1>2, <3>1, <3>2, <3>3, <3>4 DEF Writes
  <2>2. state' = state \/ state' = [state EXCEPT ![s] = e.state]
    BY ServeForms DEF IInv, e
  <2> HIDE DEF s
  <2> QED
    BY <1>2, <1>4, <2>1, <2>2 DEF Typed
<1>7. CASE ChannelMissing(i)
  BY <1>4, <1>7 DEF ServeReplicate, Typed
<1> QED
  BY <1>6, <1>7

\* Who panics under the lock replicates.
LEMMA WhoPoisons ==
  ASSUME IInv, [Next]_vars, \A i \in InUse : ~Apply(i) /\ ~ServeReplicate(i)
  PROVE  poisoned' = poisoned
<1>1. ASSUME NEW i \in InUse, Step(i) \/ Disconnect(i) PROVE poisoned' = poisoned
  <2>1. ~Apply(i) /\ ~ServeReplicate(i)
    OBVIOUS
  <2>2. CASE \/ Route(i) \/ Forward(i) \/ ForwardAnswered(i) \/ ForwardRetries(i)
             \/ CheckChannel(i) \/ ExistsHere(i) \/ ExistsElsewhere(i) \/ ExistsForward(i)
             \/ ExistsAnswered(i) \/ ExistsRetries(i)
    BY <2>2 DEF Route, Forward, ForwardAnswered, ForwardRetries, CheckChannel, ExistsHere,
       ExistsElsewhere, ExistsForward, ExistsAnswered, ExistsRetries
  <2>3. CASE Replicate(i) \/ ReplicateAnswered(i) \/ ReplicateUnavailable(i)
    BY <2>3 DEF Replicate, ReplicateAnswered, ReplicateUnavailable
  <2>4. CASE Gather(i) \/ GatherNext(i) \/ Gathered(i) \/ GatherSkips(i) \/ GatherEnds(i)
    <3>1. Gather(i) => poisoned' = poisoned
      BY DEF Gather
    <3>2. GatherNext(i) \/ GatherEnds(i) => poisoned' = poisoned
      BY DEF GatherNext, GatherEnds
    <3>3. Gathered(i) \/ GatherSkips(i) => poisoned' = poisoned
      BY DEF Gathered, GatherSkips
    <3> QED
      BY <2>4, <3>1, <3>2, <3>3
  <2>5. CASE ServeExists(i) \/ ServeNames(i) \/ Disconnect(i)
    BY <2>5 DEF ServeExists, ServeNames, Disconnect
  <2> QED
    BY <1>1, <2>1, <2>2, <2>3, <2>4, <2>5 DEF Step
<1>2. /\ \A r \in Requests : Issue(r) => poisoned' = poisoned
      /\ \A s, t \in Servers : MarkDead(s, t) => poisoned' = poisoned
  BY DEF Issue, MarkDead
<1>3. ASSUME NEW s \in Servers, Crash(s) PROVE poisoned' = poisoned
  BY <1>3, Zenon DEF Crash
<1>4. CASE UNCHANGED vars
  BY <1>4 DEF vars
<1> QED
  BY <1>1, <1>2, <1>3, <1>4 DEF Next

LEMMA TypedStep ==
  ASSUME IInv, Tree, Safe, Typed, [Next]_vars
  PROVE  Typed'
<1>1. CASE \A i \in InUse : ~Apply(i) /\ ~ServeReplicate(i)
  BY <1>1, WhoWrites, WhoPoisons DEF Typed
<1>2. ASSUME NEW i \in InUse, Apply(i) \/ ServeReplicate(i) PROVE Typed'
  BY <1>2, ApplyTyped, ReplicaTyped
<1> QED
  BY <1>1, <1>2

LEMMA TypedInit == Init => Typed
<1> SUFFICES ASSUME Init, NEW s \in Servers PROVE StateTyped(state[s])
  BY DEF Typed, Init
<1>1. /\ state[s].users = {u \in Registered : s \in Owners(u)}
      /\ DOMAIN state[s].channels = {c \in Preset : s \in Owners(c)}
      /\ \A ch \in DOMAIN state[s].channels : state[s].channels[ch] = InitialChannel(ch)
  BY DEF Init
<1>2. \A ch : IsChannel(InitialChannel(ch))
  BY NewChannelTyped, NewChannelOK, MembersTyped DEF InitialChannel
<1> QED
  BY <1>1, <1>2, ReplicationAssumption DEF StateTyped

\* The types of the servers' states and of the handlers: an id that a replica is given is
\* a number, since it is the one the primary chose, and a handler waits for a handler that
\* it has called.
THEOREM TypeCorrect == Spec => []TypeOK
<1>1. IInv /\ Tree /\ Safe /\ Typed /\ [Next]_vars => Typed'
  BY TypedStep
<1>2. IInv /\ Tree /\ Typed => TypeOK
  <2> SUFFICES ASSUME IInv, Tree, Typed PROVE TypeOK
    OBVIOUS
  <2>1. \A s \in Servers : /\ state[s].users \subseteq Users
                           /\ DOMAIN state[s].channels \subseteq Channels
                           /\ \A ch \in DOMAIN state[s].channels : IsChannel(state[s].channels[ch])
    BY DEF Typed, StateTyped
  <2>2. ASSUME NEW i \in InUse
        PROVE  /\ task[i].kind \in {"op", "exists", "replicate", "names"}
               /\ task[i].req \in Requests
               /\ task[i].at \in Servers
               /\ task[i].todo \in Seq(Servers \ {task[i].at})
               /\ task[i].parent \in Slots \cup {Client}
               /\ task[i].child \in InUse \cup {Client}
               /\ task[i].child # Client => task[task[i].child].parent = i
    <3>1. HandlerOK(i) /\ CalleeOK(i) /\ task[i].req \in Requests
      BY Used DEF Tree, IInv
    <3> QED
      BY <3>1 DEF HandlerOK, CalleeOK
  <2> QED
    BY <2>1, <2>2 DEF TypeOK, Typed, Tree, IInv, TasksOK
<1> QED
  BY <1>1, <1>2, TypedInit, Invariance, TreeInvariance, SafeInvariance, PTL DEF Spec

-----------------------------------------------------------------------------
(***************************************************************************)
(* The names that get_users and get_channels list                          *)
(***************************************************************************)
\* What was acknowledged before r, and makes known a name that r lists.
Lists(r, q) ==
  \/ r.op = "get_users" /\ q.op = "create_user"
  \/ r.op = "get_channels" /\ q.op = "join_channel"
Known(r, w) == {q \in Before(r) : Lists(r, q) /\ Acked(q, w)}

OneDown(w) == \A s, t \in Servers \ w.up : s = t

\* A handler that asks the servers for their names.
Gathering(x) == x.req.op \in Gathers /\ x.pc \in {"gather", "gathering"}

\* Each owner of a name is still to be asked, or was asked and had the name, or is dead to
\* the server that asks. A peer that answered has given what it owns.
ListingOK(x, w) ==
  /\ Gathering(x) =>
       /\ DOMAIN x.result = {"code", "value", "by"}
       /\ \A q \in Known(x.req, w) : \A t \in {PrimaryOf(q), BackupOf(q)} :
            Subject(q) \in x.result.value \/ t \in Range(x.todo) \/ ~w.alive[x.at][t]
  /\ x.kind = "names" /\ x.pc = "replied" =>
       \A q \in Known(x.req, w) :
         x.at \in {PrimaryOf(q), BackupOf(q)} => Subject(q) \in x.result.value

\* The peer that is asked is the first of those to be asked, unless that one is dead.
AsksFirst(i) ==
  Gathering(task[i]) /\ task[i].pc = "gathering" =>
    IF task[i].child # Client THEN task[task[i].child].at = Head(task[i].todo)
    ELSE ~alive[At(i)][Head(task[i].todo)]

Listed(r, w) ==
  r.op \in Gathers /\ w.answer[r].code = "OK" /\ OneDown(w) =>
    \A q \in Known(r, w) : Subject(q) \in w.answer[r].value

Listing ==
  /\ \A i \in InUse : ListingOK(task[i], Now) /\ AsksFirst(i)
  /\ \A r \in Requests : Listed(r, Now)

\* A server that owns the name of an acknowledged request has it.
LEMMA KnownHere ==
  ASSUME IInv, Tree, Safe, Next, NEW i \in InUse, At(i) \in up, NEW q \in Known(Req(i), Now'),
         At(i) \in {PrimaryOf(q), BackupOf(q)}
  PROVE  Subject(q) \in Names(state[At(i)], Req(i).op)
<1>1. /\ q \in Before(Req(i)) /\ Lists(Req(i), q) /\ Acked(q, Now')
  BY DEF Known
<1>2. Durable(q, answer[q].value, Now)
  BY <1>1, AckedBefore
<1>3. Kept(state[At(i)], q, answer[q].value)
  BY <1>2, NowFields DEF Durable
<1> QED
  BY <1>1, <1>3, Subjects DEF Kept, Lists, Names, UserExists, ChannelExists

\* What is known to a request under way stays the same.
LEMMA KnownStays ==
  ASSUME NEW v, NEW w, Later(v, w), NEW r \in Requests, Informed(r, v)
  PROVE  Known(r, w) = Known(r, v)
<1>1. \A q \in Before(r) : Acked(q, w) <=> Acked(q, v)
  BY DEF Later, Acked, Informed, Before
<1> QED
  BY <1>1 DEF Known

LEMMA ListingStays ==
  ASSUME NEW v, NEW w, Later(v, w), NEW x, x.req \in Requests, x.at \in Servers,
         Informed(x.req, v), ListingOK(x, v)
  PROVE  ListingOK(x, w)
<1>1. Known(x.req, w) = Known(x.req, v)
  BY KnownStays
<1>2. \A q \in Known(x.req, w) : PrimaryOf(q) \in Servers /\ BackupOf(q) \in Servers
  BY OwnersOf DEF Known, Before, PrimaryOf, BackupOf
<1>3. \A t \in Servers : w.alive[x.at][t] => v.alive[x.at][t]
  BY DEF Later
<1> QED
  BY <1>1, <1>2, <1>3 DEF ListingOK, Gathering

LEMMA ListedStays ==
  ASSUME NEW v, NEW w, Later(v, w), NEW r \in Requests, v.answer[r] # NoResult,
         ToldOK(r, v), Listed(r, v)
  PROVE  Listed(r, w)
<1>1. Known(r, w) = Known(r, v) /\ w.answer[r] = v.answer[r]
  BY KnownStays DEF ToldOK, Later
<1>2. OneDown(w) => OneDown(v)
  BY DEF OneDown, Later
<1> QED
  BY <1>1, <1>2 DEF Listed

\* Handlers stay at their servers.
LEMMA Located ==
  ASSUME IInv, Tree, Next, NEW j \in InUse, j \in InUse'
  PROVE  task'[j].at = task[j].at /\ task'[j].req = task[j].req
<1>0. TasksOK(task, state)
  BY DEF IInv
<1>1. ASSUME NEW i \in InUse, Step(i) \/ Disconnect(i)
      PROVE  task'[j].at = task[j].at /\ task'[j].req = task[j].req
  <2>1. CASE \E pc, result, todo : Turns(i, pc, result, todo)
    BY <2>1, FormLeaves, TaskFields DEF Leaves
  <2>2. ASSUME NEW result, Ends(i, result)
        PROVE  task'[j].at = task[j].at /\ task'[j].req = task[j].req
    <3>1. Leaves(i) /\ task'[i] = Ending(i, result)
      BY <2>2, FormLeaves
    <3>2. task'[j] # Free
      BY NextUsed, FreeFields
    <3> QED
      BY <3>1, <3>2, TaskFields DEF Leaves, Ending
  <2>3. ASSUME NEW kind, NEW to, NEW result, NEW pc, NEW d, Calls(i, d, kind, to, result, pc)
        PROVE  task'[j].at = task[j].at /\ task'[j].req = task[j].req
    <3>1. j \in Slots /\ j # d
      BY <2>3 DEF Calls, InUse
    <3> QED
      BY <2>3, <3>1, TaskFields DEF Calls
  <2> QED
    BY <1>1, <2>1, <2>2, <2>3, StepForms DEF Asks
<1>2. ASSUME NEW r \in Requests, Issue(r)
      PROVE  task'[j].at = task[j].at /\ task'[j].req = task[j].req
  <2>1. PICK d : Starts(d, r)
    BY <1>0, <1>2, IssueForm
  <2> QED
    BY <2>1 DEF Starts, InUse
<1>3. ASSUME NEW s \in Servers, Crash(s)
      PROVE  task'[j].at = task[j].at /\ task'[j].req = task[j].req
  BY <1>0, <1>3, CrashLeaves
<1>4. ASSUME NEW s \in Servers, NEW t \in Servers, MarkDead(s, t)
      PROVE  task'[j].at = task[j].at /\ task'[j].req = task[j].req
  BY <1>4 DEF MarkDead
<1> QED
  BY <1>1, <1>2, <1>3, <1>4 DEF Next

\* What has to be shown of a step: the handlers and the answers that it changes.
LEMMA ListingRest ==
  ASSUME IInv, Tree, Safe, Listing, Next,
         \A j \in InUse' : \/ j \in InUse /\ task'[j] = task[j]
                           \/ ListingOK(task'[j], Now') /\ AsksFirst(j)',
         \A r \in Requests : answer'[r] = answer[r] \/ Listed(r, Now')
  PROVE  Listing'
<1>1. Later(Now, Now') /\ Tree'
  BY StepLater, TreeStep DEF IInv
<1>2. ASSUME NEW j \in InUse', j \in InUse, task'[j] = task[j]
      PROVE  ListingOK(task'[j], Now') /\ AsksFirst(j)'
  <2>1. ListingOK(task'[j], Now')
    BY <1>1, <1>2, InUseOK, ListingStays DEF Listing
  <2>2. ASSUME task[j].child # Client
        PROVE  task'[task[j].child].at = task[task[j].child].at
    <3>1. task[j].child \in InUse /\ task[j].child \in InUse'
      BY <1>1, <1>2, <2>2 DEF Tree, CalleeOK
    <3> QED
      BY <3>1, Located
  <2>3. ASSUME Gathering(task[j]), task[j].pc = "gathering"
        PROVE  Head(task[j].todo) \in Servers
    <3>1. task[j].todo \in Seq(Servers \ {task[j].at}) /\ task[j].todo # <<>>
      BY <1>2, <2>3 DEF Tree, HandlerOK, StandsOK
    <3> QED
      BY <3>1
  <2>4. At(j)' = At(j) /\ At(j) \in Servers
    BY <1>2, InUseOK DEF At
  <2>5. \A t \in Servers : alive'[At(j)][t] => alive[At(j)][t]
    BY <1>1, <2>4, NowFields DEF Later
  <2> QED
    BY <1>2, <2>1, <2>2, <2>3, <2>4, <2>5 DEF Listing, AsksFirst
<1>3. ASSUME NEW r \in Requests, answer'[r] = answer[r] PROVE Listed(r, Now')
  <2>1. CASE answer[r] = NoResult
    <3>1. Now'.answer[r].code # "OK"
      BY <1>3, <2>1, NowFields DEF NoResult
    <3> QED
      BY <3>1 DEF Listed
  <2>2. CASE answer[r] # NoResult
    BY <1>1, <2>2, ListedStays, NowFields DEF Listing, Safe
  <2> QED
    BY <2>1, <2>2
<1>4. /\ \A j \in InUse' : ListingOK(task'[j], Now') /\ AsksFirst(j)'
      /\ \A r \in Requests : Listed(r, Now')
  BY <1>2, <1>3
<1> QED
  BY <1>4 DEF Listing

LEMMA TurnListing ==
  ASSUME IInv, Tree, Safe, Listing, Next, NEW i \in InUse, NEW pc, NEW result, NEW todo,
         Turns(i, pc, result, todo), pc # "gathering",
         ListingOK(Task(task[i], pc, Client, result, todo), Now')
  PROVE  Listing'
<1>1. /\ Leaves(i) /\ task'[i] = Task(task[i], pc, Client, result, todo) /\ answer' = answer
  BY FormLeaves
<1>2. AsksFirst(i)'
  BY <1>1, TaskFields DEF AsksFirst, Gathering
<1> QED
  BY <1>1, <1>2, ListingRest DEF Leaves

LEMMA EndListing ==
  ASSUME IInv, Tree, Safe, Listing, Next, NEW i \in InUse, NEW result,
         Ends(i, result),
         task[i].kind = "names" =>
           \A q \in Known(Req(i), Now') :
             At(i) \in {PrimaryOf(q), BackupOf(q)} => Subject(q) \in result.value,
         Top(i) /\ Req(i).op \in Gathers /\ result.code = "OK" /\ OneDown(Now') =>
           \A q \in Known(Req(i), Now') : Subject(q) \in result.value
  PROVE  Listing'
<1>1. Leaves(i) /\ task'[i] = Ending(i, result)
  BY FormLeaves
<1>2. Req(i) = task[i].req /\ At(i) = task[i].at /\ Req(i) \in Requests
  BY InUseOK
<1>3. ASSUME i \in InUse' PROVE ListingOK(task'[i], Now') /\ AsksFirst(i)'
  <2>1. task'[i] # Free
    BY <1>3, NextUsed, FreeFields
  <2>2. CASE task'[i] = Task(task[i], "lost", Client, task[i].result, task[i].todo)
    BY <2>2, TaskFields DEF ListingOK, AsksFirst, Gathering
  <2>3. CASE task'[i] = Task(task[i], "replied", Client, result, task[i].todo)
    BY <1>2, <2>3, TaskFields DEF ListingOK, AsksFirst, Gathering
  <2> QED
    BY <1>1, <2>1, <2>2, <2>3 DEF Ending
<1>4. ASSUME NEW r \in Requests, answer'[r] # answer[r] PROVE Listed(r, Now')
  <2>1. Top(i) /\ r = Req(i) /\ answer'[r] = result
    BY <1>2, <1>4 DEF Ends, Tree
  <2> QED
    BY <2>1, NowFields DEF Listed
<1> QED
  BY <1>1, <1>3, <1>4, ListingRest DEF Leaves

LEMMA AskListing ==
  ASSUME IInv, Tree, Safe, Listing, Next, NEW i \in InUse, NEW kind, NEW to, NEW result,
         NEW pc, Asks(i, kind, to, result, pc),
         to \in Servers, pc = "gathering" => to = Head(task[i].todo),
         \A d : ListingOK(Task(task[i], pc, d, task[i].result, task[i].todo), Now')
  PROVE  Listing'
<1>1. ASSUME NEW d, Calls(i, d, kind, to, result, pc) PROVE Listing'
  <2>1. /\ d \in Slots \ InUse /\ d # i
        /\ task'[i] = Task(task[i], pc, d, task[i].result, task[i].todo)
        /\ task'[d] = Callee(i, kind, to, result) /\ answer' = answer
        /\ \A j \in Slots \ {i, d} : task'[j] = task[j]
    BY <1>1 DEF Calls
  <2>2. ListingOK(task'[i], Now') /\ AsksFirst(i)'
    <3>1. task'[d].at = to /\ d # Client
      BY <2>1, ClientNoSlot DEF Callee
    <3> QED
      BY <2>1, <3>1, TaskFields DEF AsksFirst, Gathering
  <2>3. ListingOK(task'[d], Now') /\ AsksFirst(d)'
    <3>1. task'[d].pc \in {"lost", "route", "start"}
      BY <2>1 DEF Callee
    <3> QED
      BY <3>1 DEF ListingOK, AsksFirst, Gathering
  <2>4. ASSUME NEW j \in InUse', j # i, j # d PROVE j \in InUse /\ task'[j] = task[j]
    BY <2>1, <2>4, NextUsed DEF InUse
  <2> QED
    BY <2>1, <2>2, <2>3, <2>4, ListingRest
<1>2. ASSUME Turns(i, pc, task[i].result, task[i].todo), ~alive[At(i)][to]
      PROVE  Listing'
  <2>1. /\ Leaves(i) /\ answer' = answer
        /\ task'[i] = Task(task[i], pc, Client, task[i].result, task[i].todo)
    BY <1>2, FormLeaves
  <2>2. ListingOK(task'[i], Now') /\ AsksFirst(i)'
    <3>1. At(i)' = At(i) /\ At(i) \in Servers
      BY <2>1, TaskFields, InUseOK DEF At
    <3>2. ~alive'[At(i)][to]
      BY <1>2, <3>1, StepLater, NowFields DEF Later
    <3> QED
      BY <2>1, <3>1, <3>2, TaskFields DEF AsksFirst, Gathering
  <2> QED
    BY <2>1, <2>2, ListingRest DEF Leaves
<1> QED
  BY <1>1, <1>2 DEF Asks

\* A peer that is asked for its names gives those it owns.
LEMMA NamesListing ==
  ASSUME IInv, Tree, Safe, Listing, Next, NEW i \in InUse, ServeNames(i)
  PROVE  Listing'
<1>1. /\ task[i].kind = "names" /\ task[i].pc = "start" /\ At(i) \in up /\ ~Top(i)
  BY InUseOK DEF ServeNames, Over
<1>2. task[i].pc = "start" /\ task[i].child = Client
  BY <1>1, NoCall
<1>3. Ends(i, TheirNames(i)) \/ (Ends(i, Panicked) /\ At(i) \in poisoned)
  BY <1>2, QuietForms DEF ServeNames, TheirNames, IInv
<1>4. CASE Ends(i, TheirNames(i))
  <2>1. TheirNames(i).value = Names(state[At(i)], Req(i).op)
    BY DEF TheirNames, NoResult
  <2> QED
    BY <1>1, <1>4, <2>1, KnownHere, EndListing
<1>5. CASE Ends(i, Panicked)
  <2>1. \/ task'[i] = Free
        \/ task'[i] = Task(task[i], "lost", Client, task[i].result, task[i].todo)
    BY <1>5, FormLeaves DEF Ending
  <2>2. i \in InUse' => ListingOK(task'[i], Now') /\ AsksFirst(i)'
    BY <2>1, NextUsed, FreeFields, TaskFields DEF ListingOK, AsksFirst, Gathering
  <2>3. Leaves(i) /\ answer' = answer
    BY <1>1, <1>5, FormLeaves DEF Ends
  <2> QED
    BY <2>2, <2>3, ListingRest DEF Leaves
<1> QED
  BY <1>3, <1>4, <1>5

\* The peers that are not dead are to be asked.
LEMMA PeersAsked ==
  ASSUME NEW s \in Servers, NEW t \in Servers \ {s}, alive[s][t]
  PROVE  t \in Range(Peers(s))
<1> DEFINE P(u) == IF u # s /\ alive[s][u] THEN <<u>> ELSE <<>>
<1>1. P("A") \in Seq(Servers) /\ P("B") \in Seq(Servers) /\ P("C") \in Seq(Servers)
  <2>1. \A u \in Servers : <<u>> \in Seq(Servers)
    OBVIOUS
  <2>2. <<>> \in Seq(Servers)
    OBVIOUS
  <2>3. "A" \in Servers /\ "B" \in Servers /\ "C" \in Servers
    BY DEF Servers
  <2>4. \A u \in Servers : P(u) \in Seq(Servers)
    BY <2>1, <2>2
  <2> QED
    BY <2>3, <2>4
<1>2. \A x, y \in Seq(Servers) : /\ x \o y \in Seq(Servers)
                                 /\ Range(x) \subseteq Range(x \o y)
                                 /\ Range(y) \subseteq Range(x \o y)
  <2> TAKE x, y \in Seq(Servers)
  <2>1. x \o y \in Seq(Servers) /\ Len(x \o y) = Len(x) + Len(y)
    OBVIOUS
  <2>2. ASSUME NEW k \in DOMAIN x PROVE x[k] \in Range(x \o y)
    <3>1. k \in DOMAIN (x \o y) /\ (x \o y)[k] = x[k]
      BY <2>1
    <3> QED
      BY <3>1 DEF Range
  <2>3. ASSUME NEW k \in DOMAIN y PROVE y[k] \in Range(x \o y)
    <3>1. Len(x) + k \in DOMAIN (x \o y) /\ (x \o y)[Len(x) + k] = y[k]
      BY <2>1
    <3> QED
      BY <3>1 DEF Range
  <2> QED
    BY <2>1, <2>2, <2>3 DEF Range
<1>3. Range(P("A")) \cup Range(P("B")) \cup Range(P("C")) \subseteq Range(Peers(s))
  <2> HIDE DEF P
  <2>1. Peers(s) = P("A") \o P("B") \o P("C")
    BY DEF Peers, P
  <2> QED
    BY <1>1, <1>2, <2>1
<1>4. t \in Range(P(t))
  <2>1. P(t) = <<t>>
    OBVIOUS
  <2>2. Range(<<t>>) = {t}
    BY DEF Range
  <2> QED
    BY <2>1, <2>2
<1>5. t \in {"A", "B", "C"}
  BY DEF Servers
<1> HIDE DEF P
<1> QED
  BY <1>3, <1>4, <1>5

\* What is left to ask after the first.
LEMMA FirstAsked ==
  ASSUME NEW S, NEW s \in Seq(S), s # <<>>
  PROVE  \A t \in Range(s) : t = Head(s) \/ t \in Range(Tail(s))
<1> SUFFICES ASSUME NEW k \in DOMAIN s PROVE s[k] = Head(s) \/ s[k] \in Range(Tail(s))
  BY DEF Range
<1>1. CASE k = 1
  BY <1>1
<1>2. CASE k # 1
  <2>1. k - 1 \in DOMAIN Tail(s) /\ Tail(s)[k - 1] = s[k]
    BY <1>2
  <2> QED
    BY <2>1 DEF Range
<1> QED
  BY <1>1, <1>2

LEMMA GatherListing ==
  ASSUME IInv, Tree, Safe, Listing, Next, NEW i \in InUse,
         Gather(i) \/ GatherNext(i) \/ Gathered(i) \/ GatherSkips(i) \/ GatherEnds(i)
  PROVE  Listing'
<1> DEFINE x == task[i]
           s == At(i)
           r == Req(i)
<1>0. /\ TasksOK(task, state) /\ UNCHANGED <<state, alive, up>>
      /\ x.pc \in {"route", "gather", "gathering"} /\ x.kind = "op"
      /\ s \in up /\ x.req = r /\ x.at = s /\ s \in Servers /\ r \in Requests
      /\ x.todo \in Seq(Servers \ {s})
      /\ x.pc = "gathering" => x.todo # <<>>
      /\ x.pc \in {"gather", "gathering"} => Gathering(x)
      /\ ListingOK(x, Now') /\ AsksFirst(i)
  <2>1. UNCHANGED <<state, alive, up>> /\ task[i].pc \in {"route", "gather", "gathering"}
    <3> HIDE DEF x, s, r
    <3>1. Gather(i) => UNCHANGED <<state, alive, up>> /\ task[i].pc = "route"
      BY DEF Gather
    <3>2. GatherNext(i) \/ GatherEnds(i) => UNCHANGED <<state, alive, up>> /\ task[i].pc = "gather"
      BY SMTT(40) DEF GatherNext, GatherEnds
    <3>3. Gathered(i) \/ GatherSkips(i) =>
            UNCHANGED <<state, alive, up>> /\ task[i].pc = "gathering"
      BY DEF Gathered, GatherSkips, Answered, Unavailable
    <3> QED
      BY SMTT(40), <3>1, <3>2, <3>3
  <2>2. TasksOK(task, state)
    BY DEF IInv
  <2>3. ListingOK(x, Now') /\ AsksFirst(i)
    BY InUseOK, StepLater, ListingStays DEF Listing
  <2> QED
    BY <2>1, <2>2, <2>3, InUseOK, Working DEF Over, StandsOK, Gathering
<1>1. /\ \A q \in Known(r, Now') : \A t \in {PrimaryOf(q), BackupOf(q)} : t \in Servers
      /\ \A q \in Known(r, Now') : PrimaryOf(q) # BackupOf(q)
  BY OwnersOf DEF Known, Before, PrimaryOf, BackupOf
\* The owners that the handler need no longer ask.
<1>2. x.pc \in {"gather", "gathering"} =>
        /\ DOMAIN x.result = {"code", "value", "by"}
        /\ \A q \in Known(r, Now') : \A t \in {PrimaryOf(q), BackupOf(q)} :
          Subject(q) \in x.result.value \/ t \in Range(x.todo) \/ ~alive'[s][t]
  BY <1>0, NowFields DEF ListingOK
<1>3. ASSUME NEW result, NEW todo, DOMAIN result = {"code", "value", "by"},
             \A q \in Known(r, Now') : \A t \in {PrimaryOf(q), BackupOf(q)} :
               Subject(q) \in result.value \/ t \in Range(todo) \/ ~alive'[s][t]
      PROVE  \A pc, d : ListingOK(Task(x, pc, d, result, todo), Now')
  BY <1>0, <1>3, TaskFields, NowFields DEF ListingOK, Gathering
<1>4. CASE Gather(i)
  <2>1. CASE Ends(i, Panicked)
    BY <1>0, <2>1, EndListing DEF Panicked, NoResult
  <2>2. CASE Turns(i, "gather", OwnNames(i), Peers(s))
    <3>1. ASSUME NEW q \in Known(r, Now'), NEW t \in {PrimaryOf(q), BackupOf(q)}
          PROVE  Subject(q) \in OwnNames(i).value \/ t \in Range(Peers(s)) \/ ~alive'[s][t]
      <4>1. CASE t = s
        BY <1>0, <3>1, <4>1, KnownHere DEF OwnNames
      <4>2. CASE t # s
        BY <1>0, <1>1, <4>2, PeersAsked
      <4> QED
        BY <4>1, <4>2
    <3>2. DOMAIN OwnNames(i) = {"code", "value", "by"}
      BY DEF OwnNames
    <3> QED
      BY <1>3, <2>2, <3>1, <3>2, TurnListing
  <2> QED
    BY <1>0, <1>4, <2>1, <2>2, GatherForms
<1>5. CASE GatherNext(i)
  <2>1. x.pc = "gather"
    BY <1>5 DEF GatherNext
  <2>2. \A pc, d : ListingOK(Task(x, pc, d, x.result, x.todo), Now')
    BY <1>2, <1>3, <2>1
  <2>3. x.todo # <<>> /\ Head(x.todo) \in Servers
    BY <1>0, <1>5 DEF GatherNext
  <2> QED
    BY <1>0, <1>5, <2>2, <2>3, GatherForms, AskListing
<1>6. CASE Gathered(i)
  <2> DEFINE c == x.child
  <2>1. /\ c \in InUse /\ task[c].pc = "replied" /\ task[c].req = r /\ x.pc = "gathering"
        /\ task[c].kind = "names" /\ Answer(i) = task[c].result /\ c # Client
    BY <1>0, <1>6, AnswerForm DEF Gathered, Answered, Waits
  <2>2. task[c].at = Head(x.todo)
    BY <1>0, <2>1 DEF AsksFirst
  <2>3. ListingOK(task[c], Now')
    BY <2>1, InUseOK, StepLater, ListingStays DEF Listing
  <2>4. \A q \in Known(r, Now') :
          Head(x.todo) \in {PrimaryOf(q), BackupOf(q)} => Subject(q) \in Answer(i).value
    BY <2>1, <2>2, <2>3 DEF ListingOK
  <2>5. /\ x.result.value \cup Answer(i).value \subseteq MoreNames(i).value
        /\ DOMAIN MoreNames(i) = {"code", "value", "by"}
    BY <1>2, <2>1 DEF MoreNames
  <2>6. \A q \in Known(r, Now') : \A t \in {PrimaryOf(q), BackupOf(q)} :
          Subject(q) \in MoreNames(i).value \/ t \in Range(Tail(x.todo)) \/ ~alive'[s][t]
    BY <1>0, <1>2, <2>1, <2>4, <2>5, FirstAsked
  <2> QED
    BY <1>0, <1>3, <1>6, <2>5, <2>6, GatherForms, TurnListing
<1>7. CASE GatherSkips(i)
  <2>1. x.pc = "gathering" /\ Unavailable(i, "gathering")
    BY <1>7 DEF GatherSkips, Unavailable
  <2>2. ~alive'[s][Head(x.todo)]
    BY <1>0, <2>1 DEF AsksFirst, Unavailable
  <2>3. \A q \in Known(r, Now') : \A t \in {PrimaryOf(q), BackupOf(q)} :
          Subject(q) \in x.result.value \/ t \in Range(Tail(x.todo)) \/ ~alive'[s][t]
    BY <1>0, <1>2, <2>1, <2>2, FirstAsked
  <2> QED
    BY <1>0, <1>2, <1>3, <1>7, <2>1, <2>3, GatherForms, TurnListing
<1>8. CASE GatherEnds(i)
  <2>1. x.pc = "gather" /\ x.todo = <<>>
    BY <1>8 DEF GatherEnds
  <2>2. Range(x.todo) = {}
    BY <2>1 DEF Range
  <2>3. OneDown(Now') => \A q \in Known(r, Now') : Subject(q) \in x.result.value
    <3> SUFFICES ASSUME OneDown(Now'), NEW q \in Known(r, Now')
                 PROVE  Subject(q) \in x.result.value
      OBVIOUS
    <3>1. \/ Subject(q) \in x.result.value
          \/ ~alive[s][PrimaryOf(q)] /\ ~alive[s][BackupOf(q)]
      BY <1>0, <1>2, <2>1, <2>2
    <3>2. ~(PrimaryOf(q) \notin up /\ BackupOf(q) \notin up)
      BY <1>0, <1>1, NowFields DEF OneDown
    <3> QED
      BY <1>0, <1>1, <3>1, <3>2, MarkedDead
  <2> QED
    BY <1>0, <1>8, <2>3, GatherForms, EndListing
<1> QED
  BY <1>4, <1>5, <1>6, <1>7, <1>8

\* Handlers of other requests, and those that ask for no names.
LEMMA OtherListing ==
  ASSUME IInv, Tree, Safe, Listing, Next, NEW i \in InUse, Step(i) \/ Disconnect(i),
         Req(i).op \notin Gathers, task[i].kind # "names"
  PROVE  Listing'
<1>1. /\ \A w : Known(Req(i), w) = {} /\ Req(i) = task[i].req
  BY InUseOK DEF Known, Lists, Gathers
<1>2. ASSUME NEW j, task'[j].req = Req(i)
      PROVE  ListingOK(task'[j], Now') /\ AsksFirst(j)'
  BY <1>1, <1>2 DEF ListingOK, AsksFirst, Gathering
<1>3. ASSUME NEW pc, NEW result, NEW todo, Turns(i, pc, result, todo) PROVE Listing'
  <2>1. Leaves(i) /\ task'[i] = Task(task[i], pc, Client, result, todo) /\ answer' = answer
    BY <1>3, FormLeaves
  <2>2. ListingOK(task'[i], Now') /\ AsksFirst(i)'
    BY <1>1, <1>2, <2>1, TaskFields
  <2> QED
    BY <2>1, <2>2, ListingRest DEF Leaves
<1>4. ASSUME NEW result, Ends(i, result) PROVE Listing'
  BY <1>1, <1>4, EndListing
<1>5. ASSUME NEW d, NEW kind, NEW to, NEW result, NEW pc, Calls(i, d, kind, to, result, pc)
      PROVE  Listing'
  <2>1. /\ d \in Slots \ InUse /\ d # i /\ task'[i].req = Req(i) /\ task'[d].req = Req(i)
        /\ answer' = answer /\ \A j \in Slots \ {i, d} : task'[j] = task[j]
    BY <1>1, <1>5, TaskFields DEF Calls, Callee
  <2>2. \A j \in InUse' : j # i /\ j # d => j \in InUse /\ task'[j] = task[j]
    BY <2>1, NextUsed DEF InUse
  <2> QED
    BY <1>2, <2>1, <2>2, ListingRest
<1> QED
  BY <1>3, <1>4, <1>5, StepForms DEF Asks

LEMMA HandlerListing ==
  ASSUME IInv, Tree, Safe, Listing, Next, NEW i \in InUse, Step(i) \/ Disconnect(i)
  PROVE  Listing'
<1>0. /\ TasksOK(task, state) /\ Req(i) = task[i].req
      /\ task[i].pc \notin Over \cup {"start"} => task[i].kind = "op"
      /\ PcOK(task[i].kind, Req(i), task[i].at, task[i].pc, state)
      /\ Top(i) => task[i].kind = "op"
  BY InUseOK, Used DEF IInv, TaskOK
<1>1. CASE Gather(i) \/ GatherNext(i) \/ Gathered(i) \/ GatherSkips(i) \/ GatherEnds(i)
  BY <1>1, GatherListing
<1>2. CASE ServeNames(i)
  BY <1>2, NamesListing
<1>3. CASE ServeExists(i) \/ ServeReplicate(i)
  <2>1. task[i].kind \in {"exists", "replicate"}
    BY <1>3 DEF ServeExists, ServeReplicate
  <2>2. PICK result : Ends(i, result)
    BY <1>0, <1>3, ServeForms
  <2> QED
    BY <1>0, <2>1, <2>2, EndListing
<1>4. CASE Disconnect(i)
  <2>1. Top(i) /\ Becomes(i, Free) /\ answer' = [answer EXCEPT ![Req(i)] = Lost]
    BY <1>0, <1>4, DisconnectForm
  <2>2. Ends(i, Lost) /\ Lost.code # "OK"
    BY <2>1 DEF Ends, Ending, Top, Awaited, Lost, NoResult
  <2> QED
    BY <1>0, <2>1, <2>2, EndListing
<1>5. CASE \/ Route(i) \/ Forward(i) \/ ForwardAnswered(i) \/ ForwardRetries(i)
           \/ CheckChannel(i) \/ ExistsHere(i) \/ ExistsElsewhere(i) \/ ExistsForward(i)
           \/ ExistsAnswered(i) \/ ExistsRetries(i) \/ Apply(i)
           \/ Replicate(i) \/ ReplicateAnswered(i) \/ ReplicateUnavailable(i)
  <2>1. \/ task[i].pc \in Routed
        \/ task[i].pc = "route" /\ Req(i).op \notin Gathers
    <3>1. Route(i) => task[i].pc = "route" /\ Req(i).op \notin Gathers
      BY DEF Route
    <3>2. Forward(i) \/ ForwardAnswered(i) \/ ForwardRetries(i) => task[i].pc \in Routed
      BY DEF Forward, ForwardAnswered, ForwardRetries, Answered, Unavailable, Routed
    <3>3. CheckChannel(i) \/ ExistsHere(i) \/ ExistsElsewhere(i) \/ ExistsForward(i) =>
            task[i].pc \in Routed
      BY DEF CheckChannel, ExistsHere, ExistsElsewhere, ExistsForward, Routed
    <3>4. ExistsAnswered(i) \/ ExistsRetries(i) \/ Apply(i) => task[i].pc \in Routed
      BY DEF ExistsAnswered, ExistsRetries, Apply, Answered, Unavailable, Routed
    <3>5. Replicate(i) \/ ReplicateAnswered(i) \/ ReplicateUnavailable(i) =>
            task[i].pc \in Routed
      BY DEF Replicate, ReplicateAnswered, ReplicateUnavailable, Answered, Unavailable, Routed
    <3> QED
      BY <1>5, <3>1, <3>2, <3>3, <3>4, <3>5
  <2>2. Req(i).op \notin Gathers /\ task[i].kind = "op"
    BY <1>0, <2>1 DEF PcOK, Routed, Over
  <2> QED
    BY <2>2, OtherListing
<1> QED
  BY <1>1, <1>2, <1>3, <1>4, <1>5 DEF Step

\* Clients and failures.
LEMMA FailureListing ==
  ASSUME IInv, Tree, Safe, Listing, Next,
         \/ \E r \in Requests : Issue(r)
         \/ \E s \in Servers : Crash(s)
         \/ \E s, t \in Servers : MarkDead(s, t)
  PROVE  Listing'
<1>0. TasksOK(task, state)
  BY DEF IInv
<1>1. ASSUME NEW r \in Requests, Issue(r) PROVE Listing'
  <2>1. answer' = answer
    BY <1>1 DEF Issue
  <2>2. PICK d : Starts(d, r)
    BY <1>0, <1>1, IssueForm
  <2>3. ListingOK(task'[d], Now') /\ AsksFirst(d)'
    <3>1. task'[d].kind = "op" /\ task'[d].pc = "route"
      BY <2>2 DEF Starts, NewTask
    <3> QED
      BY <3>1 DEF ListingOK, AsksFirst, Gathering
  <2>4. \A j \in InUse' : j # d => j \in InUse /\ task'[j] = task[j]
    BY <2>2, NextUsed DEF Starts, InUse
  <2> QED
    BY <2>1, <2>3, <2>4, ListingRest
<1>2. ASSUME NEW s \in Servers, Crash(s) PROVE Listing'
  <2>1. ASSUME NEW j \in InUse'
        PROVE  \/ j \in InUse /\ task'[j] = task[j]
               \/ ListingOK(task'[j], Now') /\ AsksFirst(j)'
    <3>1. j \in InUse /\ (task'[j] = task[j] \/ task'[j].pc = "lost")
      BY <1>0, <1>2, CrashLeaves
    <3> QED
      BY <3>1 DEF ListingOK, AsksFirst, Gathering
  <2>2. ASSUME NEW r \in Requests PROVE answer'[r] = answer[r] \/ Listed(r, Now')
    <3>1. answer'[r] = answer[r] \/ answer'[r] = Lost
      BY <1>0, <1>2, CrashForm
    <3>2. Lost.code # "OK"
      BY DEF Lost, NoResult
    <3> QED
      BY <3>1, <3>2, NowFields DEF Listed
  <2> QED
    BY <2>1, <2>2, ListingRest
<1>3. ASSUME NEW s \in Servers, NEW t \in Servers, MarkDead(s, t) PROVE Listing'
  <2>1. UNCHANGED <<task, answer>> /\ InUse' = InUse
    BY <1>3 DEF MarkDead, InUse
  <2> QED
    BY <2>1, ListingRest
<1> QED
  BY <1>1, <1>2, <1>3

LEMMA ListingInit == Init => Listing
<1> SUFFICES ASSUME Init PROVE Listing
  OBVIOUS
<1>1. InUse = {} /\ \A r \in Requests : answer[r].code # "OK"
  BY FreeFields DEF Init, InUse, NoResult
<1> QED
  BY <1>1, NowFields DEF Listing, Listed

LEMMA ListingStutter ==
  ASSUME Listing, UNCHANGED vars
  PROVE  Listing'
<1>1. UNCHANGED <<state, alive, up, task, answer>>
  BY DEF vars
<1>2. InUse' = InUse /\ Now' = Now
  BY <1>1 DEF InUse, Now
<1> QED
  BY <1>1, <1>2 DEF Listing, AsksFirst, At

\* A handler that asks the servers for their names has, of each name known before it, asked
\* an owner that had it, or is to ask one, or finds both dead.
THEOREM ListingInvariance == Spec => []Listing
<1>1. IInv /\ Tree /\ Safe /\ Listing /\ [Next]_vars => Listing'
  BY HandlerListing, FailureListing, ListingStutter DEF Next
<1> QED
  BY <1>1, ListingInit, Invariance, TreeInvariance, SafeInvariance, PTL DEF Spec

\* As long as no two servers have crashed, get_users lists every acknowledged registration,
\* and get_channels every channel somebody was told to have joined, before it was asked.
\* (With both owners of a name dead no server has the name.)
THEOREM NamesComplete ==
  Spec => []((\A s, t \in Servers \ up : s = t) => NamesListed)
<1>1. Listing /\ (\A s, t \in Servers \ up : s = t) => NamesListed
  <2> SUFFICES ASSUME Listing, \A s, t \in Servers \ up : s = t,
                      NEW r \in Requests, r.op \in Gathers, answer[r].code = "OK",
                      NEW q \in Before(r), Acknowledged(q)
               PROVE  /\ r.op = "get_users" /\ q.op = "create_user" =>
                           q.user \in answer[r].value
                      /\ r.op = "get_channels" /\ q.op = "join_channel" =>
                           q.channel \in answer[r].value
    BY DEF NamesListed
  <2>1. OneDown(Now) /\ Listed(r, Now) /\ Acked(q, Now)
    BY NowFields DEF OneDown, Listing, Acked, Acknowledged, PrimaryOf
  <2>2. Lists(r, q) => Subject(q) \in answer[r].value
    BY <2>1, NowFields DEF Listed, Known
  <2> QED
    BY <2>2, Subjects DEF Lists
<1> QED
  BY <1>1, ListingInvariance, PTL
=============================================================================
