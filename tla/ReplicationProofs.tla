-------------------------- MODULE ReplicationProofs ---------------------------
(***************************************************************************)
(* Who does what among pa2's servers, for any requests, crashes and clients*)
(* that go away. First, that no server forgets what it was told: what a    *)
(* handler saw of the state before it waited for a peer still holds        *)
(* afterwards. Then the tree of calls: who waits for whom, what a handler  *)
(* is doing where it stands, and that every client is answered by the one  *)
(* handler that serves it.                                                 *)
(***************************************************************************)
EXTENDS Replication, DiscordStateProofs

(***************************************************************************)
(* What NothingForgotten rests on                                          *)
(***************************************************************************)
\* A handler's fields, and those of a handler that went on.
Task(x, pc, child, result, todo) ==
  [kind |-> x.kind, req |-> x.req, at |-> x.at, from |-> x.from, parent |-> x.parent,
   child |-> child, pc |-> pc, result |-> result, todo |-> todo]

\* Only operations on one name are routed, a user is asked for after the channel was
\* found, and only what changes a state is replicated. (Who is asked for its names does
\* not matter, for it only reads.)
Routed == {"forward", "forwarded", "check", "exists", "existsForward", "asked", "apply",
           "replicate", "replicating"}
Looked == {"exists", "existsForward", "asked", "apply"}

PcOK(kind, r, s, pc, st) ==
  /\ pc # "free"
  /\ pc \in Routed => r.op \notin Gathers
  /\ pc \in Looked /\ r.op \in {"leave_channel", "send_message"} =>
       ChannelExists(st[s], r.channel)
  /\ pc \in {"replicate", "replicating"} => r.op \in Writes
  /\ pc = "start" /\ kind = "replicate" => r.op \in Writes
  /\ kind = "names" => pc \in {"start", "replied", "lost"}

TaskOK(x, st) ==
  /\ x = Task(x, x.pc, x.child, x.result, x.todo)
  /\ x.pc = "free" => x = Free
  /\ x.pc # "free" => /\ x.req \in Requests
                      /\ x.kind # "names" => x.at \in Servers
                      /\ PcOK(x.kind, x.req, x.at, x.pc, st)

TasksOK(T, st) == DOMAIN T = Slots /\ \A j \in Slots : TaskOK(T[j], st)

StatesOK == DOMAIN state = Servers /\ \A s \in Servers : StateOK(state[s])

IInv == StatesOK /\ TasksOK(task, state)

StatesGrow == \A s \in Servers : Grows(state[s], state'[s])

-----------------------------------------------------------------------------
(***************************************************************************)
(* Handlers                                                                *)
(***************************************************************************)
LEMMA FreeOK == \A st : TaskOK(Free, st)
BY DEF TaskOK, Task, Free

\* What a handler knows of the channels stays true.
LEMMA TasksKeep ==
  ASSUME NEW T, TasksOK(T, state), StatesGrow
  PROVE  TasksOK(T, state')
<1> SUFFICES ASSUME NEW j \in Slots
             PROVE  TaskOK(T[j], state')
  BY DEF TasksOK
<1>1. TaskOK(T[j], state)
  BY DEF TasksOK
<1>2. T[j].pc \in Looked => T[j].pc \notin {"free", "start", "replied", "lost"}
  BY DEF Looked
<1> QED
  BY <1>1, <1>2 DEF TaskOK, PcOK, StatesGrow, Grows, ChannelExists

\* A handler goes on.
LEMMA GoesOn ==
  ASSUME NEW x, NEW st, TaskOK(x, st), NEW pc, NEW child, NEW result, NEW todo,
         x.pc # "free", PcOK(x.kind, x.req, x.at, pc, st)
  PROVE  TaskOK(Task(x, pc, child, result, todo), st)
<1> DEFINE y == Task(x, pc, child, result, todo)
<1>1. /\ y.kind = x.kind /\ y.req = x.req /\ y.at = x.at /\ y.pc = pc
      /\ y = Task(y, y.pc, y.child, y.result, y.todo)
  BY DEF Task
<1>2. pc # "free"
  BY DEF PcOK
<1>3. TaskOK(x, st) /\ x.pc # "free" /\ PcOK(x.kind, x.req, x.at, pc, st)
  OBVIOUS
<1> HIDE DEF y
<1>4. TaskOK(y, st)
  BY <1>1, <1>2, <1>3 DEF TaskOK
<1> QED
  BY <1>4 DEF y

\* A handler with one field changed, and the fields of a handler.
LEMMA Fields ==
  ASSUME NEW x, NEW st, TaskOK(x, st)
  PROVE  /\ \A pc : [x EXCEPT !.pc = pc] = Task(x, pc, x.child, x.result, x.todo)
         /\ \A child : [x EXCEPT !.child = child] = Task(x, x.pc, child, x.result, x.todo)
         /\ \A result : [x EXCEPT !.result = result] = Task(x, x.pc, x.child, result, x.todo)
         /\ \A todo : [x EXCEPT !.todo = todo] = Task(x, x.pc, x.child, x.result, todo)
         /\ \A pc, child, result, todo :
              /\ Task(x, pc, child, result, todo).pc = pc
              /\ Task(x, pc, child, result, todo).child = child
              /\ Task(x, pc, child, result, todo).result = result
              /\ Task(x, pc, child, result, todo).todo = todo
              /\ Task(x, pc, child, result, todo).kind = x.kind
              /\ Task(x, pc, child, result, todo).req = x.req
              /\ Task(x, pc, child, result, todo).at = x.at
BY DEF TaskOK, Task

\* One handler changes to another that may stand there.
LEMMA OneChanges ==
  ASSUME NEW T, NEW st, TasksOK(T, st), NEW i, NEW x, TaskOK(x, st)
  PROVE  TasksOK([T EXCEPT ![i] = x], st)
BY DEF TasksOK

\* A handler that moves to pc.
LEMMA Moves ==
  ASSUME NEW T, NEW st, TasksOK(T, st), NEW i \in Slots, NEW pc,
         T[i].pc # "free", PcOK(T[i].kind, T[i].req, T[i].at, pc, st)
  PROVE  TasksOK([T EXCEPT ![i].pc = pc], st)
<1>1. TaskOK(T[i], st)
  BY DEF TasksOK
<1>2. TaskOK([T[i] EXCEPT !.pc = pc], st)
  BY <1>1, Fields, GoesOn
<1> QED
  BY <1>2, OneChanges

\* A handler that ends leaves what its caller may find.
LEMMA EndedOK ==
  ASSUME NEW T, NEW st, TasksOK(T, st), NEW i \in Slots, NEW result, T[i].pc # "free"
  PROVE  TasksOK(Ended(T, i, result), st)
<1>1. TaskOK(T[i], st)
  BY DEF TasksOK
<1>2. \A pc \in {"lost", "replied"} : PcOK(T[i].kind, T[i].req, T[i].at, pc, st)
  BY DEF PcOK, Routed, Looked
<1>3. TaskOK([T[i] EXCEPT !.pc = "lost"], st)
  BY <1>1, <1>2, Fields, GoesOn
<1>4. TaskOK([[T[i] EXCEPT !.pc = "replied"] EXCEPT !.result = result], st)
  <2>1. [T[i] EXCEPT !.pc = "replied"] = Task(T[i], "replied", T[i].child, T[i].result, T[i].todo)
    BY <1>1, Fields
  <2>2. [[T[i] EXCEPT !.pc = "replied"] EXCEPT !.result = result]
          = Task(T[i], "replied", T[i].child, result, T[i].todo)
    <3>1. [Task(T[i], "replied", T[i].child, T[i].result, T[i].todo)
            EXCEPT !.result = result]
            = Task(T[i], "replied", T[i].child, result, T[i].todo)
      BY DEF Task
    <3> QED
      BY <2>1, <3>1, Zenon
  <2> QED
    BY <1>1, <1>2, <2>2, GoesOn
<1>5. \/ Ended(T, i, result) = [T EXCEPT ![i] = Free]
      \/ Ended(T, i, result) = [T EXCEPT ![i] = [T[i] EXCEPT !.pc = "lost"]]
      \/ Ended(T, i, result) =
           [T EXCEPT ![i] = [[T[i] EXCEPT !.pc = "replied"] EXCEPT !.result = result]]
  BY DEF Ended, TasksOK
<1> QED
  BY <1>3, <1>4, <1>5, FreeOK, OneChanges

\* A handler that lets go of its call is what it was otherwise.
LEMMA ReleasedOK ==
  ASSUME TasksOK(task, state), NEW i \in InUse
  PROVE  /\ TasksOK(Released(i), state)
         /\ Released(i)[i].pc = task[i].pc /\ Released(i)[i].kind = task[i].kind
         /\ Released(i)[i].req = task[i].req /\ Released(i)[i].at = task[i].at
<1>0. i \in Slots /\ task[i].pc # "free"
  BY DEF InUse
<1>1. TaskOK(task[i], state)
  BY <1>0 DEF TasksOK
<1>2. [task[i] EXCEPT !.child = Client]
        = Task(task[i], task[i].pc, Client, task[i].result, task[i].todo)
  BY <1>1, Fields
<1>3. TaskOK([task[i] EXCEPT !.child = Client], state)
  <2>1. PcOK(task[i].kind, task[i].req, task[i].at, task[i].pc, state)
    BY <1>0, <1>1 DEF TaskOK
  <2> QED
    BY <1>0, <1>1, <1>2, <2>1, GoesOn
<1>4. Released(i)[i] = Task(task[i], task[i].pc, Client, task[i].result, task[i].todo)
  BY <1>0, <1>2 DEF Released
<1>5. TasksOK(Released(i), state)
  BY <1>0, <1>3, FreeOK DEF Released, TasksOK
<1> QED
  BY <1>4, <1>5 DEF Task

\* A new handler, at a server, for a request.
LEMMA NewTaskOK ==
  ASSUME NEW st, NEW kind, NEW r \in Requests, NEW s, NEW from, NEW parent, NEW result,
         kind # "names" => s \in Servers,
         kind = "replicate" => r.op \in Writes
  PROVE  /\ TaskOK(NewTask(kind, r, s, from, parent, result), st)
         /\ TaskOK([NewTask(kind, r, s, from, parent, result) EXCEPT !.pc = "lost"], st)
<1> DEFINE x == NewTask(kind, r, s, from, parent, result)
<1>1. TaskOK(x, st)
  BY DEF NewTask, TaskOK, Task, PcOK, Routed, Looked
<1>2. x.pc # "free" /\ PcOK(x.kind, x.req, x.at, "lost", st)
  BY DEF NewTask, PcOK, Routed, Looked
<1> HIDE DEF x
<1>3. TaskOK([x EXCEPT !.pc = "lost"], st)
  BY <1>1, <1>2, Fields, GoesOn
<1> QED
  BY <1>1, <1>3 DEF x

\* A handler that calls a peer, and the handler it calls.
LEMMA CallOK ==
  ASSUME TasksOK(task, state), NEW i \in InUse, NEW kind, NEW to, NEW result, NEW pc,
         Call(i, kind, to, result, pc),
         kind # "names" => to \in Servers,
         kind = "replicate" => task[i].req.op \in Writes,
         PcOK(task[i].kind, task[i].req, task[i].at, pc, state)
  PROVE  TasksOK(task', state)
<1>0. i \in Slots /\ task[i].pc # "free"
  BY DEF InUse
<1>1. TaskOK(task[i], state) /\ DOMAIN task = Slots
  BY <1>0 DEF TasksOK
<1>2. CASE ~alive[task[i].at][to]
  <2>1. task' = [task EXCEPT ![i].pc = pc]
    BY <1>2 DEF Call
  <2> QED
    BY <1>0, <2>1, Moves
<1>3. CASE alive[task[i].at][to]
  <2> DEFINE new == NewTask(kind, task[i].req, to, task[i].at, i, result)
             c == NewSlot(task[i].req)
             x == [[task[i] EXCEPT !.pc = pc] EXCEPT !.child = c]
             y == IF to \in up THEN new ELSE [new EXCEPT !.pc = "lost"]
  <2>1. task' = [[task EXCEPT ![i] = x] EXCEPT ![c] = y]
    BY <1>0, <1>1, <1>3 DEF Call
  <2>2. TaskOK(x, state)
    <3>1. x = Task(task[i], pc, c, task[i].result, task[i].todo)
      <4>1. [task[i] EXCEPT !.pc = pc]
              = Task(task[i], pc, task[i].child, task[i].result, task[i].todo)
        BY <1>1, Fields
      <4>2. [Task(task[i], pc, task[i].child, task[i].result, task[i].todo)
              EXCEPT !.child = c]
              = Task(task[i], pc, c, task[i].result, task[i].todo)
        BY DEF Task
      <4> QED
        BY <4>1, <4>2, Zenon
    <3> QED
      BY <1>0, <1>1, <3>1, GoesOn
  <2>3. TaskOK(y, state)
    <3>1. task[i].req \in Requests
      BY <1>0, <1>1 DEF TaskOK
    <3> QED
      BY <3>1, NewTaskOK
  <2> HIDE DEF x, y, c
  <2>4. TasksOK([task EXCEPT ![i] = x], state)
    BY <2>2, OneChanges
  <2> QED
    BY <2>1, <2>3, <2>4, OneChanges
<1> QED
  BY <1>2, <1>3
-----------------------------------------------------------------------------
(***************************************************************************)
(* Steps                                                                   *)
(***************************************************************************)
\* A step that leaves the states alone.
LEMMA StatesStay ==
  ASSUME StatesOK, UNCHANGED state
  PROVE  StatesOK' /\ StatesGrow
BY Same DEF StatesOK, StatesGrow

\* One server's state grows.
LEMMA OneGrows ==
  ASSUME StatesOK, NEW s \in Servers, NEW tt, StateOK(tt), Grows(state[s], tt),
         state' = [state EXCEPT ![s] = tt]
  PROVE  StatesOK' /\ StatesGrow
<1>1. \A t \in Servers : state'[t] = IF t = s THEN tt ELSE state[t]
  BY DEF StatesOK
<1> QED
  BY <1>1, Same DEF StatesOK, StatesGrow

\* What a handler in use is.
LEMMA Handler ==
  ASSUME IInv, NEW i \in InUse
  PROVE  /\ i \in Slots /\ task[i].pc # "free" /\ TaskOK(task[i], state)
         /\ Req(i) = task[i].req /\ At(i) = task[i].at
         /\ Req(i) \in Requests
         /\ task[i].pc \notin {"start", "replied", "lost"} \/ task[i].kind # "names" =>
              At(i) \in Servers
         /\ PcOK(task[i].kind, task[i].req, task[i].at, task[i].pc, state)
BY DEF IInv, InUse, TasksOK, TaskOK, Req, At, PcOK

\* A handler that ends, as it is or after it has let go of its call.
LEMMA EndKeeps ==
  ASSUME IInv, NEW i \in InUse, NEW result,
         End(task, i, result) \/ End(Released(i), i, result)
  PROVE  TasksOK(task', state)
<1>1. CASE End(task, i, result)
  BY <1>1, Handler, EndedOK DEF End, IInv
<1>2. CASE End(Released(i), i, result)
  BY <1>2, Handler, ReleasedOK, EndedOK DEF End, IInv
<1> QED
  BY <1>1, <1>2

\* A handler that lets go of its call and goes on.
LEMMA RestartKeeps ==
  ASSUME IInv, NEW i \in InUse, NEW pc,
         PcOK(Released(i)[i].kind, Released(i)[i].req, Released(i)[i].at, pc, state)
  PROVE  TasksOK([Released(i) EXCEPT ![i].pc = pc], state)
<1>1. TasksOK(Released(i), state) /\ Released(i)[i].pc = task[i].pc
  BY ReleasedOK DEF IInv
<1>2. i \in Slots /\ Released(i)[i].pc # "free"
  BY <1>1, Handler
<1> QED
  BY <1>1, <1>2, Moves

\* The owners of a user or a channel are servers.
LEMMA OwnerServers ==
  \A r \in Requests : \A name \in {Subject(r), r.user} :
    Owner(name).primary \in Servers /\ Owner(name).backup \in Servers
<1> SUFFICES ASSUME NEW r \in Requests, NEW name \in {Subject(r), r.user}
             PROVE  Owner(name).primary \in Servers /\ Owner(name).backup \in Servers
  OBVIOUS
<1>1. Hash \in [Users \cup Channels -> 0 .. 2] /\ r.user \in Users /\ r.channel \in Channels
  BY ReplicationAssumption
<1>2. Hash[name] \in 0 .. 2
  BY <1>1 DEF Subject
<1>3. Hash[name] = 0 \/ Hash[name] = 1 \/ Hash[name] = 2
  BY <1>2
<1> QED
  BY <1>3 DEF Owner, Servers

\* Forwarding, and what comes back.
LEMMA ForwardSteps ==
  ASSUME IInv, NEW i \in InUse,
         Route(i) \/ Forward(i) \/ ForwardAnswered(i) \/ ForwardRetries(i)
  PROVE  TasksOK(task', state)
<1> USE Handler
<1>1. CASE Route(i)
  <2>1. PICK pc \in {"forward", "apply", "exists", "check"} :
          /\ task' = [task EXCEPT ![i].pc = pc]
          /\ Req(i).op \notin Gathers
          /\ pc \in {"apply", "exists"} => Req(i).op \notin {"leave_channel", "send_message"}
    BY <1>1 DEF Route
  <2>2. PcOK(task[i].kind, task[i].req, task[i].at, pc, state)
    BY <1>1, <2>1 DEF PcOK, Routed, Looked, Route
  <2> QED
    BY <2>1, <2>2, Moves DEF IInv
<1>2. CASE Forward(i)
  <2>1. Location(At(i), OwnerOf(i)) \in Servers
    BY OwnerServers DEF Location, OwnerOf
  <2>2. PcOK(task[i].kind, task[i].req, task[i].at, "forwarded", state)
    BY <1>2 DEF Forward, PcOK, Routed, Looked
  <2>3. CASE Location(At(i), OwnerOf(i)) = At(i)
    BY <1>2, <2>3, EndKeeps DEF Forward
  <2>4. CASE Location(At(i), OwnerOf(i)) # At(i)
    BY <1>2, <2>1, <2>2, <2>4, CallOK DEF Forward, IInv
  <2> QED
    BY <2>3, <2>4
<1>3. CASE ForwardAnswered(i)
  BY <1>3, EndKeeps DEF ForwardAnswered
<1>4. CASE ForwardRetries(i)
  <2>1. PcOK(Released(i)[i].kind, Released(i)[i].req, Released(i)[i].at, "route", state)
    BY <1>4, ReleasedOK DEF PcOK, Routed, Looked, ForwardRetries, Unavailable, IInv
  <2> QED
    BY <1>4, <2>1, RestartKeeps DEF ForwardRetries
<1> QED
  BY <1>1, <1>2, <1>3, <1>4

\* Asking for the channel, and for the user.
LEMMA ExistsSteps ==
  ASSUME IInv, NEW i \in InUse,
         \/ CheckChannel(i) \/ ExistsHere(i) \/ ExistsElsewhere(i) \/ ExistsForward(i)
         \/ ExistsAnswered(i) \/ ExistsRetries(i)
  PROVE  TasksOK(task', state)
<1> USE Handler
<1>1. ASSUME NEW pc \in Looked, task[i].pc \in Looked
      PROVE  PcOK(task[i].kind, task[i].req, task[i].at, pc, state)
  BY <1>1 DEF PcOK, Looked, Routed
<1>2. ASSUME NEW pc \in Looked, task' = [task EXCEPT ![i].pc = pc],
             PcOK(task[i].kind, task[i].req, task[i].at, pc, state)
      PROVE  TasksOK(task', state)
  BY <1>2, Moves DEF IInv
<1>3. ASSUME NEW pc \in Looked, task' = [Released(i) EXCEPT ![i].pc = pc],
             task[i].pc \in Looked
      PROVE  TasksOK(task', state)
  <2>1. PcOK(Released(i)[i].kind, Released(i)[i].req, Released(i)[i].at, pc, state)
    BY <1>1, <1>3, ReleasedOK DEF IInv
  <2> QED
    BY <1>3, <2>1, RestartKeeps
<1>4. CASE CheckChannel(i)
  <2>1. ASSUME ChannelExists(state[At(i)], Req(i).channel)
        PROVE  PcOK(task[i].kind, task[i].req, task[i].at, "exists", state)
    BY <1>4, <2>1 DEF PcOK, Looked, Routed, CheckChannel
  <2> QED
    BY <1>2, <1>4, <2>1, EndKeeps DEF CheckChannel, Looked
<1>5. CASE ExistsHere(i)
  BY <1>1, <1>2, <1>5, EndKeeps DEF ExistsHere, Looked
<1>6. CASE ExistsElsewhere(i)
  BY <1>1, <1>2, <1>6 DEF ExistsElsewhere, Looked
<1>7. CASE ExistsForward(i)
  <2>1. Location(At(i), Owner(Req(i).user)) \in Servers
    BY OwnerServers DEF Location
  <2>2. PcOK(task[i].kind, task[i].req, task[i].at, "asked", state)
    BY <1>1, <1>7 DEF ExistsForward, Looked
  <2>3. CASE Location(At(i), Owner(Req(i).user)) = At(i)
    BY <1>7, <2>3, EndKeeps DEF ExistsForward
  <2>4. CASE Location(At(i), Owner(Req(i).user)) # At(i)
    BY <1>7, <2>1, <2>2, <2>4, CallOK DEF ExistsForward, IInv
  <2> QED
    BY <2>3, <2>4
<1>8. CASE ExistsAnswered(i)
  BY <1>3, <1>8, EndKeeps DEF ExistsAnswered, Answered, Looked
<1>9. CASE ExistsRetries(i)
  BY <1>3, <1>9 DEF ExistsRetries, Unavailable, Looked
<1> QED
  BY <1>4, <1>5, <1>6, <1>7, <1>8, <1>9

\* Replicating, and what comes back.
LEMMA ReplicateSteps ==
  ASSUME IInv, NEW i \in InUse,
         Replicate(i) \/ ReplicateAnswered(i) \/ ReplicateUnavailable(i)
  PROVE  TasksOK(task', state)
<1> USE Handler
<1>1. CASE Replicate(i)
  <2> DEFINE backup == OwnerOf(i).backup
  <2>1. backup \in Servers
    BY OwnerServers DEF OwnerOf
  <2>2. /\ task[i].req.op \in Writes
        /\ PcOK(task[i].kind, task[i].req, task[i].at, "replicating", state)
    BY <1>1 DEF Replicate, PcOK, Routed, Looked
  <2>3. CASE backup = At(i) \/ ~alive[At(i)][backup]
    BY <1>1, <2>3, EndKeeps DEF Replicate
  <2>4. CASE ~(backup = At(i) \/ ~alive[At(i)][backup])
    <3>1. Call(i, "replicate", backup, task[i].result, "replicating")
      BY <1>1, <2>4 DEF Replicate
    <3> HIDE DEF backup
    <3> QED
      BY <2>1, <2>2, <3>1, CallOK DEF IInv
  <2> QED
    BY <2>3, <2>4
<1>2. CASE ReplicateAnswered(i)
  BY <1>2, EndKeeps DEF ReplicateAnswered
<1>3. CASE ReplicateUnavailable(i)
  BY <1>3, EndKeeps DEF ReplicateUnavailable
<1> QED
  BY <1>1, <1>2, <1>3

\* A handler at work on names, with any of its results and servers still to be asked.
LEMMA GatherKeeps ==
  ASSUME IInv, NEW i \in InUse, NEW T, TasksOK(T, state),
         T[i].pc # "free", T[i].kind # "names", NEW result, NEW todo
  PROVE  TasksOK([T EXCEPT ![i] = Task(T[i], "gather", T[i].child, result, todo)], state)
<1>1. TaskOK(T[i], state)
  BY Handler DEF TasksOK
<1>2. PcOK(T[i].kind, T[i].req, T[i].at, "gather", state)
  BY DEF PcOK, Routed, Looked
<1> QED
  BY <1>1, <1>2, GoesOn, OneChanges

\* Asking the servers for their names.
LEMMA GatherSteps ==
  ASSUME IInv, NEW i \in InUse,
         Gather(i) \/ GatherNext(i) \/ Gathered(i) \/ GatherSkips(i) \/ GatherEnds(i)
  PROVE  TasksOK(task', state)
<1> USE Handler
<1>0. TasksOK(task, state)
  BY DEF IInv
<1>1. CASE Gather(i)
  <2>1. CASE At(i) \in poisoned
    BY <1>1, <2>1, EndKeeps DEF Gather
  <2>2. CASE At(i) \notin poisoned
    <3>1. PICK result, todo :
            task' = [task EXCEPT ![i].pc = "gather", ![i].todo = todo, ![i].result = result]
      BY <1>1, <2>2 DEF Gather
    <3>2. task' = [task EXCEPT ![i] = Task(task[i], "gather", task[i].child, result, todo)]
      <4>1. TaskOK(task[i], state) /\ DOMAIN task = Slots /\ i \in Slots
        BY <1>0 DEF TasksOK
      <4>2. [[[task[i] EXCEPT !.pc = "gather"] EXCEPT !.todo = todo] EXCEPT !.result = result]
              = Task(task[i], "gather", task[i].child, result, todo)
        <5>1. [task[i] EXCEPT !.pc = "gather"]
                  = Task(task[i], "gather", task[i].child, task[i].result, task[i].todo)
          BY <4>1, Fields, Zenon
        <5>2. [Task(task[i], "gather", task[i].child, task[i].result, task[i].todo)
                EXCEPT !.todo = todo]
                  = Task(task[i], "gather", task[i].child, task[i].result, todo)
          BY DEF Task
        <5>3. [Task(task[i], "gather", task[i].child, task[i].result, todo)
                EXCEPT !.result = result]
                  = Task(task[i], "gather", task[i].child, result, todo)
          BY DEF Task
        <5> QED
          BY <5>1, <5>2, <5>3, Zenon
      <4>3. task' = [task EXCEPT ![i] = [[[task[i] EXCEPT !.pc = "gather"]
                                            EXCEPT !.todo = todo] EXCEPT !.result = result]]
        BY <3>1, <4>1
      <4> QED
        BY <4>2, <4>3, Zenon
    <3>3. task[i].kind # "names"
      BY <1>1 DEF Gather, PcOK
    <3> QED
      BY <1>0, <3>2, <3>3, GatherKeeps
  <2> QED
    BY <2>1, <2>2
<1>2. CASE GatherNext(i)
  <2>1. PcOK(task[i].kind, task[i].req, task[i].at, "gathering", state)
    BY <1>2 DEF GatherNext, PcOK, Routed, Looked
  <2> QED
    BY <1>0, <1>2, <2>1, CallOK DEF GatherNext
<1>3. CASE Gathered(i)
  <2> DEFINE T == Released(i)
             names == T[i].result.value \cup Answer(i).value
             result == [T[i].result EXCEPT !.value = names]
             N == [T EXCEPT ![i].result.value = names]
  <2>1. /\ TasksOK(T, state) /\ T[i].pc = "gathering" /\ T[i].kind = task[i].kind
        /\ task[i].pc = "gathering"
    BY <1>0, <1>3, ReleasedOK DEF Gathered, Answered
  <2>2. TaskOK(T[i], state) /\ DOMAIN T = Slots /\ i \in Slots
    BY <2>1 DEF TasksOK
  <2>3. task' = [N EXCEPT ![i].pc = "gather", ![i].todo = Tail(N[i].todo)]
    BY <1>3 DEF Gathered, With
  <2>4. T[i].kind # "names"
    BY <2>1 DEF PcOK
  <2> HIDE DEF T, names
  <2>5. task' = [T EXCEPT ![i] = Task(T[i], "gather", T[i].child, result, Tail(T[i].todo))]
    <3>1. [T EXCEPT ![i].result.value = names] = [T EXCEPT ![i] = [T[i] EXCEPT !.result = result]]
      BY <2>2
    <3>2. [T[i] EXCEPT !.result = result].todo = T[i].todo
      <4>1. [T[i] EXCEPT !.result = result]
              = Task(T[i], T[i].pc, T[i].child, result, T[i].todo)
        BY <2>2, Fields, Zenon
      <4> QED
        BY <4>1 DEF Task
    <3> HIDE DEF result
    <3> DEFINE x == [T[i] EXCEPT !.result = result]
    <3>3. task' = [T EXCEPT ![i] = [[[T[i] EXCEPT !.result = result] EXCEPT !.pc = "gather"]
                                      EXCEPT !.todo = Tail(T[i].todo)]]
      <4>1. N[i] = x /\ x.todo = T[i].todo
        BY <2>2, <3>1, <3>2
      <4> HIDE DEF x, N
      <4>2. task' = [N EXCEPT ![i] = [[N[i] EXCEPT !.pc = "gather"]
                                         EXCEPT !.todo = Tail(N[i].todo)]]
        BY <2>3
      <4>3. N = [T EXCEPT ![i] = x]
        BY <3>1 DEF N, x
      <4>4. task' = [T EXCEPT ![i] = [[x EXCEPT !.pc = "gather"] EXCEPT !.todo = Tail(T[i].todo)]]
        BY <2>2, <4>1, <4>2, <4>3
      <4> QED
        BY <4>4 DEF x
    <3> DEFINE todo == Tail(T[i].todo)
    <3> HIDE DEF todo
    <3>4. [[[T[i] EXCEPT !.result = result] EXCEPT !.pc = "gather"] EXCEPT !.todo = todo]
            = Task(T[i], "gather", T[i].child, result, todo)
      <4>1. [T[i] EXCEPT !.result = result]
              = Task(T[i], T[i].pc, T[i].child, result, T[i].todo)
        BY <2>2, Fields, Zenon
      <4>2. [Task(T[i], T[i].pc, T[i].child, result, T[i].todo) EXCEPT !.pc = "gather"]
              = Task(T[i], "gather", T[i].child, result, T[i].todo)
        BY DEF Task
      <4>3. [Task(T[i], "gather", T[i].child, result, T[i].todo)
              EXCEPT !.todo = todo]
              = Task(T[i], "gather", T[i].child, result, todo)
        BY DEF Task
      <4> QED
        BY <4>1, <4>2, <4>3, Zenon
    <3> QED
      BY <3>3, <3>4 DEF todo
  <2> QED
    BY <2>1, <2>4, <2>5, GatherKeeps
<1>4. CASE GatherSkips(i)
  <2> DEFINE T == Released(i)
  <2>1. /\ TasksOK(T, state) /\ T[i].pc = "gathering" /\ T[i].kind = task[i].kind
        /\ task[i].pc = "gathering"
    BY <1>0, <1>4, ReleasedOK DEF GatherSkips, Unavailable
  <2>2. TaskOK(T[i], state) /\ DOMAIN T = Slots /\ i \in Slots
    BY <2>1 DEF TasksOK
  <2>3. task' = [T EXCEPT ![i].pc = "gather", ![i].todo = Tail(T[i].todo)]
    BY <1>4 DEF GatherSkips
  <2>4. T[i].kind # "names"
    BY <2>1 DEF PcOK
  <2> HIDE DEF T
  <2>5. task' = [T EXCEPT ![i] = Task(T[i], "gather", T[i].child, T[i].result, Tail(T[i].todo))]
    <3> DEFINE todo == Tail(T[i].todo)
    <3> HIDE DEF todo
    <3>1. [[T[i] EXCEPT !.pc = "gather"] EXCEPT !.todo = todo]
            = Task(T[i], "gather", T[i].child, T[i].result, todo)
      <4>1. [T[i] EXCEPT !.pc = "gather"]
              = Task(T[i], "gather", T[i].child, T[i].result, T[i].todo)
        BY <2>2, Fields, Zenon
      <4>2. [Task(T[i], "gather", T[i].child, T[i].result, T[i].todo)
              EXCEPT !.todo = todo]
              = Task(T[i], "gather", T[i].child, T[i].result, todo)
        BY DEF Task
      <4> QED
        BY <4>1, <4>2, Zenon
    <3> QED
      BY <2>2, <2>3, <3>1 DEF todo
  <2> QED
    BY <2>1, <2>4, <2>5, GatherKeeps
<1>5. CASE GatherEnds(i)
  BY <1>5, EndKeeps DEF GatherEnds
<1> QED
  BY <1>1, <1>2, <1>3, <1>4, <1>5

\* The steps that change a state: the operation on this server,
LEMMA ApplyStep ==
  ASSUME IInv, NEW i \in InUse, Apply(i)
  PROVE  StatesOK' /\ StatesGrow /\ TasksOK(task', state')
<1> USE Handler
<1> DEFINE st == state[At(i)]
           r == Req(i)
           e == OpEffect(st, r)
           result == By(At(i), e.result)
<1>1. /\ At(i) \in Servers /\ r.op \in Ops \ Gathers
      /\ r.op \in {"leave_channel", "send_message"} => r.channel \in DOMAIN st.channels
      /\ StateOK(st) /\ StatesOK
  <2>1. task[i].pc = "apply"
    BY DEF Apply
  <2>2. r.op \in Ops
    BY ReplicationAssumption
  <2>3. task[i].kind # "names"
    BY <2>1 DEF PcOK
  <2>4. At(i) \in Servers
    BY <2>1
  <2> QED
    BY <2>1, <2>2, <2>4 DEF PcOK, Routed, Looked, ChannelExists, IInv, StatesOK
<1>2. StateOK(e.state) /\ Grows(st, e.state)
  <2> HIDE DEF st, r
  <2>1. CASE r.op = "create_user"
    BY <1>1, <2>1, CreateUserGrows DEF OpEffect
  <2>2. CASE r.op = "join_channel"
    BY <1>1, <2>2, JoinChannelGrows DEF OpEffect
  <2>3. CASE r.op = "leave_channel"
    BY <1>1, <2>3, LeaveChannelGrows DEF OpEffect
  <2>4. CASE r.op = "send_message"
    BY <1>1, <2>4, SendMessageGrows DEF OpEffect
  <2>5. CASE r.op \in {"list_channel_users", "get_messages"}
    BY <1>1, <2>5, ReadsGrow, Same DEF OpEffect
  <2> QED
    BY <1>1, <2>1, <2>2, <2>3, <2>4, <2>5 DEF Ops, Gathers
<1>3. StatesOK' /\ StatesGrow
  <2>1. CASE At(i) \in poisoned
    BY <1>1, <2>1, StatesStay DEF Apply
  <2>2. CASE At(i) \notin poisoned
    <3>1. state' = [state EXCEPT ![At(i)] = e.state]
      BY <2>2 DEF Apply
    <3> HIDE DEF e
    <3> QED
      BY <1>1, <1>2, <3>1, OneGrows
  <2> QED
    BY <2>1, <2>2
<1>4. TasksOK(task', state)
  <2>1. CASE r.op \in Writes /\ task' = [task EXCEPT ![i].pc = "replicate", ![i].result = result]
    <3>1. TaskOK(task[i], state) /\ DOMAIN task = Slots
      BY DEF IInv, TasksOK
    <3>2. PcOK(task[i].kind, task[i].req, task[i].at, "replicate", state)
      BY <2>1 DEF PcOK, Routed, Looked, Apply
    <3> HIDE DEF result
    <3>3. [[task[i] EXCEPT !.pc = "replicate"] EXCEPT !.result = result]
            = Task(task[i], "replicate", task[i].child, result, task[i].todo)
      <4>1. [task[i] EXCEPT !.pc = "replicate"]
              = Task(task[i], "replicate", task[i].child, task[i].result, task[i].todo)
        BY <3>1, Fields, Zenon
      <4>2. [Task(task[i], "replicate", task[i].child, task[i].result, task[i].todo)
              EXCEPT !.result = result]
              = Task(task[i], "replicate", task[i].child, result, task[i].todo)
        BY DEF Task
      <4> QED
        BY <4>1, <4>2, Zenon
    <3>4. TaskOK(Task(task[i], "replicate", task[i].child, result, task[i].todo), state)
      BY <3>1, <3>2, GoesOn
    <3>5. task' = [task EXCEPT ![i] =
                     [[task[i] EXCEPT !.pc = "replicate"] EXCEPT !.result = result]]
      BY <2>1, <3>1
    <3> QED
      BY <3>3, <3>4, <3>5, OneChanges DEF IInv
  <2>2. CASE \E x : End(task, i, x)
    BY <2>2, EndKeeps
  <2> QED
    BY <2>1, <2>2 DEF Apply
<1> QED
  BY <1>3, <1>4, TasksKeep

\* and the replica's.
LEMMA ServeReplicateStep ==
  ASSUME IInv, NEW i \in InUse, ServeReplicate(i)
  PROVE  StatesOK' /\ StatesGrow /\ TasksOK(task', state')
<1> USE Handler
<1> DEFINE st == state[At(i)]
           r == Req(i)
           e == ReplicaEffect(st, r, task[i].result)
<1>1. /\ At(i) \in Servers /\ r.op \in Writes
      /\ StateOK(st) /\ StatesOK
  BY DEF ServeReplicate, PcOK, IInv, StatesOK
<1>2. ASSUME ~ChannelMissing(i)
      PROVE  StateOK(e.state) /\ Grows(st, e.state)
  <2>0. r.op = "send_message" => r.channel \in DOMAIN st.channels
    BY <1>2 DEF ChannelMissing, ChannelExists
  <2> HIDE DEF st, r
  <2>1. CASE r.op = "create_user"
    BY <1>1, <2>1, CreateUserGrows DEF ReplicaEffect
  <2>2. CASE r.op = "join_channel"
    BY <1>1, <2>2, JoinChannelGrows DEF ReplicaEffect
  <2>3. CASE r.op = "leave_channel"
    BY <1>1, <2>3, LeaveChannelGrows, Same DEF ReplicaEffect, ChannelExists, Effect
  <2>4. CASE r.op = "send_message"
    BY <1>1, <2>0, <2>4, ReplicateGrows DEF ReplicaEffect
  <2> QED
    BY <1>1, <2>1, <2>2, <2>3, <2>4 DEF Writes
<1>3. StatesOK' /\ StatesGrow
  <2>1. CASE At(i) \in poisoned \/ ChannelMissing(i)
    BY <1>1, <2>1, StatesStay DEF ServeReplicate
  <2>2. CASE ~(At(i) \in poisoned \/ ChannelMissing(i))
    <3>1. state' = [state EXCEPT ![At(i)] = e.state]
      BY <2>2 DEF ServeReplicate
    <3> HIDE DEF e
    <3> QED
      BY <1>1, <1>2, <2>2, <3>1, OneGrows
  <2> QED
    BY <2>1, <2>2
<1>4. TasksOK(task', state)
  <2>1. \E x : End(task, i, x)
    BY DEF ServeReplicate
  <2> QED
    BY <2>1, EndKeeps
<1> QED
  BY <1>3, <1>4, TasksKeep

\* Requests, clients that go away, and crashes.
LEMMA OtherSteps ==
  ASSUME IInv,
         \/ \E r \in Requests : Issue(r)
         \/ \E i \in InUse : Disconnect(i)
         \/ \E s \in Servers : Crash(s)
         \/ \E s, t \in Servers : MarkDead(s, t)
  PROVE  TasksOK(task', state)
<1>0. TasksOK(task, state)
  BY DEF IInv
<1>1. ASSUME NEW r \in Requests, Issue(r)
      PROVE  TasksOK(task', state)
  <2>1. r.at \in Servers
    BY ReplicationAssumption
  <2>2. TaskOK(NewTask("op", r, r.at, r.at, Client, NoResult), state)
    BY <2>1, NewTaskOK
  <2> QED
    BY <1>0, <1>1, <2>2, OneChanges DEF Issue
<1>2. ASSUME NEW i \in InUse, Disconnect(i)
      PROVE  TasksOK(task', state)
  <2>1. TasksOK(Released(i), state)
    BY <1>0, ReleasedOK
  <2> QED
    BY <1>2, <2>1, FreeOK, OneChanges DEF Disconnect
<1>3. ASSUME NEW s \in Servers, Crash(s)
      PROVE  TasksOK(task', state)
  <2>1. DOMAIN task' = Slots
    BY <1>3 DEF Crash
  <2>2. ASSUME NEW j \in Slots PROVE TaskOK(task'[j], state)
    <3>1. \/ task'[j] = Free \/ task'[j] = task[j]
          \/ /\ Awaited(j)
             /\ task'[j] = [[task[j] EXCEPT !.pc = "lost"] EXCEPT !.child = Client]
      BY <1>3 DEF Crash
    <3>2. TaskOK(task[j], state)
      BY <1>0 DEF TasksOK
    <3>3. Awaited(j) => task[j].pc # "free"
      BY <3>2 DEF Awaited, TaskOK, Free
    <3>4. ASSUME task[j].pc # "free"
          PROVE  TaskOK([[task[j] EXCEPT !.pc = "lost"] EXCEPT !.child = Client], state)
      <4>1. PcOK(task[j].kind, task[j].req, task[j].at, "lost", state)
        BY DEF PcOK, Routed, Looked
      <4>2. [[task[j] EXCEPT !.pc = "lost"] EXCEPT !.child = Client]
              = Task(task[j], "lost", Client, task[j].result, task[j].todo)
        <5>1. [task[j] EXCEPT !.pc = "lost"]
                = Task(task[j], "lost", task[j].child, task[j].result, task[j].todo)
          BY <3>2, Fields, Zenon
        <5>2. [Task(task[j], "lost", task[j].child, task[j].result, task[j].todo)
                EXCEPT !.child = Client]
                = Task(task[j], "lost", Client, task[j].result, task[j].todo)
          BY DEF Task
        <5> QED
          BY <5>1, <5>2, Zenon
      <4> QED
        BY <3>2, <3>4, <4>1, <4>2, GoesOn
    <3> QED
      BY SMTT(40), <3>1, <3>2, <3>3, <3>4, FreeOK
  <2> QED
    BY <2>1, <2>2 DEF TasksOK
<1>4. ASSUME NEW s \in Servers, NEW t \in Servers, MarkDead(s, t)
      PROVE  TasksOK(task', state)
  BY <1>0, <1>4 DEF MarkDead
<1> QED
  BY <1>1, <1>2, <1>3, <1>4

\* Every step keeps the invariant, and no state shrinks.
LEMMA EveryStep ==
  ASSUME IInv, Next
  PROVE  IInv' /\ StatesGrow
<1>0. StatesOK
  BY DEF IInv
<1>1. ASSUME UNCHANGED state, TasksOK(task', state)
      PROVE  IInv' /\ StatesGrow
  <2>1. StatesOK' /\ StatesGrow
    BY <1>0, <1>1, StatesStay
  <2>2. TasksOK(task', state')
    BY <1>1
  <2> QED
    BY <2>1, <2>2 DEF IInv
<1>2. ASSUME NEW i \in InUse,
             Route(i) \/ Forward(i) \/ ForwardAnswered(i) \/ ForwardRetries(i)
      PROVE  IInv' /\ StatesGrow
  BY <1>1, <1>2, ForwardSteps DEF Route, Forward, ForwardAnswered, ForwardRetries
<1>3. ASSUME NEW i \in InUse,
             \/ CheckChannel(i) \/ ExistsHere(i) \/ ExistsElsewhere(i) \/ ExistsForward(i)
             \/ ExistsAnswered(i) \/ ExistsRetries(i)
      PROVE  IInv' /\ StatesGrow
  <2>1. UNCHANGED state
    BY <1>3 DEF CheckChannel, ExistsHere, ExistsElsewhere, ExistsForward, ExistsAnswered,
                ExistsRetries
  <2> QED
    BY <1>1, <1>3, <2>1, ExistsSteps
<1>4. ASSUME NEW i \in InUse,
             Replicate(i) \/ ReplicateAnswered(i) \/ ReplicateUnavailable(i)
      PROVE  IInv' /\ StatesGrow
  BY <1>1, <1>4, ReplicateSteps DEF Replicate, ReplicateAnswered, ReplicateUnavailable
<1>5. ASSUME NEW i \in InUse,
             Gather(i) \/ GatherNext(i) \/ Gathered(i) \/ GatherSkips(i) \/ GatherEnds(i)
      PROVE  IInv' /\ StatesGrow
  <2>1. UNCHANGED state
    BY <1>5 DEF Gather, GatherNext, Gathered, GatherSkips, GatherEnds
  <2> QED
    BY SMTT(40), <1>1, <1>5, <2>1, GatherSteps
<1>6. ASSUME NEW i \in InUse, ServeExists(i) \/ ServeNames(i)
      PROVE  IInv' /\ StatesGrow
  <2>1. UNCHANGED state /\ \E x : End(task, i, x)
    BY <1>6 DEF ServeExists, ServeNames
  <2> QED
    BY <1>1, <2>1, EndKeeps
<1>7. ASSUME NEW i \in InUse, Apply(i) \/ ServeReplicate(i)
      PROVE  IInv' /\ StatesGrow
  <2>1. StatesOK' /\ StatesGrow /\ TasksOK(task', state')
    BY <1>7, ApplyStep, ServeReplicateStep
  <2> QED
    BY <2>1 DEF IInv
<1>8. ASSUME \/ \E r \in Requests : Issue(r)
             \/ \E i \in InUse : Disconnect(i)
             \/ \E s \in Servers : Crash(s)
             \/ \E s, t \in Servers : MarkDead(s, t)
      PROVE  IInv' /\ StatesGrow
  <2>1. UNCHANGED state
    BY <1>8 DEF Issue, Disconnect, Crash, MarkDead
  <2> QED
    BY SMTT(40), <1>1, <1>8, <2>1, OtherSteps
<1> QED
  BY <1>2, <1>3, <1>4, <1>5, <1>6, <1>7, <1>8 DEF Next, Step

\* The invariant holds at startup.
LEMMA Initially == Init => IInv
<1> SUFFICES ASSUME Init PROVE IInv
  OBVIOUS
<1>1. \A ch : ChannelOK(InitialChannel(ch))
  BY NewChannelOK, MembersGrow DEF InitialChannel
<1>2. StatesOK
  BY <1>1 DEF Init, StatesOK, StateOK
<1>3. TasksOK(task, state)
  BY FreeOK DEF Init, TasksOK
<1> QED
  BY <1>2, <1>3 DEF IInv

\* A step of something else changes nothing here.
LEMMA Stutters ==
  ASSUME IInv, UNCHANGED vars
  PROVE  IInv' /\ StatesGrow
<1>1. UNCHANGED <<state, task>>
  BY DEF vars
<1>2. StatesOK' /\ StatesGrow
  BY <1>1, StatesStay DEF IInv
<1>3. TasksOK(task', state')
  BY <1>1 DEF IInv
<1> QED
  BY <1>2, <1>3 DEF IInv

(***************************************************************************)
(* What no server forgets                                                  *)
(***************************************************************************)
\* The invariant holds in every reachable state of the three servers.
THEOREM Invariance == Spec => []IInv
<1>1. IInv /\ [Next]_vars => IInv'
  BY EveryStep, Stutters
<1> QED
  BY <1>1, Initially, PTL DEF Spec

\* No step loses a user, a channel or a message, or hands an id out again: what
\* leave_channel and send_message saw before they asked another server for the user is
\* still there when they unwrap it.
THEOREM KeepsEverything == Spec => NothingForgotten
<1>1. IInv /\ [Next]_vars => [StatesGrow]_vars
  BY EveryStep
<1>2. [StatesGrow]_vars => [\A s \in Servers : Grows(state[s], state'[s])]_vars
  BY DEF StatesGrow
<1> QED
  BY <1>1, <1>2, Invariance, PTL DEF Spec, NothingForgotten

-----------------------------------------------------------------------------
(***************************************************************************)
(* The tree of calls                                                       *)
(***************************************************************************)
\* What a handler that has ended may be.
Over == {"replied", "lost"}

\* Where a handler waits, and for what.
Waits == {<<"forwarded", "op">>, <<"asked", "exists">>, <<"replicating", "replicate">>,
          <<"gathering", "names">>}

\* The HTTP handler of a client's request.
Top(i) == task[i].parent = Client

\* Where a handler stands, and for which operation it may stand there. The handlers of a
\* server that has crashed are over.
StandsOK(kind, op, child, pc, result, todo) ==
  /\ kind = "op" => pc # "start"
  /\ kind # "op" => pc \in {"start"} \cup Over
  /\ pc = "check" => op \in {"leave_channel", "send_message"}
  /\ pc \in {"exists", "existsForward", "asked"} =>
       op \in {"join_channel", "leave_channel", "send_message"}
  /\ pc \in {"replicate", "replicating"} => result.code = "OK"
  /\ pc = "replicating" => child # Client
  /\ pc \in {"gather", "gathering"} => op \in Gathers /\ result.code = "OK"
  /\ pc = "gathering" => todo # <<>>
  /\ pc = "replied" => result.code # "NONE"

HandlerOK(i) ==
  /\ i[1] = task[i].req.id
  /\ task[i].kind \in {"op", "exists", "replicate", "names"}
  /\ task[i].at \in Servers
  /\ task[i].todo \in Seq(Servers \ {task[i].at})
  /\ task[i].parent \in Slots \cup {Client}
  /\ Top(i) => task[i].kind = "op" /\ task[i].pc \notin Over
  /\ task[i].at \notin up => task[i].pc \in Over
  /\ StandsOK(task[i].kind, task[i].req.op, task[i].child, task[i].pc, task[i].result,
              task[i].todo)

\* A handler waits for a handler that it called at another server.
CalleeOK(i) ==
  LET c == task[i].child
  IN c # Client => /\ c \in InUse
                   /\ task[c].parent = i /\ task[c].req = task[i].req
                   /\ task[c].from = task[i].at /\ task[c].at # task[i].at
                   /\ <<task[i].pc, task[c].kind>> \in Waits

\* As long as a client waits, one handler serves it, and no other handler works for it
\* before.
ClientOK(i) ==
  /\ Top(i) => answer[task[i].req] = NoResult
  /\ answer[task[i].req] = NoResult =>
       \E j \in InUse : Top(j) /\ task[j].req = task[i].req

OneTop ==
  \A i, j \in InUse : Top(i) /\ Top(j) /\ task[i].req = task[j].req => i = j

\* A server is marked dead only when it or the server that marks it has crashed.
AliveOK ==
  /\ \A s \in Servers : alive[s][s]
  /\ \A s, t \in Servers : alive[s][t] \/ s \notin up \/ t \notin up

Tree ==
  /\ \A i \in InUse : HandlerOK(i) /\ CalleeOK(i) /\ ClientOK(i)
  /\ OneTop
  /\ AliveOK
  /\ DOMAIN answer = Requests
  /\ up \subseteq Servers
  /\ alive \in [Servers -> [Servers -> BOOLEAN]]

(***************************************************************************)
(* What a step makes of the handlers                                       *)
(***************************************************************************)
\* Handler i becomes y, and lets go of its call: one that has ended is forgotten.
Becomes(i, y) ==
  \A j \in Slots :
    task'[j] = IF j = i THEN y
               ELSE IF j = task[i].child /\ task[j].pc \in Over THEN Free
               ELSE task[j]

\* It goes on.
Turns(i, pc, result, todo) ==
  /\ Becomes(i, Task(task[i], pc, Client, result, todo))
  /\ answer' = answer

\* It ends.
Ending(i, result) ==
  IF ~Awaited(i) THEN Free
  ELSE IF result = Panicked \/ ~alive[At(i)][task[i].from]
       THEN Task(task[i], "lost", Client, task[i].result, task[i].todo)
       ELSE Task(task[i], "replied", Client, result, task[i].todo)

Ends(i, result) ==
  /\ Becomes(i, Ending(i, result))
  /\ answer' = IF Top(i) THEN [answer EXCEPT ![Req(i)] = result] ELSE answer

\* It calls d.
Callee(i, kind, to, result) ==
  [kind |-> kind, req |-> Req(i), at |-> to, from |-> At(i), parent |-> i, child |-> Client,
   pc |-> IF to \notin up THEN "lost" ELSE IF kind = "op" THEN "route" ELSE "start",
   result |-> result, todo |-> <<>>]

Calls(i, d, kind, to, result, pc) ==
  /\ d \in Slots \ InUse /\ d # i /\ d[1] = Req(i).id
  /\ task'[i] = Task(task[i], pc, d, task[i].result, task[i].todo)
  /\ task'[d] = Callee(i, kind, to, result)
  /\ \A j \in Slots \ {i, d} : task'[j] = task[j]
  /\ answer' = answer

Asks(i, kind, to, result, pc) ==
  IF alive[At(i)][to]
  THEN \E d : Calls(i, d, kind, to, result, pc)
  ELSE Turns(i, pc, task[i].result, task[i].todo)

-----------------------------------------------------------------------------
\* The fields of a handler that went on, and of one that is called.
LEMMA TaskFields ==
  \A x, pc, child, result, todo :
    LET y == Task(x, pc, child, result, todo)
    IN /\ y.kind = x.kind /\ y.req = x.req /\ y.at = x.at /\ y.from = x.from
       /\ y.parent = x.parent
       /\ y.pc = pc /\ y.child = child /\ y.result = result /\ y.todo = todo
BY DEF Task

LEMMA FreeFields ==
  Free.pc = "free" /\ Free.parent = Client /\ Free.child = Client
BY DEF Free

\* No slot is the client.
LEMMA ClientNoSlot == Client \notin Slots
BY ReplicationAssumption DEF Client, Slots

\* A slot in use holds a handler, and any other is free.
LEMMA Used ==
  ASSUME TasksOK(task, state)
  PROVE  /\ \A i \in InUse : i \in Slots /\ task[i].pc # "free" /\ task[i].req \in Requests
                             /\ TaskOK(task[i], state)
         /\ \A i \in Slots \ InUse : task[i] = Free
BY DEF TasksOK, TaskOK, InUse

\* The next slots in use, from the next handlers.
LEMMA NextUsed == InUse' = {j \in Slots : task'[j].pc # "free"}
BY DEF InUse

\* A handler with fields changed is a handler that went on.
LEMMA PcForm ==
  ASSUME NEW x, NEW st, TaskOK(x, st), NEW pc
  PROVE  /\ [x EXCEPT !.pc = pc] = Task(x, pc, x.child, x.result, x.todo)
         /\ \A child : [[x EXCEPT !.pc = pc] EXCEPT !.child = child]
                         = Task(x, pc, child, x.result, x.todo)
         /\ \A child : [[x EXCEPT !.child = child] EXCEPT !.pc = pc]
                         = Task(x, pc, child, x.result, x.todo)
         /\ \A result : [[x EXCEPT !.pc = pc] EXCEPT !.result = result]
                          = Task(x, pc, x.child, result, x.todo)
<1>1. /\ [x EXCEPT !.pc = pc] = Task(x, pc, x.child, x.result, x.todo)
      /\ \A child : [x EXCEPT !.child = child] = Task(x, x.pc, child, x.result, x.todo)
  BY Fields
<1>2. \A child : [Task(x, pc, x.child, x.result, x.todo) EXCEPT !.child = child]
                   = Task(x, pc, child, x.result, x.todo)
  BY DEF Task
<1>3. \A child : [Task(x, x.pc, child, x.result, x.todo) EXCEPT !.pc = pc]
                   = Task(x, pc, child, x.result, x.todo)
  BY DEF Task
<1>4. \A result : [Task(x, pc, x.child, x.result, x.todo) EXCEPT !.result = result]
                    = Task(x, pc, x.child, result, x.todo)
  BY DEF Task
<1> QED
  BY <1>1, <1>2, <1>3, <1>4, Zenon

\* A handler that does not wait has no call.
LEMMA NoCall ==
  ASSUME Tree, NEW i \in InUse,
         task[i].pc \notin {"forwarded", "asked", "replicating", "gathering"}
  PROVE  task[i].child = Client
BY DEF Tree, CalleeOK, Waits

\* The handlers after i has let go of its call, if it has one.
Settled(T, i) == T = Released(i) \/ (T = task /\ task[i].child = Client)

LEMMA SettledForm ==
  ASSUME TasksOK(task, state), NEW i \in InUse, NEW T, Settled(T, i)
  PROVE  /\ T[i] = Task(task[i], task[i].pc, Client, task[i].result, task[i].todo)
         /\ TaskOK(T[i], state) /\ T[i].pc = task[i].pc
         /\ DOMAIN T = Slots
         /\ \A j \in Slots \ {i} :
              T[j] = IF j = task[i].child /\ task[j].pc \in Over THEN Free ELSE task[j]
<1>1. i \in Slots /\ task[i].pc # "free" /\ TaskOK(task[i], state) /\ DOMAIN task = Slots
  BY Used DEF TasksOK
<1>2. [task[i] EXCEPT !.child = Client]
        = Task(task[i], task[i].pc, Client, task[i].result, task[i].todo)
  BY <1>1, Fields
<1>3. CASE T = Released(i)
  <2>1. T[i] = Task(task[i], task[i].pc, Client, task[i].result, task[i].todo)
    BY <1>1, <1>2, <1>3 DEF Released
  <2>2. TasksOK(T, state)
    BY <1>3, ReleasedOK
  <2> QED
    BY <1>1, <1>3, <2>1, <2>2, TaskFields DEF Released, Over, TasksOK
<1>4. CASE T = task /\ task[i].child = Client
  <2>1. T[i] = Task(task[i], task[i].pc, Client, task[i].result, task[i].todo)
    BY <1>1, <1>4 DEF TaskOK
  <2> QED
    BY <1>1, <1>4, <2>1, ClientNoSlot
<1> QED
  BY <1>3, <1>4 DEF Settled

\* One handler is another afterwards.
LEMMA BecomesForm ==
  ASSUME TasksOK(task, state), NEW i \in InUse, NEW T, Settled(T, i), NEW y,
         task' = [T EXCEPT ![i] = y]
  PROVE  Becomes(i, y)
<1>1. i \in Slots
  BY Used
<1> QED
  BY <1>1, SettledForm DEF Becomes

\* It goes on.
LEMMA TurnForm ==
  ASSUME TasksOK(task, state), NEW i \in InUse, NEW T, Settled(T, i), NEW pc,
         task' = [T EXCEPT ![i].pc = pc], answer' = answer
  PROVE  Turns(i, pc, task[i].result, task[i].todo)
<1> DEFINE x == T[i]
<1>1. /\ x = Task(task[i], task[i].pc, Client, task[i].result, task[i].todo)
      /\ TaskOK(x, state) /\ DOMAIN T = Slots
  BY SettledForm
<1>2. task' = [T EXCEPT ![i] = [x EXCEPT !.pc = pc]]
  BY <1>1
<1>3. [x EXCEPT !.pc = pc] = Task(x, pc, x.child, x.result, x.todo)
  BY <1>1, PcForm
<1>4. Task(x, pc, x.child, x.result, x.todo)
        = Task(task[i], pc, Client, task[i].result, task[i].todo)
  BY <1>1 DEF Task
<1>5. task' = [T EXCEPT ![i] = Task(task[i], pc, Client, task[i].result, task[i].todo)]
  BY <1>2, <1>3, <1>4, Zenon
<1> QED
  BY <1>5, BecomesForm DEF Turns

\* It ends.
LEMMA EndForm ==
  ASSUME TasksOK(task, state), NEW i \in InUse, NEW T, Settled(T, i), NEW result,
         End(T, i, result)
  PROVE  Ends(i, result)
<1> DEFINE x == T[i]
<1>1. /\ x = Task(task[i], task[i].pc, Client, task[i].result, task[i].todo)
      /\ TaskOK(x, state) /\ DOMAIN T = Slots
  BY SettledForm
<1>2. /\ [x EXCEPT !.pc = "lost"] = Task(task[i], "lost", Client, task[i].result, task[i].todo)
      /\ [[x EXCEPT !.pc = "replied"] EXCEPT !.result = result]
           = Task(task[i], "replied", Client, result, task[i].todo)
  <2>1. /\ [x EXCEPT !.pc = "lost"] = Task(x, "lost", x.child, x.result, x.todo)
        /\ [[x EXCEPT !.pc = "replied"] EXCEPT !.result = result]
             = Task(x, "replied", x.child, result, x.todo)
    BY <1>1, PcForm
  <2> QED
    BY <1>1, <2>1 DEF Task
<1>3. task' = [T EXCEPT ![i] = Ending(i, result)]
  <2>1. CASE ~Awaited(i)
    BY <2>1 DEF End, Ended, Ending
  <2>2. CASE Awaited(i) /\ (result = Panicked \/ ~alive[task[i].at][task[i].from])
    <3>1. task' = [T EXCEPT ![i].pc = "lost"]
      BY <1>1, <2>2, TaskFields DEF End, Ended
    <3>2. task' = [T EXCEPT ![i] = [x EXCEPT !.pc = "lost"]]
      BY <1>1, <3>1
    <3>3. Ending(i, result) = Task(task[i], "lost", Client, task[i].result, task[i].todo)
      BY <2>2 DEF Ending, At
    <3> QED
      BY <1>2, <3>2, <3>3, Zenon
  <2>3. CASE Awaited(i) /\ ~(result = Panicked \/ ~alive[task[i].at][task[i].from])
    <3>1. task' = [T EXCEPT ![i].pc = "replied", ![i].result = result]
      BY <1>1, <2>3, TaskFields DEF End, Ended
    <3>2. task' = [T EXCEPT ![i] = [[x EXCEPT !.pc = "replied"] EXCEPT !.result = result]]
      BY <1>1, <3>1
    <3>3. Ending(i, result) = Task(task[i], "replied", Client, result, task[i].todo)
      BY <2>3 DEF Ending, At
    <3> QED
      BY <1>2, <3>2, <3>3, Zenon
  <2> QED
    BY <2>1, <2>2, <2>3
<1> QED
  BY <1>3, BecomesForm DEF Ends, End, Top, Req

\* A slot that is taken was free.
LEMMA NewSlotFree ==
  ASSUME NEW r, FreeSlots(r) # {}
  PROVE  NewSlot(r) \in Slots \ InUse /\ NewSlot(r)[1] = r.id
BY DEF NewSlot, FreeSlots

\* It calls.
LEMMA CallForm ==
  ASSUME TasksOK(task, state), NEW i \in InUse, task[i].child = Client,
         NEW kind, NEW to, NEW result, NEW pc,
         Call(i, kind, to, result, pc), answer' = answer
  PROVE  Asks(i, kind, to, result, pc)
<1>1. i \in Slots /\ TaskOK(task[i], state) /\ DOMAIN task = Slots
  BY Used DEF TasksOK
<1>2. CASE ~alive[At(i)][to]
  <2>1. task' = [task EXCEPT ![i].pc = pc]
    BY <1>2 DEF Call, At
  <2>2. Turns(i, pc, task[i].result, task[i].todo)
    BY <2>1, TurnForm DEF Settled
  <2> QED
    BY <1>2, <2>2 DEF Asks
<1>3. CASE alive[At(i)][to]
  <2> DEFINE new == NewTask(kind, task[i].req, to, task[i].at, i, result)
             d == NewSlot(task[i].req)
             x == [[task[i] EXCEPT !.pc = pc] EXCEPT !.child = d]
             y == IF to \in up THEN new ELSE [new EXCEPT !.pc = "lost"]
  <2>1. /\ FreeSlots(task[i].req) # {}
        /\ task' = [[task EXCEPT ![i] = x] EXCEPT ![d] = y]
    BY <1>1, <1>3 DEF Call, At
  <2>2. d \in Slots \ InUse /\ d[1] = Req(i).id
    BY <2>1, NewSlotFree DEF Req
  <2>3. x = Task(task[i], pc, d, task[i].result, task[i].todo)
    BY <1>1, PcForm
  <2>4. y = Callee(i, kind, to, result)
    BY DEF Callee, NewTask, Req, At
  <2>5. d # i
    BY <2>2
  <2> HIDE DEF x, y, d
  <2>6. task'[i] = x /\ task'[d] = y /\ \A j \in Slots \ {i, d} : task'[j] = task[j]
    BY <1>1, <2>1, <2>2, <2>5
  <2>7. Calls(i, d, kind, to, result, pc)
    BY <2>2, <2>3, <2>4, <2>5, <2>6 DEF Calls
  <2> QED
    BY <1>3, <2>7 DEF Asks
<1> QED
  BY <1>2, <1>3

\* It goes on with another result and other servers to ask.
LEMMA GatherForm ==
  ASSUME TasksOK(task, state), NEW i \in InUse, NEW T, Settled(T, i), NEW result, NEW todo,
         \/ task' = [T EXCEPT ![i].pc = "gather", ![i].todo = todo, ![i].result = result]
         \/ result = task[i].result /\ task' = [T EXCEPT ![i].pc = "gather", ![i].todo = todo]
         \/ task' = [[T EXCEPT ![i].result = result] EXCEPT ![i].pc = "gather", ![i].todo = todo],
         answer' = answer
  PROVE  Turns(i, "gather", result, todo)
<1> DEFINE x == T[i]
           y == Task(task[i], "gather", Client, result, todo)
<1>1. /\ x = Task(task[i], task[i].pc, Client, task[i].result, task[i].todo)
      /\ TaskOK(x, state) /\ DOMAIN T = Slots /\ i \in Slots
  BY SettledForm, Used
<1>2. /\ [[[x EXCEPT !.pc = "gather"] EXCEPT !.todo = todo] EXCEPT !.result = result] = y
      /\ [[[x EXCEPT !.result = result] EXCEPT !.pc = "gather"] EXCEPT !.todo = todo] = y
      /\ result = task[i].result => [[x EXCEPT !.pc = "gather"] EXCEPT !.todo = todo] = y
  <2>1. [x EXCEPT !.pc = "gather"] = Task(task[i], "gather", Client, task[i].result, task[i].todo)
    <3>1. [x EXCEPT !.pc = "gather"] = Task(x, "gather", x.child, x.result, x.todo)
      BY <1>1, PcForm
    <3> QED
      BY SMTT(40), <1>1, <3>1 DEF Task
  <2>2. [Task(task[i], "gather", Client, task[i].result, task[i].todo) EXCEPT !.todo = todo]
          = Task(task[i], "gather", Client, task[i].result, todo)
    BY DEF Task
  <2>3. [Task(task[i], "gather", Client, task[i].result, todo) EXCEPT !.result = result] = y
    BY DEF Task
  <2>4. [x EXCEPT !.result = result] = Task(task[i], task[i].pc, Client, result, task[i].todo)
    <3>1. [x EXCEPT !.result = result] = Task(x, x.pc, x.child, result, x.todo)
      BY <1>1, Fields
    <3> QED
      BY SMTT(40), <1>1, <3>1 DEF Task
  <2>5. [Task(task[i], task[i].pc, Client, result, task[i].todo) EXCEPT !.pc = "gather"]
          = Task(task[i], "gather", Client, result, task[i].todo)
    BY DEF Task
  <2>6. [Task(task[i], "gather", Client, result, task[i].todo) EXCEPT !.todo = todo] = y
    BY DEF Task
  <2> HIDE DEF x, y
  <2> QED
    BY <2>1, <2>2, <2>3, <2>4, <2>5, <2>6, Zenon DEF y
<1>3. CASE task' = [T EXCEPT ![i].pc = "gather", ![i].todo = todo, ![i].result = result]
  <2>1. task' = [T EXCEPT ![i] =
                   [[[x EXCEPT !.pc = "gather"] EXCEPT !.todo = todo] EXCEPT !.result = result]]
    BY <1>1, <1>3
  <2> QED
    BY <1>2, <2>1, BecomesForm, Zenon DEF Turns
<1>4. CASE result = task[i].result /\ task' = [T EXCEPT ![i].pc = "gather", ![i].todo = todo]
  <2>1. task' = [T EXCEPT ![i] = [[x EXCEPT !.pc = "gather"] EXCEPT !.todo = todo]]
    BY <1>1, <1>4
  <2>2. task' = [T EXCEPT ![i] = y]
    BY <1>2, <1>4, <2>1, Zenon
  <2> QED
    BY <2>2, BecomesForm, Zenon DEF Turns
<1>5. CASE task' = [[T EXCEPT ![i].result = result] EXCEPT ![i].pc = "gather", ![i].todo = todo]
  <2>1. task' = [T EXCEPT ![i] =
                   [[[x EXCEPT !.result = result] EXCEPT !.pc = "gather"] EXCEPT !.todo = todo]]
    BY <1>1, <1>5
  <2> QED
    BY <1>2, <2>1, BecomesForm, Zenon DEF Turns
<1> QED
  BY <1>3, <1>4, <1>5

(***************************************************************************)
(* The tree stays a tree                                                   *)
(***************************************************************************)
\* Handlers that stay as they are are in order if their calls and clients are.
LEMMA StaysOK ==
  ASSUME Tree, TasksOK(task, state), NEW j \in InUse, task'[j] = task[j],
         UNCHANGED <<alive, up>>
  PROVE  j \in InUse' /\ HandlerOK(j)'
<1>1. HandlerOK(j) /\ j \in Slots /\ task[j].pc # "free"
  BY Used DEF Tree
<1> QED
  BY <1>1, NextUsed DEF HandlerOK, Top

\* Nobody waits for the handler that serves a client.
LEMMA TopNoCallee ==
  ASSUME Tree, TasksOK(task, state), NEW i \in InUse, NEW j \in InUse, Top(j)
  PROVE  j # task[i].child
<1> SUFFICES ASSUME j = task[i].child PROVE FALSE
  OBVIOUS
<1>1. i \in Slots /\ j \in Slots /\ CalleeOK(i)
  BY Used DEF Tree
<1>2. task[j].parent = i
  BY <1>1, ClientNoSlot DEF CalleeOK
<1> QED
  BY <1>1, <1>2, ClientNoSlot DEF Top

LEMMA TurnTree ==
  ASSUME Tree, TasksOK(task, state), NEW i \in InUse, NEW pc, NEW result, NEW todo,
         Turns(i, pc, result, todo), UNCHANGED <<alive, up>>,
         task[i].pc \notin Over, pc \notin {"free", "start"} \cup Over,
         todo \in Seq(Servers \ {task[i].at}),
         StandsOK(task[i].kind, task[i].req.op, Client, pc, result, todo)
  PROVE  Tree'
<1> DEFINE y == Task(task[i], pc, Client, result, todo)
<1>0. /\ \A j \in InUse : j \in Slots /\ task[j].pc # "free"
      /\ \A j \in InUse : HandlerOK(j) /\ CalleeOK(j) /\ ClientOK(j)
      /\ OneTop /\ AliveOK /\ DOMAIN answer = Requests /\ up \subseteq Servers
      /\ alive \in [Servers -> [Servers -> BOOLEAN]]
  BY Used DEF Tree
<1>1. /\ y.kind = task[i].kind /\ y.req = task[i].req /\ y.at = task[i].at
      /\ y.from = task[i].from /\ y.parent = task[i].parent
      /\ y.pc = pc /\ y.child = Client /\ y.result = result /\ y.todo = todo
  BY TaskFields
<1> HIDE DEF y
<1>2. /\ task'[i] = y
      /\ \A j \in Slots \ {i} :
           task'[j] = IF j = task[i].child /\ task[j].pc \in Over THEN Free ELSE task[j]
      /\ answer' = answer
  BY <1>0 DEF Turns, Becomes, y
<1>3. /\ i \in InUse'
      /\ \A j \in InUse' \ {i} : j \in InUse /\ task'[j] = task[j]
      /\ \A j \in InUse \ {i} : j # task[i].child => j \in InUse'
      /\ InUse' \subseteq InUse
  BY <1>0, <1>1, <1>2, NextUsed, FreeFields DEF InUse
<1>4. HandlerOK(i)'
  BY <1>0, <1>1, <1>2 DEF HandlerOK, Top
<1>5. ASSUME NEW j \in InUse' PROVE HandlerOK(j)'
  BY <1>0, <1>3, <1>4, StaysOK
<1>6. ASSUME NEW j \in InUse' PROVE CalleeOK(j)'
  <2>1. CASE j = i
    BY <1>1, <1>2, <2>1 DEF CalleeOK
  <2>2. CASE j # i
    <3>1. j \in InUse /\ task'[j] = task[j] /\ CalleeOK(j)
      BY <1>0, <1>3, <2>2
    <3> DEFINE c == task[j].child
    <3> SUFFICES ASSUME c # Client
                 PROVE  /\ c \in InUse' /\ task'[c].parent = j /\ task'[c].req = task[j].req
                        /\ task'[c].from = task[j].at /\ task'[c].at # task[j].at
                        /\ <<task[j].pc, task'[c].kind>> \in Waits
      BY <3>1 DEF CalleeOK
    <3>2. c \in InUse /\ task[c].parent = j /\ CalleeOK(i)
      BY <1>0, <3>1 DEF CalleeOK
    <3>3. c # task[i].child
      BY <2>2, <3>2 DEF CalleeOK
    <3>4. c \in InUse' /\ (c # i => task'[c] = task[c])
      BY <1>3, <3>2, <3>3
    <3> QED
      BY <1>1, <1>2, <3>1, <3>4 DEF CalleeOK
  <2> QED
    BY <2>1, <2>2
<1>7. \A j \in InUse' : task'[j].parent = task[j].parent /\ task'[j].req = task[j].req
  BY <1>1, <1>2, <1>3
<1>8. \A j \in InUse : Top(j) => j \in InUse'
  BY <1>0, <1>3, TopNoCallee
<1>9. ASSUME NEW j \in InUse' PROVE ClientOK(j)'
  <2>1. ClientOK(j) /\ j \in InUse
    BY <1>0, <1>3
  <2> QED
    BY <1>2, <1>7, <1>8, <2>1 DEF ClientOK, Top
<1>10. OneTop'
  BY <1>0, <1>3, <1>7 DEF OneTop, Top
<1> QED
  BY <1>0, <1>2, <1>5, <1>6, <1>9, <1>10 DEF Tree, AliveOK

LEMMA EndTree ==
  ASSUME Tree, TasksOK(task, state), NEW i \in InUse, NEW result,
         Ends(i, result), UNCHANGED <<alive, up>>, result.code # "NONE"
  PROVE  Tree'
<1> DEFINE y == Ending(i, result)
<1>0. /\ \A j \in InUse : j \in Slots /\ task[j].pc # "free" /\ task[j].req \in Requests
      /\ \A j \in InUse : HandlerOK(j) /\ CalleeOK(j) /\ ClientOK(j)
      /\ OneTop /\ AliveOK /\ DOMAIN answer = Requests /\ up \subseteq Servers
      /\ alive \in [Servers -> [Servers -> BOOLEAN]]
  BY Used DEF Tree
<1>1. \/ ~Awaited(i) /\ y = Free
      \/ /\ Awaited(i) /\ ~Top(i)
         /\ y.kind = task[i].kind /\ y.req = task[i].req /\ y.at = task[i].at
         /\ y.from = task[i].from /\ y.parent = task[i].parent
         /\ y.pc \in Over /\ y.child = Client /\ y.todo = task[i].todo
         /\ y.pc = "replied" => y.result = result
  BY TaskFields DEF Ending, Over, Awaited, Top
<1> HIDE DEF y
<1>2. /\ task'[i] = y
      /\ \A j \in Slots \ {i} :
           task'[j] = IF j = task[i].child /\ task[j].pc \in Over THEN Free ELSE task[j]
      /\ ~Top(i) => answer' = answer
      /\ Top(i) => answer' = [answer EXCEPT ![task[i].req] = result]
  BY <1>0 DEF Ends, Becomes, Req, y
<1>3. /\ \A j \in InUse' \ {i} : j \in InUse /\ task'[j] = task[j]
      /\ \A j \in InUse \ {i} : j # task[i].child => j \in InUse'
      /\ InUse' \subseteq InUse
      /\ i \in InUse' => y # Free
      /\ y.pc \in Over => i \in InUse'
  BY <1>0, <1>1, <1>2, NextUsed, FreeFields DEF InUse, Over
<1>4. ASSUME i \in InUse' PROVE HandlerOK(i)'
  <2>1. /\ task'[i].kind = task[i].kind /\ task'[i].req = task[i].req
        /\ task'[i].at = task[i].at /\ task'[i].parent = task[i].parent
        /\ task'[i].pc \in Over /\ task'[i].todo = task[i].todo /\ ~Top(i)
        /\ task'[i].pc = "replied" => task'[i].result = result
    BY <1>1, <1>2, <1>3, <1>4
  <2>2. StandsOK(task'[i].kind, task'[i].req.op, task'[i].child, task'[i].pc, task'[i].result,
                 task'[i].todo)
    BY <1>0, <2>1 DEF HandlerOK, StandsOK, Over
  <2> QED
    BY <1>0, <2>1, <2>2 DEF HandlerOK, Top
<1>5. ASSUME NEW j \in InUse' PROVE HandlerOK(j)'
  BY <1>0, <1>3, <1>4, StaysOK
<1>6. ASSUME NEW j \in InUse' PROVE CalleeOK(j)'
  <2>1. CASE j = i
    BY <1>1, <1>2, <1>3, <2>1 DEF CalleeOK
  <2>2. CASE j # i
    <3>1. j \in InUse /\ task'[j] = task[j] /\ CalleeOK(j)
      BY <1>0, <1>3, <2>2
    <3> DEFINE c == task[j].child
    <3> SUFFICES ASSUME c # Client
                 PROVE  /\ c \in InUse' /\ task'[c].parent = j /\ task'[c].req = task[j].req
                        /\ task'[c].from = task[j].at /\ task'[c].at # task[j].at
                        /\ <<task[j].pc, task'[c].kind>> \in Waits
      BY <3>1 DEF CalleeOK
    <3>2. c \in InUse /\ task[c].parent = j /\ CalleeOK(i)
      BY <1>0, <3>1 DEF CalleeOK
    <3>3. c # task[i].child
      BY <2>2, <3>2 DEF CalleeOK
    <3>4. c = i => Awaited(i)
      BY <1>0, <3>1, <3>2, ClientNoSlot DEF Awaited
    <3>5. c \in InUse' /\ (c # i => task'[c] = task[c])
      BY <1>1, <1>3, <3>2, <3>3, <3>4
    <3> QED
      BY <1>1, <1>2, <3>1, <3>4, <3>5 DEF CalleeOK
  <2> QED
    BY <2>1, <2>2
<1>7. \A j \in InUse' : task'[j].parent = task[j].parent /\ task'[j].req = task[j].req
  BY <1>1, <1>2, <1>3
<1>8. \A j \in InUse \ {i} : Top(j) => j \in InUse'
  BY <1>0, <1>3, TopNoCallee
<1>9. ASSUME NEW j \in InUse' PROVE ClientOK(j)'
  <2>1. CASE ~Top(i)
    BY <1>0, <1>2, <1>3, <1>7, <1>8, <2>1 DEF ClientOK, Top
  <2>2. CASE Top(i)
    <3>1. i \notin InUse'
      BY <1>1, <1>3, <2>2
    <3>2. result # NoResult
      BY DEF NoResult
    <3>3. j \in InUse /\ j # i /\ task'[j] = task[j] /\ ClientOK(j)
      BY <1>0, <1>3, <3>1
    <3>4. CASE task[j].req = task[i].req
      <4>1. ~Top(j)
        BY <1>0, <2>2, <3>3, <3>4 DEF OneTop
      <4>2. answer'[task[j].req] = result
        BY <1>0, <1>2, <2>2, <3>4
      <4> QED
        BY <3>2, <3>3, <4>1, <4>2 DEF ClientOK, Top
    <3>5. CASE task[j].req # task[i].req
      <4>1. answer'[task[j].req] = answer[task[j].req]
        BY <1>0, <1>2, <2>2, <3>3, <3>5
      <4>2. \A k \in InUse : Top(k) /\ task[k].req = task[j].req => k \in InUse'
        BY <1>8, <3>5
      <4> QED
        BY <1>7, <3>3, <4>1, <4>2 DEF ClientOK, Top
    <3> QED
      BY <3>4, <3>5
  <2> QED
    BY <2>1, <2>2
<1>10. OneTop'
  BY <1>0, <1>3, <1>7 DEF OneTop, Top
<1>11. DOMAIN answer' = Requests
  BY <1>0, <1>2
<1> QED
  BY <1>0, <1>5, <1>6, <1>9, <1>10, <1>11 DEF Tree, AliveOK

LEMMA CallTree ==
  ASSUME Tree, TasksOK(task, state), NEW i \in InUse, NEW d, NEW kind, NEW to, NEW result,
         NEW pc, Calls(i, d, kind, to, result, pc), UNCHANGED <<alive, up>>,
         task[i].pc \notin Over, task[i].child = Client,
         to \in Servers, to # At(i), <<pc, kind>> \in Waits,
         StandsOK(task[i].kind, task[i].req.op, d, pc, task[i].result, task[i].todo)
  PROVE  Tree'
<1> DEFINE y == Task(task[i], pc, d, task[i].result, task[i].todo)
           z == Callee(i, kind, to, result)
<1>0. /\ \A j \in InUse : j \in Slots /\ task[j].pc # "free" /\ task[j].req \in Requests
      /\ \A j \in InUse : HandlerOK(j) /\ CalleeOK(j) /\ ClientOK(j)
      /\ OneTop /\ AliveOK /\ DOMAIN answer = Requests /\ up \subseteq Servers
      /\ alive \in [Servers -> [Servers -> BOOLEAN]]
  BY Used DEF Tree
<1>1. /\ y.kind = task[i].kind /\ y.req = task[i].req /\ y.at = task[i].at
      /\ y.from = task[i].from /\ y.parent = task[i].parent
      /\ y.pc = pc /\ y.child = d /\ y.result = task[i].result /\ y.todo = task[i].todo
  BY TaskFields
<1>2. /\ z.kind = kind /\ z.req = task[i].req /\ z.at = to /\ z.from = task[i].at
      /\ z.parent = i /\ z.child = Client /\ z.result = result /\ z.todo = <<>>
      /\ z.pc = IF to \notin up THEN "lost" ELSE IF kind = "op" THEN "route" ELSE "start"
  BY DEF Callee, Req, At
<1> HIDE DEF y, z
<1>3. /\ d \in Slots \ InUse /\ d # i /\ d[1] = task[i].req.id
      /\ task'[i] = y /\ task'[d] = z /\ answer' = answer
      /\ \A j \in Slots \ {i, d} : task'[j] = task[j]
  BY DEF Calls, Req, y, z
<1>4. /\ i \in InUse' /\ d \in InUse' /\ InUse' = InUse \cup {d}
      /\ \A j \in InUse \ {i} : task'[j] = task[j]
  BY <1>0, <1>1, <1>2, <1>3, NextUsed DEF InUse, Waits
<1>5. \A j \in InUse : task'[j].parent = task[j].parent /\ task'[j].req = task[j].req
  BY <1>0, <1>1, <1>3, <1>4
<1>6. ~Top(d)'
  BY <1>0, <1>2, <1>3, ClientNoSlot DEF Top
<1>7. HandlerOK(i)'
  BY <1>0, <1>1, <1>3 DEF HandlerOK, Top, Over, Waits
<1>8. HandlerOK(d)'
  <2>1. StandsOK(z.kind, z.req.op, z.child, z.pc, z.result, z.todo)
    BY <1>2 DEF StandsOK, Over, Waits
  <2>2. z.kind \in {"op", "exists", "replicate", "names"}
    BY <1>2 DEF Waits
  <2>3. z.todo \in Seq(Servers \ {z.at})
    BY <1>2
  <2>4. /\ z.at \in Servers /\ z.parent \in Slots /\ d[1] = z.req.id
        /\ z.at \notin up => z.pc \in Over
    BY <1>0, <1>2, <1>3 DEF Over
  <2>5. task'[d] = z /\ up' = up
    BY <1>3
  <2> QED
    BY <1>6, <2>1, <2>2, <2>3, <2>4, <2>5 DEF HandlerOK
<1>9. ASSUME NEW j \in InUse' PROVE HandlerOK(j)'
  BY <1>0, <1>3, <1>4, <1>7, <1>8, StaysOK
<1>10. ASSUME NEW j \in InUse' PROVE CalleeOK(j)'
  <2>1. CASE j = i
    BY <1>0, <1>1, <1>2, <1>3, <1>4, <2>1 DEF CalleeOK, At
  <2>2. CASE j = d
    BY <1>2, <1>3, <2>2 DEF CalleeOK
  <2>3. CASE j # i /\ j # d
    <3>1. j \in InUse /\ task'[j] = task[j] /\ CalleeOK(j)
      BY <1>0, <1>4, <2>3
    <3>2. \A c \in InUse : /\ task'[c].parent = task[c].parent /\ task'[c].req = task[c].req
                           /\ task'[c].from = task[c].from /\ task'[c].at = task[c].at
                           /\ task'[c].kind = task[c].kind
      BY <1>0, <1>1, <1>3, <1>4
    <3> QED
      BY <1>4, <3>1, <3>2 DEF CalleeOK
  <2> QED
    BY <2>1, <2>2, <2>3
<1>11. ASSUME NEW j \in InUse' PROVE ClientOK(j)'
  <2>1. \E k \in InUse : task'[j].req = task[k].req /\ (Top(j)' => k = j) /\ ClientOK(k)
    BY <1>0, <1>2, <1>3, <1>4, <1>5, <1>6
  <2> QED
    BY <1>3, <1>4, <1>5, <2>1 DEF ClientOK, Top
<1>12. OneTop'
  BY <1>0, <1>4, <1>5, <1>6 DEF OneTop, Top
<1> QED
  BY <1>0, <1>3, <1>9, <1>10, <1>11, <1>12 DEF Tree, AliveOK

(***************************************************************************)
(* The form of each operation's steps                                      *)
(***************************************************************************)
\* What holds where a handler takes a step.
LEMMA Working ==
  ASSUME Tree, TasksOK(task, state), NEW i \in InUse
  PROVE  /\ i \in Slots /\ Req(i) = task[i].req /\ At(i) = task[i].at
         /\ Req(i) \in Requests /\ At(i) \in Servers
         /\ Req(i).op \in Ops
         /\ task[i].pc \notin Over => At(i) \in up
         /\ task[i].pc \notin Over \cup {"start"} => task[i].kind = "op"
         /\ task[i].todo \in Seq(Servers \ {task[i].at})
         /\ StandsOK(task[i].kind, Req(i).op, task[i].child, task[i].pc, task[i].result,
                     task[i].todo)
         /\ \A name \in {Subject(Req(i)), Req(i).user} :
              Owner(name).primary \in Servers /\ Owner(name).backup \in Servers
<1>1. HandlerOK(i) /\ i \in Slots /\ task[i].req \in Requests
  BY Used DEF Tree
<1> QED
  BY <1>1, OwnerServers, ReplicationAssumption DEF HandlerOK, StandsOK, Req, At

\* Handlers that do not wait end, go on and call as they are.
LEMMA QuietForms ==
  ASSUME Tree, TasksOK(task, state), NEW i \in InUse,
         task[i].pc \notin {"forwarded", "asked", "replicating", "gathering"}
  PROVE  /\ \A pc : task' = [task EXCEPT ![i].pc = pc] /\ answer' = answer =>
              Turns(i, pc, task[i].result, task[i].todo)
         /\ \A result : End(task, i, result) => Ends(i, result)
         /\ \A kind, to, result, pc : Call(i, kind, to, result, pc) /\ answer' = answer =>
              Asks(i, kind, to, result, pc)
<1>1. task[i].child = Client
  BY NoCall
<1> QED
  BY <1>1, TurnForm, EndForm, CallForm DEF Settled

\* Handlers that wait let go of their call.
LEMMA ReleasedForms ==
  ASSUME TasksOK(task, state), NEW i \in InUse
  PROVE  /\ \A pc : task' = [Released(i) EXCEPT ![i].pc = pc] /\ answer' = answer =>
              Turns(i, pc, task[i].result, task[i].todo)
         /\ \A result : End(Released(i), i, result) => Ends(i, result)
BY TurnForm, EndForm DEF Settled

\* Where an operation that is routed goes on.
Routes(i) ==
  IF ~Authoritative(At(i), OwnerOf(i)) THEN "forward"
  ELSE CASE Req(i).op \in {"create_user", "list_channel_users", "get_messages"} -> "apply"
         [] Req(i).op = "join_channel" -> "exists"
         [] OTHER -> "check"

LEMMA ForwardForms ==
  ASSUME Tree, TasksOK(task, state), NEW i \in InUse
  PROVE  /\ Route(i) => Turns(i, Routes(i), task[i].result, task[i].todo)
         /\ Forward(i) =>
              LET to == Location(At(i), OwnerOf(i))
              IN IF to = At(i) THEN Ends(i, Panicked)
                 ELSE Asks(i, "op", to, NoResult, "forwarded")
         /\ ForwardAnswered(i) => Ends(i, Answer(i))
         /\ ForwardRetries(i) => Turns(i, "route", task[i].result, task[i].todo)
<1>1. Route(i) => Turns(i, Routes(i), task[i].result, task[i].todo)
  <2> SUFFICES ASSUME Route(i) PROVE Turns(i, Routes(i), task[i].result, task[i].todo)
    OBVIOUS
  <2>1. task' = [task EXCEPT ![i].pc = Routes(i)] /\ answer' = answer
    BY DEF Route, Routes
  <2> QED
    BY <2>1, QuietForms DEF Route
<1>2. ASSUME Forward(i)
      PROVE  LET to == Location(At(i), OwnerOf(i))
             IN IF to = At(i) THEN Ends(i, Panicked)
                ELSE Asks(i, "op", to, NoResult, "forwarded")
  BY <1>2, QuietForms DEF Forward
<1>3. ForwardAnswered(i) => Ends(i, Answer(i))
  BY ReleasedForms DEF ForwardAnswered
<1>4. ForwardRetries(i) => Turns(i, "route", task[i].result, task[i].todo)
  BY ReleasedForms DEF ForwardRetries
<1> QED
  BY <1>1, <1>2, <1>3, <1>4

\* The results of the checks.
NoChannel == [NoResult EXCEPT !.code = "UNKNOWN_CHANNEL"]
NoUser == [NoResult EXCEPT !.code = "UNKNOWN_USER"]

LEMMA ExistsForms ==
  ASSUME Tree, TasksOK(task, state), NEW i \in InUse
  PROVE  /\ CheckChannel(i) =>
              \/ Ends(i, Panicked) \/ Ends(i, NoChannel)
              \/ Turns(i, "exists", task[i].result, task[i].todo)
         /\ ExistsHere(i) =>
              \/ Ends(i, Panicked)
              \/ ~UserExists(state[At(i)], Req(i).user) /\ Ends(i, NoUser)
              \/ Turns(i, "apply", task[i].result, task[i].todo)
         /\ ExistsElsewhere(i) => Turns(i, "existsForward", task[i].result, task[i].todo)
         /\ ExistsForward(i) =>
              LET to == Location(At(i), Owner(Req(i).user))
              IN IF to = At(i) THEN Ends(i, Panicked)
                 ELSE Asks(i, "exists", to, NoResult, "asked")
         /\ ExistsAnswered(i) =>
              \/ Answer(i).code = "OK" /\ Turns(i, "apply", task[i].result, task[i].todo)
              \/ Answer(i).code # "OK" /\ Ends(i, Answer(i))
         /\ ExistsRetries(i) => Turns(i, "exists", task[i].result, task[i].todo)
<1>1. ASSUME CheckChannel(i)
      PROVE  \/ Ends(i, Panicked) \/ Ends(i, NoChannel)
             \/ Turns(i, "exists", task[i].result, task[i].todo)
  BY <1>1, QuietForms DEF CheckChannel, NoChannel
<1>2. ASSUME ExistsHere(i)
      PROVE  \/ Ends(i, Panicked)
             \/ ~UserExists(state[At(i)], Req(i).user) /\ Ends(i, NoUser)
             \/ Turns(i, "apply", task[i].result, task[i].todo)
  BY <1>2, QuietForms DEF ExistsHere, NoUser
<1>3. ASSUME ExistsElsewhere(i)
      PROVE  Turns(i, "existsForward", task[i].result, task[i].todo)
  BY <1>3, QuietForms DEF ExistsElsewhere
<1>4. ASSUME ExistsForward(i)
      PROVE  LET to == Location(At(i), Owner(Req(i).user))
             IN IF to = At(i) THEN Ends(i, Panicked)
                ELSE Asks(i, "exists", to, NoResult, "asked")
  BY <1>4, QuietForms DEF ExistsForward
<1>5. ASSUME ExistsAnswered(i)
      PROVE  \/ Answer(i).code = "OK" /\ Turns(i, "apply", task[i].result, task[i].todo)
             \/ Answer(i).code # "OK" /\ Ends(i, Answer(i))
  BY <1>5, ReleasedForms DEF ExistsAnswered
<1>6. ExistsRetries(i) => Turns(i, "exists", task[i].result, task[i].todo)
  BY ReleasedForms DEF ExistsRetries
<1> QED
  BY <1>1, <1>2, <1>3, <1>4, <1>5, <1>6

\* What the operation does to this server's state, and its result.
Applied(i) == OpEffect(state[At(i)], Req(i))

LEMMA ApplyForms ==
  ASSUME Tree, TasksOK(task, state), NEW i \in InUse, Apply(i)
  PROVE  \/ At(i) \in poisoned /\ Ends(i, Panicked) /\ state' = state
         \/ /\ state' = [state EXCEPT ![At(i)] = Applied(i).state]
            /\ LET result == By(At(i), Applied(i).result)
               IN IF Req(i).op \in Writes /\ result.code = "OK"
                  THEN Turns(i, "replicate", result, task[i].todo)
                  ELSE Ends(i, result)
<1>1. task[i].pc = "apply" /\ task[i].child = Client
  BY NoCall DEF Apply
<1>2. CASE At(i) \in poisoned
  BY <1>1, <1>2, QuietForms DEF Apply
<1>3. CASE At(i) \notin poisoned
  <2> DEFINE result == By(At(i), Applied(i).result)
  <2>1. /\ state' = [state EXCEPT ![At(i)] = Applied(i).state]
        /\ IF Req(i).op \in Writes /\ result.code = "OK"
           THEN /\ task' = [task EXCEPT ![i].pc = "replicate", ![i].result = result]
                /\ answer' = answer
           ELSE End(task, i, result)
    BY <1>3 DEF Apply, Applied
  <2> HIDE DEF result
  <2>2. CASE ~(Req(i).op \in Writes /\ result.code = "OK")
    BY <1>1, <2>1, <2>2, QuietForms DEF result
  <2>3. CASE Req(i).op \in Writes /\ result.code = "OK"
    <3>1. i \in Slots /\ TaskOK(task[i], state) /\ DOMAIN task = Slots
      BY Used DEF TasksOK
    <3>2. task' = [task EXCEPT ![i] = [[task[i] EXCEPT !.pc = "replicate"] EXCEPT !.result = result]]
      BY <2>1, <2>3, <3>1
    <3>3. [[task[i] EXCEPT !.pc = "replicate"] EXCEPT !.result = result]
            = Task(task[i], "replicate", Client, result, task[i].todo)
      <4>1. \A pc, res :
               [[task[i] EXCEPT !.pc = pc] EXCEPT !.result = res]
                 = Task(task[i], pc, task[i].child, res, task[i].todo)
        BY <3>1, PcForm
      <4> QED
        BY <1>1, <4>1
    <3>4. task' = [task EXCEPT ![i] = Task(task[i], "replicate", Client, result, task[i].todo)]
      BY <3>2, <3>3, Zenon
    <3>5. Turns(i, "replicate", result, task[i].todo)
      BY <1>1, <2>1, <2>3, <3>4, BecomesForm DEF Turns, Settled
    <3> QED
      BY <2>1, <2>3, <3>5 DEF result
  <2> QED
    BY <2>2, <2>3
<1> QED
  BY <1>2, <1>3

LEMMA ReplicateForms ==
  ASSUME Tree, TasksOK(task, state), NEW i \in InUse
  PROVE  /\ Replicate(i) =>
              LET backup == OwnerOf(i).backup
              IN IF backup = At(i) \/ ~alive[At(i)][backup]
                 THEN Ends(i, task[i].result)
                 ELSE Asks(i, "replicate", backup, task[i].result, "replicating")
         /\ ReplicateAnswered(i) => Ends(i, By(At(i), Answer(i)))
         /\ ReplicateUnavailable(i) => Ends(i, task[i].result)
<1>1. ASSUME Replicate(i)
      PROVE  LET backup == OwnerOf(i).backup
             IN IF backup = At(i) \/ ~alive[At(i)][backup]
                THEN Ends(i, task[i].result)
                ELSE Asks(i, "replicate", backup, task[i].result, "replicating")
  BY <1>1, QuietForms DEF Replicate
<1>2. ReplicateAnswered(i) => Ends(i, By(At(i), Answer(i)))
  BY ReleasedForms DEF ReplicateAnswered
<1>3. ReplicateUnavailable(i) => Ends(i, task[i].result)
  BY ReleasedForms DEF ReplicateUnavailable
<1> QED
  BY <1>1, <1>2, <1>3

\* The peers that s has not marked dead.
Peers(s) ==
  LET Peer(t) == IF t # s /\ alive[s][t] THEN <<t>> ELSE <<>>
  IN Peer("A") \o Peer("B") \o Peer("C")

OwnNames(i) ==
  [code |-> "OK", value |-> Names(state[At(i)], Req(i).op), by |-> At(i)]
MoreNames(i) == [task[i].result EXCEPT !.value = @ \cup Answer(i).value]

LEMMA GatherForms ==
  ASSUME Tree, TasksOK(task, state), NEW i \in InUse
  PROVE  /\ Gather(i) => Ends(i, Panicked) \/ Turns(i, "gather", OwnNames(i), Peers(At(i)))
         /\ GatherNext(i) =>
              Asks(i, "names", Head(task[i].todo), NoResult, "gathering")
         /\ Gathered(i) => Turns(i, "gather", MoreNames(i), Tail(task[i].todo))
         /\ GatherSkips(i) => Turns(i, "gather", task[i].result, Tail(task[i].todo))
         /\ GatherEnds(i) => Ends(i, task[i].result)
<1>1. ASSUME Gather(i)
      PROVE  Ends(i, Panicked) \/ Turns(i, "gather", OwnNames(i), Peers(At(i)))
  <2>1. CASE At(i) \in poisoned
    BY <1>1, <2>1, QuietForms DEF Gather
  <2>2. CASE At(i) \notin poisoned
    <3>1. /\ task' = [task EXCEPT ![i].pc = "gather", ![i].todo = Peers(At(i)),
                                  ![i].result = OwnNames(i)]
          /\ answer' = answer
      BY <1>1, <2>2 DEF Gather, Peers, OwnNames
    <3>2. task[i].child = Client
      BY <1>1, NoCall DEF Gather
    <3> QED
      BY <3>1, <3>2, GatherForm DEF Settled
  <2> QED
    BY <2>1, <2>2
<1>2. ASSUME GatherNext(i)
      PROVE  Asks(i, "names", Head(task[i].todo), NoResult, "gathering")
  BY <1>2, QuietForms DEF GatherNext
<1>3. ASSUME Gathered(i)
      PROVE  Turns(i, "gather", MoreNames(i), Tail(task[i].todo))
  <2> DEFINE T == Released(i)
             N == [T EXCEPT ![i].result.value = @ \cup Answer(i).value]
  <2>1. /\ T[i] = Task(task[i], task[i].pc, Client, task[i].result, task[i].todo)
        /\ TaskOK(T[i], state) /\ DOMAIN T = Slots /\ i \in Slots
    BY SettledForm, Used DEF Settled
  <2>2. /\ task' = [N EXCEPT ![i].pc = "gather", ![i].todo = Tail(N[i].todo)]
        /\ answer' = answer
    BY <1>3 DEF Gathered, With
  <2>3. T[i].result = task[i].result /\ T[i].todo = task[i].todo
    BY <2>1, TaskFields
  <2>4. N = [T EXCEPT ![i] = [T[i] EXCEPT !.result = MoreNames(i)]]
    <3>1. [T[i].result EXCEPT !.value = @ \cup Answer(i).value] = MoreNames(i)
      BY <2>3 DEF MoreNames
    <3> QED
      BY <2>1, <3>1
  <2>5. [T[i] EXCEPT !.result = MoreNames(i)].todo = task[i].todo
    <3>1. [T[i] EXCEPT !.result = MoreNames(i)]
            = Task(T[i], T[i].pc, T[i].child, MoreNames(i), T[i].todo)
      BY <2>1, Fields
    <3> QED
      BY <2>3, <3>1, TaskFields
  <2> DEFINE x == [T[i] EXCEPT !.result = MoreNames(i)]
  <2> HIDE DEF T
  <2>6. N[i].todo = task[i].todo
    <3> HIDE DEF x, N
    <3>1. N[i] = x
      BY <2>1, <2>4 DEF x
    <3> QED
      BY <2>5, <3>1 DEF x
  <2>7. N = [T EXCEPT ![i].result = MoreNames(i)]
    BY <2>1, <2>4
  <2>8. task' = [[T EXCEPT ![i].result = MoreNames(i)]
                   EXCEPT ![i].pc = "gather", ![i].todo = Tail(task[i].todo)]
    <3> HIDE DEF N
    <3>1. task' = [N EXCEPT ![i].pc = "gather", ![i].todo = Tail(task[i].todo)]
      BY <2>2, <2>6
    <3> QED
      BY <2>7, <3>1, Zenon
  <2> QED
    BY <2>2, <2>8, GatherForm DEF Settled, T
<1>4. ASSUME GatherSkips(i)
      PROVE  Turns(i, "gather", task[i].result, Tail(task[i].todo))
  <2> DEFINE T == Released(i)
  <2>1. /\ T[i] = Task(task[i], task[i].pc, Client, task[i].result, task[i].todo)
        /\ DOMAIN T = Slots /\ i \in Slots
    BY SettledForm, Used DEF Settled
  <2>2. /\ task' = [T EXCEPT ![i].pc = "gather", ![i].todo = Tail(T[i].todo)]
        /\ answer' = answer
    BY <1>4 DEF GatherSkips
  <2>3. T[i].todo = task[i].todo
    BY <2>1, TaskFields
  <2> HIDE DEF T
  <2>4. task' = [T EXCEPT ![i].pc = "gather", ![i].todo = Tail(task[i].todo)]
    BY <2>2, <2>3
  <2> QED
    BY <2>2, <2>4, GatherForm DEF Settled, T
<1>5. GatherEnds(i) => Ends(i, task[i].result)
  BY QuietForms DEF GatherEnds
<1> QED
  BY <1>1, <1>2, <1>3, <1>4, <1>5

\* What a peer answers from its own state.
Found(i) ==
  [NoResult EXCEPT !.code = IF UserExists(state[At(i)], Req(i).user) THEN "OK"
                            ELSE "UNKNOWN_USER"]
TheirNames(i) == [NoResult EXCEPT !.code = "OK", !.value = Names(state[At(i)], Req(i).op)]
Replicated(i) == ReplicaEffect(state[At(i)], Req(i), task[i].result)

LEMMA ServeForms ==
  ASSUME Tree, TasksOK(task, state), NEW i \in InUse
  PROVE  /\ ServeExists(i) => Ends(i, Panicked) \/ Ends(i, Found(i))
         /\ ServeNames(i) => Ends(i, Panicked) \/ Ends(i, TheirNames(i))
         /\ ServeReplicate(i) =>
              \/ Ends(i, Panicked) /\ state' = state
              \/ /\ ~ChannelMissing(i)
                 /\ state' = [state EXCEPT ![At(i)] = Replicated(i).state]
                 /\ Ends(i, By(At(i), Replicated(i).result))
<1>1. ASSUME ServeExists(i)
      PROVE  Ends(i, Panicked) \/ Ends(i, Found(i))
  BY <1>1, QuietForms DEF ServeExists, Found
<1>2. ASSUME ServeNames(i)
      PROVE  Ends(i, Panicked) \/ Ends(i, TheirNames(i))
  BY <1>2, QuietForms DEF ServeNames, TheirNames
<1>3. ASSUME ServeReplicate(i)
      PROVE  \/ Ends(i, Panicked) /\ state' = state
             \/ /\ ~ChannelMissing(i)
                /\ state' = [state EXCEPT ![At(i)] = Replicated(i).state]
                /\ Ends(i, By(At(i), Replicated(i).result))
  BY <1>3, QuietForms DEF ServeReplicate, Replicated
<1> QED
  BY <1>1, <1>2, <1>3

(***************************************************************************)
(* The steps keep the tree                                                 *)
(***************************************************************************)
\* Every result has a code.
LEMMA OpCodes ==
  ASSUME NEW st, NEW r, r.op \in Ops \ Gathers
  PROVE  OpEffect(st, r).result.code \in
           {"OK", "DUPLICATE_USER", "ALREADY_MEMBER", "NOT_A_MEMBER", "UNKNOWN_CHANNEL"}
BY DEF OpEffect, Ops, Gathers, CreateUser, JoinChannel, LeaveChannel, SendMessage,
       ListChannelUsers, GetMessages, Effect

LEMMA ReplicaCodes ==
  ASSUME NEW st, NEW r, r.op \in Writes, NEW result
  PROVE  ReplicaEffect(st, r, result).result.code \in
           {"OK", "DUPLICATE_USER", "ALREADY_MEMBER", "NOT_A_MEMBER", "UNKNOWN_CHANNEL"}
BY DEF ReplicaEffect, Writes, CreateUser, JoinChannel, LeaveChannel, ReplicateSendMessage,
       Effect

\* The answer a handler got.
LEMMA AnswerForm ==
  ASSUME Tree, TasksOK(task, state), NEW i \in InUse, NEW pc, Answered(i, pc)
  PROVE  LET c == task[i].child
         IN /\ c \in InUse /\ task[c].pc = "replied" /\ task[c].req = Req(i)
            /\ task[c].parent = i /\ <<pc, task[c].kind>> \in Waits
            /\ Answer(i) = task[c].result /\ Answer(i).code # "NONE"
<1>1. CalleeOK(i) /\ \A c \in InUse : HandlerOK(c)
  BY DEF Tree
<1> QED
  BY <1>1 DEF Answered, Answer, CalleeOK, HandlerOK, StandsOK, Req

\* A call that fits.
LEMMA AskTree ==
  ASSUME Tree, TasksOK(task, state), NEW i \in InUse, NEW kind, NEW to, NEW result, NEW pc,
         Asks(i, kind, to, result, pc), UNCHANGED <<alive, up>>,
         task[i].pc \notin Over, task[i].child = Client,
         to \in Servers, to # At(i), <<pc, kind>> \in Waits,
         pc = "replicating" => alive[At(i)][to],
         \A d \in Slots \cup {Client} : d # Client \/ ~alive[At(i)][to] =>
           StandsOK(task[i].kind, task[i].req.op, d, pc, task[i].result, task[i].todo)
  PROVE  Tree'
<1>1. CASE alive[At(i)][to]
  <2>1. PICK d : Calls(i, d, kind, to, result, pc)
    BY <1>1 DEF Asks
  <2>2. d \in Slots /\ d # Client
    BY <2>1, ClientNoSlot DEF Calls
  <2> QED
    BY <2>1, <2>2, CallTree
<1>2. CASE ~alive[At(i)][to]
  <2>1. Turns(i, pc, task[i].result, task[i].todo)
    BY <1>2 DEF Asks
  <2>2. /\ pc \notin {"free", "start"} \cup Over
        /\ task[i].todo \in Seq(Servers \ {task[i].at})
    BY Working DEF Waits, Over
  <2> QED
    BY <1>2, <2>1, <2>2, TurnTree
<1> QED
  BY <1>1, <1>2

LEMMA ForwardTree ==
  ASSUME Tree, TasksOK(task, state), NEW i \in InUse,
         Route(i) \/ Forward(i) \/ ForwardAnswered(i) \/ ForwardRetries(i)
  PROVE  Tree'
<1> USE Working, ForwardForms
<1>1. CASE Route(i)
  <2>1. /\ Turns(i, Routes(i), task[i].result, task[i].todo) /\ UNCHANGED <<alive, up>>
        /\ task[i].pc = "route" /\ Req(i).op \notin Gathers
    BY <1>1 DEF Route
  <2>2. /\ Routes(i) \in {"forward", "apply", "exists", "check"}
        /\ Routes(i) = "exists" => Req(i).op = "join_channel"
        /\ Routes(i) = "check" => Req(i).op \in {"leave_channel", "send_message"}
    BY <2>1 DEF Routes, Ops, Gathers
  <2>3. StandsOK(task[i].kind, task[i].req.op, Client, Routes(i), task[i].result, task[i].todo)
    BY <2>1, <2>2 DEF StandsOK, Over
  <2> QED
    BY <2>1, <2>2, <2>3, TurnTree DEF Over
<1>2. CASE Forward(i)
  <2> DEFINE to == Location(At(i), OwnerOf(i))
  <2>1. task[i].pc = "forward" /\ UNCHANGED <<alive, up>>
    BY <1>2 DEF Forward
  <2>2. CASE to = At(i)
    <3>1. Ends(i, Panicked) /\ Panicked.code # "NONE"
      BY <1>2, <2>2 DEF Panicked, NoResult
    <3> QED
      BY <2>1, <3>1, EndTree
  <2>3. CASE to # At(i)
    <3>1. Asks(i, "op", to, NoResult, "forwarded") /\ task[i].child = Client
      BY <1>2, <2>1, <2>3, NoCall
    <3>2. to \in Servers
      BY DEF Location, OwnerOf
    <3>3. \A d : StandsOK(task[i].kind, task[i].req.op, d, "forwarded", task[i].result,
                          task[i].todo)
      BY <2>1 DEF StandsOK, Over
    <3> HIDE DEF to
    <3>4. <<"forwarded", "op">> \in Waits /\ task[i].pc \notin Over
      BY <2>1 DEF Waits, Over
    <3> QED
      BY <2>1, <2>3, <3>1, <3>2, <3>3, <3>4, AskTree
  <2> QED
    BY <2>2, <2>3
<1>3. CASE ForwardAnswered(i)
  BY <1>3, AnswerForm, EndTree DEF ForwardAnswered
<1>4. CASE ForwardRetries(i)
  <2>1. /\ Turns(i, "route", task[i].result, task[i].todo) /\ UNCHANGED <<alive, up>>
        /\ task[i].pc = "forwarded"
    BY <1>4 DEF ForwardRetries, Unavailable
  <2>2. StandsOK(task[i].kind, task[i].req.op, Client, "route", task[i].result, task[i].todo)
    BY <2>1 DEF StandsOK, Over
  <2> QED
    BY <2>1, <2>2, TurnTree DEF Over
<1> QED
  BY <1>1, <1>2, <1>3, <1>4

LEMMA ExistsTree ==
  ASSUME Tree, TasksOK(task, state), NEW i \in InUse,
         \/ CheckChannel(i) \/ ExistsHere(i) \/ ExistsElsewhere(i) \/ ExistsForward(i)
         \/ ExistsAnswered(i) \/ ExistsRetries(i)
  PROVE  Tree'
<1> USE Working, ExistsForms
<1>0. /\ UNCHANGED <<alive, up>>
      /\ task[i].pc \in {"check", "exists", "existsForward", "asked"}
      /\ task[i].pc \notin Over
  BY DEF CheckChannel, ExistsHere, ExistsElsewhere, ExistsForward, ExistsAnswered,
         ExistsRetries, Answered, Unavailable, Over
<1>1. \A pc \in {"exists", "existsForward", "asked", "apply"} : \A d :
        StandsOK(task[i].kind, task[i].req.op, d, pc, task[i].result, task[i].todo)
  BY <1>0 DEF StandsOK, Over
<1>2. ASSUME NEW pc \in {"exists", "existsForward", "asked", "apply"},
             Turns(i, pc, task[i].result, task[i].todo)
      PROVE  Tree'
  BY <1>0, <1>1, <1>2, TurnTree DEF Over
<1>3. ASSUME NEW result, Ends(i, result), result.code # "NONE"
      PROVE  Tree'
  BY <1>0, <1>3, EndTree
<1>4. /\ Panicked.code # "NONE" /\ NoChannel.code # "NONE" /\ NoUser.code # "NONE"
  BY DEF Panicked, NoChannel, NoUser, NoResult
<1>5. CASE ExistsForward(i)
  <2> DEFINE to == Location(At(i), Owner(Req(i).user))
  <2>1. CASE to = At(i)
    BY <1>3, <1>4, <1>5, <2>1
  <2>2. CASE to # At(i)
    <3>1. Asks(i, "exists", to, NoResult, "asked") /\ task[i].child = Client
      BY <1>5, <2>2, NoCall DEF ExistsForward
    <3>2. to \in Servers
      BY DEF Location
    <3> HIDE DEF to
    <3>3. <<"asked", "exists">> \in Waits
      BY DEF Waits
    <3> QED
      BY <1>0, <1>1, <2>2, <3>1, <3>2, <3>3, AskTree
  <2> QED
    BY <2>1, <2>2
<1>6. CASE CheckChannel(i)
  BY <1>2, <1>3, <1>4, <1>6
<1>7. CASE ExistsHere(i)
  BY <1>2, <1>3, <1>4, <1>7
<1>8. CASE ExistsElsewhere(i) \/ ExistsRetries(i)
  BY <1>2, <1>8
<1>9. CASE ExistsAnswered(i)
  BY <1>2, <1>3, <1>9, AnswerForm DEF ExistsAnswered
<1> QED
  BY <1>5, <1>6, <1>7, <1>8, <1>9

LEMMA ApplyTree ==
  ASSUME Tree, TasksOK(task, state), NEW i \in InUse, Apply(i)
  PROVE  Tree'
<1> DEFINE result == By(At(i), Applied(i).result)
<1>1. task[i].pc = "apply" /\ UNCHANGED <<alive, up>>
  BY DEF Apply
<1>2. Req(i).op \in Ops \ Gathers
  <2>1. PcOK(task[i].kind, task[i].req, task[i].at, task[i].pc, state)
    BY Used DEF TaskOK
  <2> QED
    BY <1>1, <2>1, Working DEF PcOK, Routed
<1>3. result.code # "NONE"
  BY <1>2, OpCodes DEF Applied, By
<1>4. Panicked.code # "NONE"
  BY DEF Panicked, NoResult
<1>5. CASE Turns(i, "replicate", result, task[i].todo) /\ result.code = "OK"
  <2> HIDE DEF result
  <2>1. StandsOK(task[i].kind, task[i].req.op, Client, "replicate", result, task[i].todo)
    BY <1>1, <1>5, Working DEF StandsOK, Over
  <2> QED
    BY <1>1, <1>5, <2>1, Working, TurnTree DEF Over
<1>6. CASE Ends(i, result) \/ Ends(i, Panicked)
  BY <1>1, <1>3, <1>4, <1>6, EndTree
<1> QED
  BY <1>5, <1>6, ApplyForms

LEMMA ReplicateTree ==
  ASSUME Tree, TasksOK(task, state), NEW i \in InUse,
         Replicate(i) \/ ReplicateAnswered(i) \/ ReplicateUnavailable(i)
  PROVE  Tree'
<1> USE Working, ReplicateForms
<1>1. /\ task[i].pc \in {"replicate", "replicating"} /\ UNCHANGED <<alive, up>>
      /\ task[i].pc \notin Over
  BY DEF Replicate, ReplicateAnswered, ReplicateUnavailable, Answered, Unavailable, Over
<1>2. task[i].result.code = "OK"
  BY <1>1 DEF StandsOK
<1>3. CASE Replicate(i)
  <2> DEFINE to == OwnerOf(i).backup
  <2>1. CASE to = At(i) \/ ~alive[At(i)][to]
    BY <1>1, <1>2, <1>3, <2>1, EndTree
  <2>2. CASE to # At(i) /\ alive[At(i)][to]
    <3>1. Asks(i, "replicate", to, task[i].result, "replicating") /\ task[i].child = Client
      BY <1>3, <2>2, NoCall DEF Replicate
    <3>2. to \in Servers
      BY DEF OwnerOf
    <3> HIDE DEF to
    <3>3. <<"replicating", "replicate">> \in Waits
      BY DEF Waits
    <3>4. \A d : d # Client =>
            StandsOK(task[i].kind, task[i].req.op, d, "replicating", task[i].result, task[i].todo)
      BY <1>1, <1>2 DEF StandsOK, Over
    <3> QED
      BY <1>1, <2>2, <3>1, <3>2, <3>3, <3>4, AskTree
  <2> QED
    BY <2>1, <2>2
<1>4. CASE ReplicateAnswered(i)
  <2>1. Ends(i, By(At(i), Answer(i))) /\ Answer(i).code # "NONE"
    BY <1>4, AnswerForm DEF ReplicateAnswered
  <2>2. By(At(i), Answer(i)).code # "NONE"
    BY <2>1 DEF By
  <2> QED
    BY <1>1, <2>1, <2>2, EndTree
<1>5. CASE ReplicateUnavailable(i)
  BY <1>1, <1>2, <1>5, EndTree
<1> QED
  BY SMTT(40), <1>3, <1>4, <1>5

\* What is left of a sequence, and what sequences make together.
LEMMA SeqsOK ==
  ASSUME NEW S
  PROVE  /\ \A s \in Seq(S) : s # <<>> => Head(s) \in S /\ Tail(s) \in Seq(S)
         /\ \A s, t \in Seq(S) : s \o t \in Seq(S)
OBVIOUS

\* A server asks other servers.
LEMMA PeersAreOthers ==
  ASSUME NEW s \in Servers
  PROVE  Peers(s) \in Seq(Servers \ {s})
<1>1. \A t \in Servers : (IF t # s /\ alive[s][t] THEN <<t>> ELSE <<>>) \in Seq(Servers \ {s})
  <2>1. \A t \in Servers \ {s} : <<t>> \in Seq(Servers \ {s})
    OBVIOUS
  <2>2. <<>> \in Seq(Servers \ {s})
    OBVIOUS
  <2> QED
    BY <2>1, <2>2
<1>2. "A" \in Servers /\ "B" \in Servers /\ "C" \in Servers
  BY DEF Servers
<1> QED
  BY <1>1, <1>2, SeqsOK DEF Peers

LEMMA GatherTree ==
  ASSUME Tree, TasksOK(task, state), NEW i \in InUse,
         Gather(i) \/ GatherNext(i) \/ Gathered(i) \/ GatherSkips(i) \/ GatherEnds(i)
  PROVE  Tree'
<1> USE Working, GatherForms
<1>0. /\ UNCHANGED <<alive, up>> /\ task[i].pc \notin Over
      /\ task[i].pc \in {"route", "gather", "gathering"} /\ Req(i).op \in Gathers
  BY DEF Gather, GatherNext, Gathered, GatherSkips, GatherEnds, Answered, Unavailable, Over,
         StandsOK
<1>1. ASSUME NEW result, NEW todo \in Seq(Servers \ {task[i].at}), result.code = "OK",
             Turns(i, "gather", result, todo)
      PROVE  Tree'
  <2>1. StandsOK(task[i].kind, task[i].req.op, Client, "gather", result, todo)
    BY <1>0, <1>1 DEF StandsOK, Over
  <2> QED
    BY <1>0, <1>1, <2>1, TurnTree DEF Over
<1>2. task[i].pc \in {"gather", "gathering"} => task[i].result.code = "OK"
  BY DEF StandsOK
<1>3. CASE Gather(i)
  <2>1. CASE Ends(i, Panicked)
    <3>1. Panicked.code # "NONE"
      BY DEF Panicked, NoResult
    <3> QED
      BY <1>0, <2>1, <3>1, EndTree
  <2>2. CASE Turns(i, "gather", OwnNames(i), Peers(At(i)))
    <3>1. Peers(At(i)) \in Seq(Servers \ {task[i].at}) /\ OwnNames(i).code = "OK"
      BY PeersAreOthers DEF OwnNames
    <3> QED
      BY <1>1, <2>2, <3>1
  <2> QED
    BY <1>3, <2>1, <2>2
<1>4. CASE GatherNext(i)
  <2>1. /\ Asks(i, "names", Head(task[i].todo), NoResult, "gathering")
        /\ task[i].pc = "gather" /\ task[i].todo # <<>> /\ task[i].child = Client
    BY <1>4, NoCall DEF GatherNext
  <2>2. Head(task[i].todo) \in Servers /\ Head(task[i].todo) # At(i)
    <3>1. Head(task[i].todo) \in Servers \ {task[i].at}
      BY <2>1, SeqsOK
    <3> QED
      BY <3>1
  <2>3. <<"gathering", "names">> \in Waits
    BY DEF Waits
  <2>4. \A d : StandsOK(task[i].kind, task[i].req.op, d, "gathering", task[i].result, task[i].todo)
    BY <1>0, <1>2, <2>1 DEF StandsOK, Over
  <2> QED
    BY <1>0, <2>1, <2>2, <2>3, <2>4, AskTree
<1>5. CASE Gathered(i) \/ GatherSkips(i)
  <2>1. task[i].pc = "gathering" /\ task[i].todo # <<>> /\ task[i].result.code = "OK"
    BY <1>2, <1>5 DEF Gathered, GatherSkips, Answered, Unavailable, StandsOK
  <2>2. Tail(task[i].todo) \in Seq(Servers \ {task[i].at})
    BY <2>1, SeqsOK
  <2>3. CASE GatherSkips(i)
    BY <1>1, <2>1, <2>2, <2>3
  <2>4. CASE Gathered(i)
    <3>1. MoreNames(i).code = "OK"
      BY <2>1 DEF MoreNames
    <3> QED
      BY <1>1, <2>2, <2>4, <3>1
  <2> QED
    BY <1>5, <2>3, <2>4
<1>6. CASE GatherEnds(i)
  BY <1>0, <1>2, <1>6, EndTree DEF GatherEnds
<1> QED
  BY <1>3, <1>4, <1>5, <1>6

LEMMA ServeTree ==
  ASSUME Tree, TasksOK(task, state), NEW i \in InUse,
         ServeExists(i) \/ ServeNames(i) \/ ServeReplicate(i)
  PROVE  Tree'
<1> USE ServeForms
<1>0. UNCHANGED <<alive, up>>
  BY DEF ServeExists, ServeNames, ServeReplicate
<1>1. ASSUME NEW result, Ends(i, result), result.code # "NONE"
      PROVE  Tree'
  BY <1>0, <1>1, EndTree
<1>2. Panicked.code # "NONE" /\ Found(i).code # "NONE" /\ TheirNames(i).code # "NONE"
  BY DEF Panicked, NoResult, Found, TheirNames
<1>3. CASE ServeReplicate(i)
  <2>1. Req(i).op \in Writes
    <3>1. PcOK(task[i].kind, task[i].req, task[i].at, task[i].pc, state)
      BY Used DEF TaskOK
    <3> QED
      BY <1>3, <3>1, Working DEF PcOK, ServeReplicate
  <2>2. By(At(i), Replicated(i).result).code # "NONE"
    BY <2>1, ReplicaCodes DEF Replicated, By
  <2> QED
    BY <1>1, <1>2, <1>3, <2>2
<1> QED
  BY SMTT(40), <1>1, <1>2, <1>3

(***************************************************************************)
(* Clients and failures                                                    *)
(***************************************************************************)
\* A request starts with one handler.
Starts(d, r) ==
  /\ d \in Slots \ InUse /\ d[1] = r.id
  /\ task'[d] = NewTask("op", r, r.at, r.at, Client, NoResult)
  /\ \A j \in Slots \ {d} : task'[j] = task[j]

LEMMA IssueForm ==
  ASSUME Tree, TasksOK(task, state), NEW r \in Requests, Issue(r)
  PROVE  \E d : Starts(d, r)
<1>1. <<r.id, 1>> \in FreeSlots(r)
  <2>1. r.id \in {q.id : q \in Requests} /\ 1 \in 1 .. MaxTasks
    BY ReplicationAssumption
  <2>2. <<r.id, 1>> \in Slots /\ <<r.id, 1>>[1] = r.id
    BY <2>1 DEF Slots
  <2>3. <<r.id, 1>> \notin InUse
    <3> SUFFICES ASSUME NEW i \in InUse, i = <<r.id, 1>> PROVE FALSE
      OBVIOUS
    <3>1. HandlerOK(i) /\ task[i].req \in Requests
      BY Used DEF Tree
    <3>2. task[i].req.id = r.id
      BY <3>1 DEF HandlerOK
    <3>3. task[i].req = r
      BY <3>1, <3>2, ReplicationAssumption
    <3> QED
      BY <3>3 DEF Issue
  <2> QED
    BY <2>2, <2>3 DEF FreeSlots
<1> DEFINE d == NewSlot(r)
<1>2. d \in Slots \ InUse /\ d[1] = r.id
  BY <1>1, NewSlotFree
<1>3. task' = [task EXCEPT ![d] = NewTask("op", r, r.at, r.at, Client, NoResult)]
  BY DEF Issue
<1> HIDE DEF d
<1>4. Starts(d, r)
  BY <1>2, <1>3 DEF Starts, TasksOK
<1> QED
  BY <1>4

LEMMA IssueTree ==
  ASSUME Tree, TasksOK(task, state), NEW r \in Requests, Issue(r)
  PROVE  Tree'
<1> DEFINE z == NewTask("op", r, r.at, r.at, Client, NoResult)
<1>0. /\ \A j \in InUse : j \in Slots /\ task[j].pc # "free" /\ task[j].req \in Requests
      /\ \A j \in InUse : HandlerOK(j) /\ CalleeOK(j) /\ ClientOK(j)
      /\ OneTop /\ AliveOK /\ DOMAIN answer = Requests /\ up \subseteq Servers
      /\ alive \in [Servers -> [Servers -> BOOLEAN]]
  BY Used DEF Tree
<1>1. /\ UNCHANGED <<alive, up, answer>>
      /\ answer[r] = NoResult /\ r.at \in up /\ \A j \in InUse : task[j].req # r
  BY DEF Issue
<1>2. PICK d : Starts(d, r)
  BY IssueForm
<1>3. /\ z.kind = "op" /\ z.req = r /\ z.at = r.at /\ z.parent = Client
      /\ z.child = Client /\ z.result = NoResult /\ z.todo = <<>> /\ z.pc = "route"
  BY DEF NewTask
<1> HIDE DEF z
<1>4. /\ d \in Slots \ InUse /\ d[1] = r.id /\ task'[d] = z
      /\ \A j \in InUse : task'[j] = task[j]
      /\ InUse' = InUse \cup {d}
  <2>1. /\ d \in Slots \ InUse /\ d[1] = r.id /\ task'[d] = z
        /\ \A j \in Slots \ {d} : task'[j] = task[j]
    BY <1>2 DEF Starts, z
  <2> QED
    BY <1>0, <1>3, <2>1, NextUsed DEF InUse
<1>5. HandlerOK(d)'
  <2>1. StandsOK(z.kind, z.req.op, z.child, z.pc, z.result, z.todo)
    BY <1>3 DEF StandsOK, Over
  <2>2. r.at \in Servers
    BY ReplicationAssumption
  <2>3. z.todo \in Seq(Servers \ {z.at})
    BY <1>3
  <2> QED
    BY <1>0, <1>1, <1>3, <1>4, <2>1, <2>2, <2>3 DEF HandlerOK, Top, Over
<1>6. ASSUME NEW j \in InUse' PROVE HandlerOK(j)'
  BY <1>1, <1>4, <1>5, StaysOK
<1>7. ASSUME NEW j \in InUse' PROVE CalleeOK(j)'
  <2>1. CASE j = d
    BY <1>3, <1>4, <2>1 DEF CalleeOK
  <2>2. CASE j # d
    <3>1. j \in InUse /\ task'[j] = task[j] /\ CalleeOK(j)
      BY <1>0, <1>4, <2>2
    <3> QED
      BY <1>4, <3>1 DEF CalleeOK
  <2> QED
    BY <2>1, <2>2
<1>8. ASSUME NEW j \in InUse' PROVE ClientOK(j)'
  <2>1. CASE j = d
    BY <1>1, <1>3, <1>4, <2>1 DEF ClientOK, Top
  <2>2. CASE j # d
    BY <1>0, <1>1, <1>4, <2>2 DEF ClientOK, Top
  <2> QED
    BY <2>1, <2>2
<1>9. OneTop'
  BY <1>0, <1>1, <1>3, <1>4 DEF OneTop, Top
<1> QED
  BY <1>0, <1>1, <1>6, <1>7, <1>8, <1>9 DEF Tree, AliveOK

\* A client that goes away takes its handler with it.
LEMMA DisconnectForm ==
  ASSUME TasksOK(task, state), NEW i \in InUse, Disconnect(i)
  PROVE  /\ Top(i) /\ Becomes(i, Free) /\ UNCHANGED <<state, poisoned, alive, up>>
         /\ answer' = [answer EXCEPT ![Req(i)] = Lost]
BY BecomesForm DEF Disconnect, Settled, Top

LEMMA DisconnectTree ==
  ASSUME Tree, TasksOK(task, state), NEW i \in InUse, Disconnect(i)
  PROVE  Tree'
<1>1. /\ Top(i) /\ Becomes(i, Free) /\ UNCHANGED <<alive, up>>
      /\ answer' = [answer EXCEPT ![Req(i)] = Lost]
  BY DisconnectForm
<1>2. ~Awaited(i)
  BY <1>1 DEF Top, Awaited
<1>3. Ends(i, Lost) /\ Lost.code # "NONE"
  BY <1>1, <1>2 DEF Ends, Ending, Lost, NoResult
<1> QED
  BY <1>1, <1>3, EndTree

\* What a crash of s leaves of the handlers.
Orphan(i, s) == task[i].parent # Client /\ task[task[i].parent].at = s

LEMMA CrashForm ==
  ASSUME TasksOK(task, state), NEW s \in Servers, Crash(s)
  PROVE  /\ up' = up \ {s} /\ s \in up /\ UNCHANGED <<state, poisoned, alive>>
         /\ \A i \in Slots :
              task'[i] = IF task[i].at = s
                         THEN IF ~Awaited(i) \/ Orphan(i, s) THEN Free
                              ELSE IF task[i].pc = "replied" THEN task[i]
                              ELSE Task(task[i], "lost", Client, task[i].result, task[i].todo)
                         ELSE IF Orphan(i, s) /\ task[i].pc \in Over THEN Free
                         ELSE task[i]
         /\ answer' = [r \in Requests |->
              IF \E i \in InUse : task[i].req = r /\ Top(i) /\ task[i].at = s
              THEN Lost ELSE answer[r]]
<1>1. \A i \in Slots : [[task[i] EXCEPT !.pc = "lost"] EXCEPT !.child = Client]
                         = Task(task[i], "lost", Client, task[i].result, task[i].todo)
  BY PcForm DEF TasksOK
<1>2. \A i \in Slots :
        task'[i] = IF task[i].at = s
                   THEN IF ~Awaited(i) \/ Orphan(i, s) THEN Free
                        ELSE IF task[i].pc = "replied" THEN task[i]
                        ELSE [[task[i] EXCEPT !.pc = "lost"] EXCEPT !.child = Client]
                   ELSE IF Orphan(i, s) /\ task[i].pc \in Over THEN Free
                   ELSE task[i]
  BY DEF Crash, Orphan, Over
<1>3. \A i \in Slots :
        task'[i] = IF task[i].at = s
                   THEN IF ~Awaited(i) \/ Orphan(i, s) THEN Free
                        ELSE IF task[i].pc = "replied" THEN task[i]
                        ELSE Task(task[i], "lost", Client, task[i].result, task[i].todo)
                   ELSE IF Orphan(i, s) /\ task[i].pc \in Over THEN Free
                   ELSE task[i]
  BY <1>1, <1>2, Zenon
<1> QED
  BY <1>3 DEF Crash, Top

\* Which handlers a crash leaves, and as what.
LEMMA CrashLeaves ==
  ASSUME Tree, TasksOK(task, state), NEW s \in Servers, Crash(s), NEW j \in InUse'
  PROVE  /\ j \in InUse
         /\ task'[j].kind = task[j].kind /\ task'[j].req = task[j].req
         /\ task'[j].at = task[j].at /\ task'[j].from = task[j].from
         /\ task'[j].parent = task[j].parent /\ task'[j].result = task[j].result
         /\ task'[j].todo = task[j].todo
         /\ \/ task'[j] = task[j] /\ (task[j].at # s \/ task[j].pc = "replied")
            \/ task[j].at = s /\ task'[j].pc = "lost" /\ task'[j].child = Client
         /\ task[j].at = s => ~Top(j) /\ Awaited(j)
<1>1. j \in Slots /\ task'[j].pc # "free"
  BY NextUsed
<1>2. task[j].pc # "free"
  <2> SUFFICES ASSUME task[j].pc = "free" PROVE FALSE
    OBVIOUS
  <2>1. task[j] = Free
    BY <1>1, Used DEF InUse
  <2>2. ~Awaited(j)
    BY <2>1, FreeFields DEF Awaited
  <2> QED
    BY <1>1, <2>1, <2>2, CrashForm, FreeFields
<1>3. j \in InUse
  BY <1>1, <1>2 DEF InUse
<1> QED
  BY <1>1, <1>3, CrashForm, FreeFields, TaskFields DEF Top, Awaited

LEMMA CrashTree ==
  ASSUME Tree, TasksOK(task, state), NEW s \in Servers, Crash(s)
  PROVE  Tree'
<1>0. /\ \A j \in InUse : j \in Slots /\ task[j].pc # "free" /\ task[j].req \in Requests
      /\ \A j \in InUse : HandlerOK(j) /\ CalleeOK(j) /\ ClientOK(j)
      /\ OneTop /\ AliveOK /\ DOMAIN answer = Requests /\ up \subseteq Servers
      /\ alive \in [Servers -> [Servers -> BOOLEAN]]
  BY Used DEF Tree
<1>1. /\ up' = up \ {s} /\ alive' = alive
      /\ \A r \in Requests : answer'[r] =
           IF \E i \in InUse : task[i].req = r /\ Top(i) /\ task[i].at = s
           THEN Lost ELSE answer[r]
      /\ DOMAIN answer' = Requests
  BY CrashForm
<1>2. Lost # NoResult
  BY DEF Lost, NoResult
<1>3. ASSUME NEW j \in InUse' PROVE HandlerOK(j)'
  <2>1. HandlerOK(j)
    BY <1>0, <1>3, CrashLeaves
  <2>2. CASE task'[j] = task[j] /\ (task[j].at # s \/ task[j].pc = "replied")
    BY <1>1, <2>1, <2>2 DEF HandlerOK, Top, Over
  <2>3. CASE task[j].at = s /\ task'[j].pc = "lost"
    <3>1. StandsOK(task'[j].kind, task'[j].req.op, task'[j].child, task'[j].pc,
                   task'[j].result, task'[j].todo)
      BY <2>3 DEF StandsOK, Over
    <3>2. ~Top(j)'
      BY <1>3, <2>3, CrashLeaves DEF Top
    <3> QED
      BY <1>3, <2>1, <2>3, <3>1, <3>2, CrashLeaves DEF HandlerOK, Over
  <2> QED
    BY <1>3, <2>2, <2>3, CrashLeaves
<1>4. ASSUME NEW j \in InUse' PROVE CalleeOK(j)'
  <2> DEFINE c == task'[j].child
  <2> SUFFICES ASSUME c # Client
               PROVE  /\ c \in InUse' /\ task'[c].parent = j /\ task'[c].req = task'[j].req
                      /\ task'[c].from = task'[j].at /\ task'[c].at # task'[j].at
                      /\ <<task'[j].pc, task'[c].kind>> \in Waits
    BY DEF CalleeOK
  <2>1. task'[j] = task[j] /\ j \in InUse /\ CalleeOK(j)
    BY <1>0, <1>4, CrashLeaves
  <2>2. task[j].at # s
    <3>1. task[j].pc # "replied"
      BY <2>1 DEF CalleeOK, Waits
    <3> QED
      BY <1>4, <2>1, <3>1, CrashLeaves
  <2>3. /\ c \in InUse /\ task[c].parent = j /\ task[c].req = task[j].req
        /\ task[c].from = task[j].at /\ task[c].at # task[j].at
        /\ <<task[j].pc, task[c].kind>> \in Waits
    BY <2>1 DEF CalleeOK
  <2>4. Awaited(c) /\ ~Orphan(c, s)
    BY <1>0, <2>1, <2>2, <2>3, ClientNoSlot DEF Awaited, Orphan
  <2>5. \/ task'[c] = task[c]
        \/ task'[c] = Task(task[c], "lost", Client, task[c].result, task[c].todo)
    BY <1>0, <2>3, <2>4, CrashForm
  <2>6. task'[c].pc # "free"
    BY <1>0, <2>3, <2>5, TaskFields
  <2>7. c \in InUse'
    BY <1>0, <2>3, <2>6, NextUsed
  <2> QED
    BY <2>1, <2>3, <2>7, CrashLeaves
<1>5. ASSUME NEW j \in InUse, Top(j), task[j].at # s PROVE j \in InUse' /\ task'[j] = task[j]
  <2>1. ~Orphan(j, s)
    BY <1>5 DEF Orphan, Top
  <2>2. task'[j] = task[j]
    BY <1>0, <1>5, <2>1, CrashForm
  <2> QED
    BY <1>0, <2>2, NextUsed
<1>6. ASSUME NEW j \in InUse' PROVE ClientOK(j)'
  <2>1. /\ j \in InUse /\ ClientOK(j) /\ task'[j].req = task[j].req
        /\ task'[j].parent = task[j].parent /\ (Top(j) => task[j].at # s)
    BY <1>0, <1>6, CrashLeaves
  <2>2. ASSUME Top(j) PROVE answer'[task[j].req] = NoResult
    <3>1. \A i \in InUse : task[i].req = task[j].req /\ Top(i) => task[i].at # s
      BY <1>0, <2>1, <2>2 DEF OneTop
    <3> QED
      BY <1>0, <1>1, <2>1, <2>2, <3>1 DEF ClientOK
  <2>3. ASSUME answer'[task[j].req] = NoResult
        PROVE  \E k \in InUse' : Top(k)' /\ task'[k].req = task[j].req
    <3>1. PICK k \in InUse : Top(k) /\ task[k].req = task[j].req /\ task[k].at # s
      BY <1>0, <1>1, <1>2, <2>1, <2>3 DEF ClientOK
    <3>2. k \in InUse' /\ task'[k] = task[k]
      BY <1>5, <3>1
    <3> QED
      BY <3>1, <3>2 DEF Top
  <2> QED
    BY <2>1, <2>2, <2>3 DEF ClientOK, Top
<1>7. OneTop'
  BY <1>0, CrashLeaves DEF OneTop, Top
<1>8. AliveOK'
  BY <1>0, <1>1 DEF AliveOK
<1> QED
  BY <1>0, <1>1, <1>3, <1>4, <1>6, <1>7, <1>8 DEF Tree

\* Handlers and answers that stay as they are.
LEMMA TreeSame ==
  ASSUME Tree, UNCHANGED <<task, answer, up>>
  PROVE  /\ InUse' = InUse /\ OneTop'
         /\ \A j \in InUse : HandlerOK(j)' /\ CalleeOK(j)' /\ ClientOK(j)'
<1>1. InUse' = InUse
  BY DEF InUse
<1>2. OneTop'
  BY <1>1 DEF Tree, OneTop, Top
<1>3. ASSUME NEW j \in InUse PROVE HandlerOK(j)' /\ CalleeOK(j)' /\ ClientOK(j)'
  <2>1. HandlerOK(j) /\ CalleeOK(j) /\ ClientOK(j)
    BY DEF Tree
  <2>2. HandlerOK(j)'
    BY <2>1 DEF HandlerOK, Top
  <2>3. CalleeOK(j)'
    BY <1>1, <2>1 DEF CalleeOK
  <2>4. ClientOK(j)'
    BY <1>1, <2>1 DEF ClientOK, Top
  <2> QED
    BY <2>2, <2>3, <2>4
<1> QED
  BY <1>1, <1>2, <1>3

LEMMA MarkDeadTree ==
  ASSUME Tree, TasksOK(task, state), NEW s \in Servers, NEW t \in Servers, MarkDead(s, t)
  PROVE  Tree'
<1>1. /\ UNCHANGED <<up, task, answer>> /\ alive' = [alive EXCEPT ![s][t] = FALSE]
      /\ s \in up /\ alive[s][t] /\ (t \notin up \/ ~alive[t][s])
  BY DEF MarkDead
<1>2. AliveOK'
  <2>1. /\ \A a \in Servers : alive[a][a]
        /\ \A a, b \in Servers : alive[a][b] \/ a \notin up \/ b \notin up
        /\ alive \in [Servers -> [Servers -> BOOLEAN]]
    BY DEF Tree, AliveOK
  <2>2. s # t /\ t \notin up
    BY <1>1, <2>1
  <2>3. \A a, b \in Servers : alive'[a][b] = IF a = s /\ b = t THEN FALSE ELSE alive[a][b]
    BY <1>1, <2>1
  <2> QED
    BY <1>1, <2>1, <2>2, <2>3 DEF AliveOK
<1>3. alive' \in [Servers -> [Servers -> BOOLEAN]]
  BY <1>1 DEF Tree
<1> QED
  BY <1>1, <1>2, <1>3, TreeSame DEF Tree

LEMMA TreeStep ==
  ASSUME Tree, TasksOK(task, state), Next
  PROVE  Tree'
BY ForwardTree, ExistsTree, ApplyTree, ReplicateTree, GatherTree, ServeTree, IssueTree,
   DisconnectTree, CrashTree, MarkDeadTree DEF Next, Step

LEMMA TreeInit == Init => Tree
<1> SUFFICES ASSUME Init PROVE Tree
  OBVIOUS
<1>1. InUse = {}
  BY FreeFields DEF Init, InUse
<1> QED
  BY <1>1 DEF Init, Tree, OneTop, AliveOK

LEMMA TreeStutter ==
  ASSUME Tree, UNCHANGED vars
  PROVE  Tree'
<1>1. UNCHANGED <<task, answer, alive, up>>
  BY DEF vars
<1> QED
  BY <1>1, TreeSame DEF Tree, AliveOK

\* The tree of calls is one in every reachable state: each handler waits for one handler
\* that it called at another server, and as long as a client waits, one handler serves it.
THEOREM TreeInvariance == Spec => []Tree
<1>1. IInv /\ Tree /\ [Next]_vars => Tree'
  BY TreeStep, TreeStutter DEF IInv
<1> QED
  BY <1>1, TreeInit, Invariance, PTL DEF Spec
=============================================================================
