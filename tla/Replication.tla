---------------------------- MODULE Replication ----------------------------
(***************************************************************************)
(* The distributed operations of pa2/src/distributed_stateops.rs on three  *)
(* servers: who is authoritative for a user or a channel, forwarding,      *)
(* retrying, replicating, and what the client is told.                     *)
(*                                                                         *)
(* A handler is a task: the HTTP handler of a client's request, or the     *)
(* task a server spawns for a request from a peer. A task waits for at     *)
(* most one peer call at a time, and the call is itself a task at the peer.*)
(* Peer calls behave as PeerCall promises: the answer of a call that was   *)
(* executed, or None once the caller has marked the peer dead; the peer    *)
(* may execute a call whose caller has given up.                           *)
(***************************************************************************)
EXTENDS DiscordState, FiniteSets, Sequences

CONSTANTS Users, Channels,
          Hash,           \* [Users \cup Channels -> 0 .. 2], the partition
          Preset,         \* channels that exist at startup
          Registered,     \* users registered, at both their owners, before the run
          Joined,         \* <<user, channel>> pairs joined before the run
          Requests,       \* what clients ask: [id, op, user, channel, at, after]; a
                          \* request is sent to "at" once those "after" are answered
          MayDisconnect,  \* requests whose client may go before it is answered
          MayCrash,       \* servers that may crash
          MaxCrashes,     \* bound: crashes
          MaxTasks        \* bound: tasks of a request, at all servers, at one time

Servers == {"A", "B", "C"}
Ops == {"create_user", "join_channel", "leave_channel", "send_message",
        "list_channel_users", "get_messages", "get_users", "get_channels"}
\* Mutant: a leave is not replicated.
Writes_NoLeave == {"create_user", "join_channel", "send_message"}

Gathers == {"get_users", "get_channels"}
Writes == {"create_user", "join_channel", "leave_channel", "send_message"}

\* user_owner and channel_owner: three owner pairs around the ring.
Owner(name) == CASE Hash[name] = 0 -> [primary |-> "A", backup |-> "B"]
                 [] Hash[name] = 1 -> [primary |-> "B", backup |-> "C"]
                 [] Hash[name] = 2 -> [primary |-> "C", backup |-> "A"]
Owners(name) == {Owner(name).primary, Owner(name).backup}

Subject(r) == IF r.op = "create_user" THEN r.user ELSE r.channel

ASSUME ReplicationAssumption ==
  /\ Hash \in [Users \cup Channels -> 0 .. 2]
  /\ Preset \subseteq Channels
  /\ Registered \subseteq Users
  /\ Joined \subseteq Registered \X Channels
  /\ \A r \in Requests : /\ r.op \in Ops /\ r.user \in Users /\ r.id \in Nat \ {0}
                         /\ r.channel \in Channels /\ r.at \in Servers
                         /\ \A q \in Requests : q.id = r.id => q = r
  /\ MayDisconnect \subseteq Requests
  /\ MayCrash \subseteq Servers
  /\ MaxCrashes \in Nat
  /\ MaxTasks \in Nat \ {0}

VARIABLES state,     \* AppState of each server
          poisoned,  \* servers whose AppState mutex a panic has poisoned
          alive,     \* alive[s][t]: s has not marked t dead
          up,        \* servers that have not crashed
          task,      \* the handlers
          answer     \* what each client has been told

vars == <<state, poisoned, alive, up, task, answer>>

\* A task is named by its request and a number.
Slots == {r.id : r \in Requests} \X (1 .. MaxTasks)
Client == <<0, 0>>

\* "by" is not part of an answer: it is the server that carried the request out.
NoResult == [code |-> "NONE", value |-> {}, by |-> "-"]
Panicked == [NoResult EXCEPT !.code = "PANIC"]
Lost     == [NoResult EXCEPT !.code = "LOST"]
By(s, result) == [code |-> result.code, value |-> result.value, by |-> s]

Free == [kind |-> "-", req |-> "-", at |-> "-", from |-> "-", parent |-> Client,
         child |-> Client, pc |-> "free", result |-> NoResult, todo |-> <<>>]

InUse == {i \in Slots : task[i].pc # "free"}

\* Types, and the tree of calls: a task waits for a task that it called.
IsChannel(channel) ==
  /\ channel.users \subseteq Users
  /\ channel.next \in Nat
  /\ DOMAIN channel.messages \subseteq Nat
  /\ Range(channel.messages) \subseteq {r.id : r \in Requests}

TypeOK ==
  /\ \A s \in Servers : /\ state[s].users \subseteq Users
                        /\ DOMAIN state[s].channels \subseteq Channels
                        /\ \A ch \in DOMAIN state[s].channels :
                             IsChannel(state[s].channels[ch])
  /\ poisoned \subseteq Servers
  /\ alive \in [Servers -> [Servers -> BOOLEAN]]
  /\ up \subseteq Servers
  /\ DOMAIN task = Slots
  /\ \A i \in InUse : /\ task[i].kind \in {"op", "exists", "replicate", "names"}
                      /\ task[i].req \in Requests
                      /\ task[i].at \in Servers
                      /\ task[i].todo \in Seq(Servers \ {task[i].at})
                      /\ task[i].parent \in Slots \cup {Client}
                      /\ task[i].child \in InUse \cup {Client}
                      /\ task[i].child # Client => task[task[i].child].parent = i
  /\ DOMAIN answer = Requests

InitialChannel(ch) == [NewChannel EXCEPT !.users = {u \in Users : <<u, ch>> \in Joined}]

\* init_state, and what the requests before the run have left.
Init ==
  /\ state = [s \in Servers |->
       [users |-> {u \in Registered : s \in Owners(u)},
        channels |-> [ch \in {c \in Preset : s \in Owners(c)} |-> InitialChannel(ch)]]]
  /\ poisoned = {}
  /\ alive = [s \in Servers |-> [t \in Servers |-> TRUE]]
  /\ up = Servers
  /\ task = [i \in Slots |-> Free]
  /\ answer = [r \in Requests |-> NoResult]

(***************************************************************************)
(* Tasks and peer calls                                                    *)
(***************************************************************************)
FreeSlots(r) == {i \in Slots \ InUse : i[1] = r.id}
NewSlot(r) == CHOOSE i \in FreeSlots(r) : TRUE

NewTask(kind, r, at, from, parent, result) ==
  [kind |-> kind, req |-> r, at |-> at, from |-> from, parent |-> parent,
   child |-> Client, pc |-> IF kind = "op" THEN "route" ELSE "start", result |-> result,
   todo |-> <<>>]

\* The caller of task i still waits for it.
Awaited(i) == task[i].parent # Client /\ task[task[i].parent].child = i

\* The task ends with a result. A panic in a peer's task leaves its caller
\* without an answer; so does a server that has marked the caller dead, since
\* it writes nothing to it. An HTTP handler answers its client.
Ended(T, i, result) ==
  IF ~Awaited(i) THEN [T EXCEPT ![i] = Free]
  ELSE IF result = Panicked \/ ~alive[task[i].at][task[i].from]
       THEN [T EXCEPT ![i].pc = "lost"]
       ELSE [T EXCEPT ![i].pc = "replied", ![i].result = result]

End(T, i, result) ==
  /\ task' = Ended(T, i, result)
  /\ answer' = IF task[i].parent = Client
               THEN [answer EXCEPT ![task[i].req] = result] ELSE answer

\* send_request: written to a peer that is not marked dead; lost if it crashed.
Call(i, kind, to, result, pc) ==
  IF alive[task[i].at][to]
  THEN /\ FreeSlots(task[i].req) # {}
       /\ LET new == NewTask(kind, task[i].req, to, task[i].at, i, result)
              c == NewSlot(task[i].req)
          IN task' = [task EXCEPT
                        ![i].pc = pc, ![i].child = c,
                        ![c] = IF to \in up THEN new ELSE [new EXCEPT !.pc = "lost"]]
  ELSE task' = [task EXCEPT ![i].pc = pc]

\* The callback got an answer.
Answered(i, pc) ==
  /\ task[i].pc = pc
  /\ task[i].child # Client
  /\ task[task[i].child].pc = "replied"
Answer(i) == task[task[i].child].result

\* Mutant: marking a peer dead does not complete the calls that wait on it.
Unavailable_Stays(i, pc) == task[i].pc = pc /\ task[i].child = Client

\* None: written nowhere, or the callee was marked dead while the task waited.
Unavailable(i, pc) ==
  /\ task[i].pc = pc
  /\ task[i].child # Client => ~alive[task[i].at][task[task[i].child].at]

\* Mutant: the task goes on pointing at a call that has ended.
Released_Keeps(i) ==
  [j \in Slots |-> IF j = task[i].child /\ task[j].pc \in {"replied", "lost"}
                   THEN Free ELSE task[j]]

\* The task no longer waits; a call that has ended is forgotten, one that runs goes on.
Released(i) ==
  LET c == task[i].child
  IN [j \in Slots |->
        IF j = i THEN [task[i] EXCEPT !.child = Client]
        ELSE IF j = c /\ task[c].pc \in {"replied", "lost"} THEN Free
        ELSE task[j]]

(***************************************************************************)
(* The distributed operations                                              *)
(***************************************************************************)
\* Mutant: the backup serves while the primary is alive.
Authoritative_Backup(s, owner) == s \in {owner.primary, owner.backup}

Authoritative(s, owner) ==
  \/ owner.primary = s
  \/ ~alive[s][owner.primary] /\ s = owner.backup

\* forward_request: the primary, unless it is marked dead by now.
Location(s, owner) == IF alive[s][owner.primary] THEN owner.primary ELSE owner.backup

At(i) == task[i].at
Req(i) == task[i].req
OwnerOf(i) == Owner(Subject(Req(i)))

\* A client sends a request to its server.
Issue(r) ==
  /\ answer[r] = NoResult
  /\ \A i \in InUse : task[i].req # r
  /\ \A q \in Requests : q.id \in r.after => answer[q] # NoResult
  /\ r.at \in up
  /\ task' = [task EXCEPT ![NewSlot(r)] = NewTask("op", r, r.at, r.at, Client, NoResult)]
  /\ UNCHANGED <<state, poisoned, alive, up, answer>>

\* The authoritative server carries the request out, any other forwards it.
Route(i) ==
  /\ task[i].pc = "route" /\ Req(i).op \notin Gathers
  /\ task' = [task EXCEPT ![i].pc =
       IF ~Authoritative(At(i), OwnerOf(i)) THEN "forward"
       ELSE CASE Req(i).op \in {"create_user", "list_channel_users", "get_messages"} -> "apply"
              [] Req(i).op = "join_channel" -> "exists"
              [] OTHER -> "check"]
  /\ UNCHANGED <<state, poisoned, alive, up, answer>>

\* forward_request and forward_request_to, whose assertion may fail.
Forward(i) ==
  /\ task[i].pc = "forward"
  /\ LET to == Location(At(i), OwnerOf(i))
     IN IF to = At(i)
        THEN End(task, i, Panicked)
        ELSE Call(i, "op", to, NoResult, "forwarded") /\ UNCHANGED answer
  /\ UNCHANGED <<state, poisoned, alive, up>>

ForwardAnswered(i) ==
  /\ Answered(i, "forwarded")
  /\ End(Released(i), i, Answer(i))
  /\ UNCHANGED <<state, poisoned, alive, up>>

\* None: the operation starts again.
ForwardRetries(i) ==
  /\ Unavailable(i, "forwarded")
  /\ task' = [Released(i) EXCEPT ![i].pc = "route"]
  /\ UNCHANGED <<state, poisoned, alive, up, answer>>

\* leave_channel and send_message look the channel up before they ask for the user.
CheckChannel(i) ==
  /\ task[i].pc = "check"
  /\ IF At(i) \in poisoned THEN End(task, i, Panicked)
     ELSE IF ChannelExists(state[At(i)], Req(i).channel)
          THEN task' = [task EXCEPT ![i].pc = "exists"] /\ UNCHANGED answer
          ELSE End(task, i, [NoResult EXCEPT !.code = "UNKNOWN_CHANNEL"])
  /\ UNCHANGED <<state, poisoned, alive, up>>

\* Mutant: any server answers from its own users.
ExistsHere_Local(i) ==
  /\ task[i].pc = "exists"
  /\ IF UserExists(state[At(i)], Req(i).user)
     THEN task' = [task EXCEPT ![i].pc = "apply"] /\ UNCHANGED answer
     ELSE End(task, i, [NoResult EXCEPT !.code = "UNKNOWN_USER"])
  /\ UNCHANGED <<state, poisoned, alive, up>>

\* user_exists: answered here, or forwarded like an operation.
ExistsHere(i) ==
  /\ task[i].pc = "exists"
  /\ Authoritative(At(i), Owner(Req(i).user))
  /\ IF At(i) \in poisoned THEN End(task, i, Panicked)
     ELSE IF UserExists(state[At(i)], Req(i).user)
          THEN task' = [task EXCEPT ![i].pc = "apply"] /\ UNCHANGED answer
          ELSE End(task, i, [NoResult EXCEPT !.code = "UNKNOWN_USER"])
  /\ UNCHANGED <<state, poisoned, alive, up>>

ExistsElsewhere(i) ==
  /\ task[i].pc = "exists"
  /\ ~Authoritative(At(i), Owner(Req(i).user))
  /\ task' = [task EXCEPT ![i].pc = "existsForward"]
  /\ UNCHANGED <<state, poisoned, alive, up, answer>>

ExistsForward(i) ==
  /\ task[i].pc = "existsForward"
  /\ LET to == Location(At(i), Owner(Req(i).user))
     IN IF to = At(i)
        THEN End(task, i, Panicked)
        ELSE Call(i, "exists", to, NoResult, "asked") /\ UNCHANGED answer
  /\ UNCHANGED <<state, poisoned, alive, up>>

ExistsAnswered(i) ==
  /\ Answered(i, "asked")
  /\ IF Answer(i).code = "OK"
     THEN task' = [Released(i) EXCEPT ![i].pc = "apply"] /\ UNCHANGED answer
     ELSE End(Released(i), i, Answer(i))
  /\ UNCHANGED <<state, poisoned, alive, up>>

ExistsRetries(i) ==
  /\ Unavailable(i, "asked")
  /\ task' = [Released(i) EXCEPT ![i].pc = "exists"]
  /\ UNCHANGED <<state, poisoned, alive, up, answer>>

\* The operation on this server's own state. What succeeded and changed it is
\* to be replicated.
OpEffect(st, r) ==
  CASE r.op = "create_user"   -> CreateUser(st, r.user)
    [] r.op = "join_channel"  -> JoinChannel(st, r.user, r.channel)
    [] r.op = "leave_channel" -> LeaveChannel(st, r.user, r.channel)
    [] r.op = "send_message"  -> SendMessage(st, r.user, r.channel, r.id)
    [] r.op = "list_channel_users" -> ListChannelUsers(st, r.channel)
    [] r.op = "get_messages"  -> GetMessages(st, r.channel)

Apply(i) ==
  /\ task[i].pc = "apply"
  /\ IF At(i) \in poisoned
     THEN End(task, i, Panicked) /\ UNCHANGED state
     ELSE LET e == OpEffect(state[At(i)], Req(i))
              result == By(At(i), e.result)
          IN /\ state' = [state EXCEPT ![At(i)] = e.state]
             /\ IF Req(i).op \in Writes /\ result.code = "OK"
                THEN /\ task' = [task EXCEPT ![i].pc = "replicate", ![i].result = result]
                     /\ UNCHANGED answer
                ELSE End(task, i, result)
  /\ UNCHANGED <<poisoned, alive, up>>

\* Mutant: nothing is replicated.
Replicate_Never(i) ==
  /\ task[i].pc = "replicate"
  /\ End(task, i, task[i].result)
  /\ UNCHANGED <<state, poisoned, alive, up>>

\* Mutant: the client is answered without waiting for the backup.
Replicate_NoWait(i) ==
  /\ task[i].pc = "replicate"
  /\ LET backup == OwnerOf(i).backup
         c == NewSlot(Req(i))
     IN IF backup = At(i) \/ ~alive[At(i)][backup] \/ backup \notin up
        THEN End(task, i, task[i].result)
        ELSE End([task EXCEPT ![c] = NewTask("replicate", Req(i), backup, At(i), i,
                                             task[i].result)], i, task[i].result)
  /\ UNCHANGED <<state, poisoned, alive, up>>

\* No replication by the backup itself, or to a backup that is marked dead.
Replicate(i) ==
  /\ task[i].pc = "replicate"
  /\ LET backup == OwnerOf(i).backup
     IN IF backup = At(i) \/ ~alive[At(i)][backup]
        THEN End(task, i, task[i].result)
        ELSE Call(i, "replicate", backup, task[i].result, "replicating") /\ UNCHANGED answer
  /\ UNCHANGED <<state, poisoned, alive, up>>

\* The client gets the backup's result, or the primary's if the backup is dead.
ReplicateAnswered(i) ==
  /\ Answered(i, "replicating")
  /\ End(Released(i), i, By(At(i), Answer(i)))
  /\ UNCHANGED <<state, poisoned, alive, up>>

\* Mutant: the operation starts again, as it does when forwarding fails.
ReplicateUnavailable_Retries(i) ==
  /\ Unavailable(i, "replicating")
  /\ task' = [Released(i) EXCEPT ![i].pc = "route"]
  /\ UNCHANGED <<state, poisoned, alive, up, answer>>

ReplicateUnavailable(i) ==
  /\ Unavailable(i, "replicating")
  /\ End(Released(i), i, task[i].result)
  /\ UNCHANGED <<state, poisoned, alive, up>>

(***************************************************************************)
(* get_users and get_channels: the union over the servers                  *)
(***************************************************************************)
Names(st, op) == IF op = "get_users" THEN st.users ELSE DOMAIN st.channels

With(T, i, names) == [T EXCEPT ![i].result.value = @ \cup names]

\* Mutant: a server lists its own names alone.
Gather_Own(i) ==
  /\ task[i].pc = "route" /\ Req(i).op \in Gathers
  /\ IF At(i) \in poisoned THEN End(task, i, Panicked)
     ELSE /\ task' = [task EXCEPT
               ![i].pc = "gather",
               ![i].result = [code |-> "OK", value |-> Names(state[At(i)], Req(i).op),
                              by |-> At(i)]]
          /\ UNCHANGED answer
  /\ UNCHANGED <<state, poisoned, alive, up>>

\* The server's own names first; the peers are those alive at the start.
Gather(i) ==
  /\ task[i].pc = "route" /\ Req(i).op \in Gathers
  /\ IF At(i) \in poisoned THEN End(task, i, Panicked)
     ELSE /\ task' = [task EXCEPT
               ![i].pc = "gather",
               ![i].todo = LET Peer(t) == IF t # At(i) /\ alive[At(i)][t] THEN <<t>> ELSE <<>>
                           IN Peer("A") \o Peer("B") \o Peer("C"),
               ![i].result = [code |-> "OK", value |-> Names(state[At(i)], Req(i).op),
                              by |-> At(i)]]
          /\ UNCHANGED answer
  /\ UNCHANGED <<state, poisoned, alive, up>>

GatherNext(i) ==
  /\ task[i].pc = "gather" /\ task[i].todo # <<>>
  /\ Call(i, "names", Head(task[i].todo), NoResult, "gathering")
  /\ UNCHANGED <<state, poisoned, alive, up, answer>>

Gathered(i) ==
  /\ Answered(i, "gathering")
  /\ task' = [With(Released(i), i, Answer(i).value) EXCEPT
                ![i].pc = "gather", ![i].todo = Tail(@)]
  /\ UNCHANGED <<state, poisoned, alive, up, answer>>

\* Mutant: the first peer that is down ends the loop.
GatherSkips_Breaks(i) ==
  /\ Unavailable(i, "gathering")
  /\ task' = [Released(i) EXCEPT ![i].pc = "gather", ![i].todo = <<>>]
  /\ UNCHANGED <<state, poisoned, alive, up, answer>>

\* A peer that goes down is left out.
GatherSkips(i) ==
  /\ Unavailable(i, "gathering")
  /\ task' = [Released(i) EXCEPT ![i].pc = "gather", ![i].todo = Tail(@)]
  /\ UNCHANGED <<state, poisoned, alive, up, answer>>

GatherEnds(i) ==
  /\ task[i].pc = "gather" /\ task[i].todo = <<>>
  /\ End(task, i, task[i].result)
  /\ UNCHANGED <<state, poisoned, alive, up>>

(***************************************************************************)
(* Requests a peer answers from its own state                              *)
(***************************************************************************)
ServeExists(i) ==
  /\ task[i].pc = "start" /\ task[i].kind = "exists"
  /\ IF At(i) \in poisoned THEN End(task, i, Panicked)
     ELSE End(task, i, [NoResult EXCEPT !.code =
            IF UserExists(state[At(i)], Req(i).user) THEN "OK" ELSE "UNKNOWN_USER"])
  /\ UNCHANGED <<state, poisoned, alive, up>>

ServeNames(i) ==
  /\ task[i].pc = "start" /\ task[i].kind = "names"
  /\ End(task, i, IF At(i) \in poisoned THEN Panicked
                  ELSE [NoResult EXCEPT !.code = "OK",
                                        !.value = Names(state[At(i)], Req(i).op)])
  /\ UNCHANGED <<state, poisoned, alive, up>>

ReplicaEffect(st, r, result) ==
  CASE r.op = "create_user"  -> CreateUser(st, r.user)
    [] r.op = "join_channel" -> JoinChannel(st, r.user, r.channel)
    [] r.op = "leave_channel" /\ ~ChannelExists(st, r.channel) ->
         Effect(st, "UNKNOWN_CHANNEL", {})
    [] r.op = "leave_channel" /\ ChannelExists(st, r.channel) ->
         LeaveChannel(st, r.user, r.channel)
    [] r.op = "send_message" ->
         ReplicateSendMessage(st, r.channel, r.id, CHOOSE id \in result.value : TRUE)

\* replicate_send_message unwraps the channel under the lock.
ChannelMissing(i) ==
  Req(i).op = "send_message" /\ ~ChannelExists(state[At(i)], Req(i).channel)

ServeReplicate(i) ==
  /\ task[i].pc = "start" /\ task[i].kind = "replicate"
  /\ IF At(i) \in poisoned \/ ChannelMissing(i)
     THEN End(task, i, Panicked) /\ poisoned' = poisoned \cup {At(i)} /\ UNCHANGED state
     ELSE LET e == ReplicaEffect(state[At(i)], Req(i), task[i].result)
          IN /\ state' = [state EXCEPT ![At(i)] = e.state]
             /\ End(task, i, By(At(i), e.result))
             /\ UNCHANGED poisoned
  /\ UNCHANGED <<alive, up>>

(***************************************************************************)
(* Failures                                                                *)
(***************************************************************************)
\* The client's connection closes: its handler is dropped where it waits for a peer,
\* which carries out what it was sent.
Disconnect(i) ==
  /\ task[i].pc \in {"forwarded", "asked", "replicating", "gathering"}
  /\ task[i].parent = Client /\ Req(i) \in MayDisconnect
  /\ task' = [Released(i) EXCEPT ![i] = Free]
  /\ answer' = [answer EXCEPT ![Req(i)] = Lost]
  /\ UNCHANGED <<state, poisoned, alive, up>>

\* The process dies: its tasks are gone, what it had answered is on the wire.
Crash(s) ==
  /\ s \in MayCrash \cap up
  /\ Cardinality(Servers \ up) < MaxCrashes
  /\ up' = up \ {s}
  /\ task' = [i \in Slots |->
       LET p == task[i].parent
           orphan == p # Client /\ task[p].at = s
       IN IF task[i].at = s
          THEN IF ~Awaited(i) \/ orphan THEN Free
               ELSE IF task[i].pc = "replied" THEN task[i]
               ELSE [task[i] EXCEPT !.pc = "lost", !.child = Client]
          ELSE IF orphan /\ task[i].pc \in {"replied", "lost"} THEN Free
          ELSE task[i]]
  /\ answer' = [r \in Requests |->
       IF \E i \in InUse : task[i].req = r /\ task[i].parent = Client /\ task[i].at = s
       THEN Lost ELSE answer[r]]
  /\ UNCHANGED <<state, poisoned, alive>>

\* s misses t's heartbeats: t is gone, or has marked s dead and is silent.
MarkDead(s, t) ==
  /\ s \in up
  /\ alive[s][t]
  /\ t \notin up \/ ~alive[t][s]
  /\ alive' = [alive EXCEPT ![s][t] = FALSE]
  /\ UNCHANGED <<state, poisoned, up, task, answer>>

-----------------------------------------------------------------------------
Step(i) ==
  \/ Route(i) \/ Forward(i) \/ ForwardAnswered(i) \/ ForwardRetries(i)
  \/ CheckChannel(i)
  \/ ExistsHere(i) \/ ExistsElsewhere(i) \/ ExistsForward(i)
  \/ ExistsAnswered(i) \/ ExistsRetries(i)
  \/ Apply(i)
  \/ Replicate(i) \/ ReplicateAnswered(i) \/ ReplicateUnavailable(i)
  \/ Gather(i) \/ GatherNext(i) \/ Gathered(i) \/ GatherSkips(i) \/ GatherEnds(i)
  \/ ServeExists(i) \/ ServeNames(i) \/ ServeReplicate(i)

Next ==
  \/ \E r \in Requests : Issue(r)
  \/ \E i \in InUse : Step(i) \/ Disconnect(i)
  \/ \E s \in Servers : Crash(s)
  \/ \E s, t \in Servers : MarkDead(s, t)

Spec == Init /\ [][Next]_vars

\* Tasks run on, and a dead server's silence is noticed. Clients need not send,
\* and servers need not crash.
Fairness ==
  /\ \A i \in Slots : WF_vars(Step(i))
  /\ \A s, t \in Servers : WF_vars(MarkDead(s, t))

FairSpec == Spec /\ Fairness

-----------------------------------------------------------------------------
(***************************************************************************)
(* Properties                                                              *)
(***************************************************************************)
\* The client was told that the request succeeded, by the subject's primary.
Acknowledged(r) == answer[r].code = "OK" /\ answer[r].by = Owner(Subject(r)).primary

\* r was sent by a client that had q's answer: these requests came before r.
Follows(r, q) == q.id \in r.after
Before(r) == {q \in Requests : Follows(r, q)}

\* Replicas agree: when no server has failed and no request is under way, both
\* owners of a name hold the same users, the same channels with the same members
\* and messages, and the same next id, in whatever order the replication requests
\* were served (the comment on next_message_id in replicate_send_message).
SameChannel(s, t, ch) ==
  /\ ChannelExists(state[s], ch) <=> ChannelExists(state[t], ch)
  /\ ChannelExists(state[s], ch) => state[s].channels[ch] = state[t].channels[ch]

ReplicasAgree ==
  InUse = {} /\ up = Servers =>
    /\ \A ch \in Channels : \A s, t \in Owners(ch) : SameChannel(s, t, ch)
    /\ \A u \in Users : \A s, t \in Owners(u) :
         UserExists(state[s], u) <=> UserExists(state[t], u)

\* Nothing is forgotten: no step of any server loses a user, a channel or a message, or
\* hands out an id again. leave_channel and send_message rely on it: they find the
\* channel, wait for user_exists at another server, and unwrap the channel then; and so
\* do clients that are sent to the other owner.
NothingForgotten == [][\A s \in Servers : Grows(state[s], state'[s])]_vars

\* A message the primary acknowledged is stored on every owner that is up, under
\* the id the client was told and under no other: replication is synchronous, a
\* retry never repeats what was acknowledged, and losing either owner loses nothing.
StoredAs(s, r) ==
  IF ~ChannelExists(state[s], r.channel) THEN {}
  ELSE LET messages == state[s].channels[r.channel].messages
       IN {id \in DOMAIN messages : messages[id] = r.id}

AckedMessagesKept ==
  \A r \in Requests : r.op = "send_message" /\ Acknowledged(r) =>
    \A s \in Owners(r.channel) \cap up : StoredAs(s, r) = answer[r].value

\* Whoever answers it, a get_messages sent after a message was acknowledged
\* returns that message: the backup that takes over serves what the primary had.
ReadsSeeWrites ==
  \A r \in Requests :
    r.op = "get_messages" /\ answer[r].code \in {"OK", "UNKNOWN_CHANNEL"} =>
      \A w \in Before(r) :
        w.op = "send_message" /\ w.channel = r.channel /\ Acknowledged(w) =>
          w.id \in answer[r].value

\* Whoever answers it, a request that follows the acknowledged registration of
\* its user is not refused for an unknown user: user_exists, here or at a peer,
\* finds on either owner what create_user acknowledged.
RegisteredUsersKnown ==
  \A r \in Requests : answer[r].code = "UNKNOWN_USER" =>
    \A c \in Before(r) :
      ~(c.op = "create_user" /\ c.user = r.user /\ Acknowledged(c))

\* get_users lists every acknowledged registration, and get_channels every channel
\* somebody was told to have joined, before it was asked, also when an owner of the
\* name has died or dies while the servers are asked.
NamesListed ==
  \A r \in Requests : r.op \in Gathers /\ answer[r].code = "OK" =>
    \A q \in Before(r) : Acknowledged(q) =>
      /\ r.op = "get_users" /\ q.op = "create_user" => q.user \in answer[r].value
      /\ r.op = "get_channels" /\ q.op = "join_channel" => q.channel \in answer[r].value

\* A name is registered for at most one client, also across a failover:
\* create_user rejects duplicates.
RegistrationUnique ==
  \A u \in Users :
    LET granted == {r \in Requests : /\ r.op = "create_user" /\ r.user = u
                                     /\ answer[r].code = "OK"}
    IN Cardinality(granted) <= 1

\* Membership follows the last acknowledged join or leave: a member can send, and
\* is listed; one that has left cannot, and is not. Concurrent joins and leaves of
\* one user have no last one, and say nothing.
ChangesMembership(q, u, ch) ==
  q.op \in {"join_channel", "leave_channel"} /\ q.user = u /\ q.channel = ch

LastChange(q, r) ==
  /\ ChangesMembership(q, q.user, r.channel) /\ Acknowledged(q)
  /\ \A o \in Requests \ {q} :
       ChangesMembership(o, q.user, r.channel) => Follows(q, o) \/ Follows(o, r)

MembershipSeen ==
  \A r \in {r \in Requests : answer[r] # NoResult} :
    \A q \in {q \in Before(r) : LastChange(q, r)} :
      /\ r.op = "list_channel_users" /\ answer[r].code \in {"OK", "UNKNOWN_CHANNEL"} =>
           (q.user \in answer[r].value <=> q.op = "join_channel")
      /\ r.op = "send_message" /\ r.user = q.user =>
           /\ q.op = "join_channel" =>
                answer[r].code \notin {"NOT_A_MEMBER", "UNKNOWN_CHANNEL"}
           /\ q.op = "leave_channel" => answer[r].code # "OK"

\* Every request is answered: what a dead server leaves unanswered is retried or
\* given up, and nothing waits forever.
Pending(r) == \E i \in InUse : task[i].req = r /\ task[i].parent = Client
RequestsAnswered == \A r \in Requests : Pending(r) ~> answer[r] # NoResult

\* "Every message has a unique id": two acknowledged messages of a channel have
\* different ids (the comment on Message, discord_stateops.rs:14).
MessageIdsUnique ==
  \A r, q \in Requests :
    /\ r # q /\ r.op = "send_message" /\ q.op = "send_message"
    /\ r.channel = q.channel /\ answer[r].code = "OK" /\ answer[q].code = "OK"
    => answer[r].value # answer[q].value

\* The unwrap of replicate_send_message: a channel whose message is replicated is
\* known to the backup.
ReplicaHasChannel ==
  \A i \in InUse : task[i].pc = "start" /\ task[i].kind = "replicate" => ~ChannelMissing(i)

-----------------------------------------------------------------------------
(***************************************************************************)
(* The three servers are one chat (module Chat): a request takes effect    *)
(* where its subject's primary applies it, or where a check refuses it,    *)
(* and the client is told that step's result.                              *)
(***************************************************************************)
Primary(name) == Owner(name).primary
HasUser(u) == UserExists(state[Primary(u)], u)
HasChannel(ch) == ChannelExists(state[Primary(ch)], ch)
OneChat ==
  [users |-> {u \in Users : HasUser(u)},
   channels |-> [ch \in {c \in Channels : HasChannel(c)} |->
                   state[Primary(ch)].channels[ch]]]

\* The results a request has come to: of the task that applied it, of a user_exists
\* that found no user, and of the tasks that pass either on.
Results(r) ==
  {[code |-> task[i].result.code, value |-> task[i].result.value] :
     i \in {i \in InUse : /\ task[i].req = r /\ task[i].kind \in {"op", "exists"}
                          /\ task[i].result.code # "NONE"
                          /\ task[i].kind = "exists" => task[i].result.code # "OK"
                          /\ task[i].pc \notin {"gather", "gathering"}}}

NotDecided == [code |-> "NONE", value |-> {}]
StatusOf(r) ==
  IF answer[r].code = "LOST" THEN "gone"
  ELSE IF answer[r].code # "NONE" THEN "done"
  ELSE IF \A i \in InUse : task[i].req # r THEN "idle"
  ELSE IF Results(r) = {} THEN "pending" ELSE "done"

ResultOf(r) ==
  IF StatusOf(r) # "done" THEN NotDecided
  ELSE IF answer[r].code # "NONE"
       THEN [code |-> answer[r].code, value |-> answer[r].value]
       ELSE CHOOSE x \in Results(r) : TRUE

OneServer == INSTANCE Chat WITH
  chat <- OneChat,
  status <- [r \in Requests |-> StatusOf(r)],
  result <- [r \in Requests |-> ResultOf(r)]

\* While every server that crashes is the primary of nothing that is written, each
\* run is a run of one atomic chat (linearizability): clients do not see that
\* requests are forwarded, that users are looked up at another server, that changes
\* are replicated concurrently, and that what a client asked that has gone away may
\* be done late.
ImplementsChat == OneServer!Spec
=============================================================================
