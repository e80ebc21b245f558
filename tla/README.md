# A TLA+ model of cs249's chat servers (pa1, pa2)

The repository holds two programs. `pa1` is a chat server for one machine; `pa2`
is the same chat on three servers, A, B and C, that partition users and channels
among them, forward requests to the owner, replicate each change to a backup, and
watch each other with heartbeats. Most of the hard behaviour, and most of the model,
is in `pa2`; `pa1` has one module.

## The system

| part | source | state | operations | here |
| --- | --- | --- | --- | --- |
| peer link | `pa2/src/server_middleware.rs` | per peer: `is_alive`, `sequence_num`, `seq_to_callback`, a bounded channel, heartbeat counters, the socket | `send_request`, `send_message_task`, `send_pings_task`, `peer_task` | `PeerLink`, promise in `PeerCall`; both ends in `PeerPair` |
| discord state | `pa2/src/discord_stateops.rs` | users; per channel its members, messages and next id | create, join, leave, list, send, replicate a send, read | `DiscordState` |
| distributed operations | `pa2/src/distributed_stateops.rs` | none of its own; a task per request | decide, forward, retry, apply, replicate, answer | `Replication` |
| leader selection | `server_middleware.rs`, `leader_announcement_task` | `leader`, `on_failure` | announce, choose after a failure | `Cluster` |
| startup and connections | `main.rs`, `main_task`, `init_state` | `receivers`, `is_alive` | connect, introduce, accept | `Cluster`; initial channels in `Replication` |
| HTTP handlers | `pa2/src/http_handlers.rs` | none | parse, one operation, answer | a request's task in `Replication` |
| configuration | `config.rs` | none | read a file, unique priorities | constants of `Cluster` |
| pa1 server state | `pa1/server/src/stateops.rs` | users, channels, each user's channels, one message counter | create, join, leave, leave all, list, send, read | `ChatServer` |
| pa1 handlers | `tcp_handlers.rs`, `http_handlers.rs` | the user of a connection | commands, login, end of file, answers | `ChatServer` |
| pa1 client | `pa1/client/src` | none | copies lines | not modelled |

How they interact. An HTTP handler calls one distributed operation. That operation
works on the server's `AppState` under its mutex, or calls a peer through
`send_request`, whose callback is run by the link's reader with the peer's answer, or
with `None` when the peer is declared dead. On the other side the link spawns a task
per request, which calls the distributed operation there. Heartbeats, requests,
responses and leader announcements share one channel, one counter and one socket
per direction.

What is hard, and what makes each part correct:

* Peer link. Every critical section releases the lock before the next; the sender
  registers a callback before it looks whether the peer is alive, while a timer
  marks the peer dead and drains the callbacks. Correct means that no caller is
  left without an outcome, no answer reaches another caller, and silence is noticed.
  Tasks at both ends wait for room in channels and sockets that others must empty;
  correct means that they do not wait for each other.
* Distributed operations. The state is read, the lock released, another server
  asked, and the state read again; servers disagree about who is dead; replication
  requests are served in any order; an operation is retried after a crash.
  Correct means that both copies agree when nothing is under way, that what a
  client was told survives the loss of one server, and that every client is told
  something.
* Leader selection. Notifications that nobody is waiting for are lost, and liveness
  is read before the leader is set. Correct means that the live servers agree in
  the end on the one with the highest priority.
* Startup. Servers start in any order and each waits for lower ones; a peer that never
  connects is never checked; one that connects twice finds its channel taken. Correct
  means that every pair ends with one connection and nobody is stopped by another.
* pa1. Checks and updates in separate critical sections, unwraps between them, two
  records of who is in which channel. Correct means that the records agree, that a
  client that is cut off is in no channel, and that paging misses nothing.

`PROJECT.json` lists these hazards line by line, with the properties that cover them.

## The modules

    PeerCall        what one peer call promises                  (abstract)
      ^ implemented by
    PeerLink        one server's side of the link to one peer
    PeerLinkProofs  theorems about PeerLink
    MCPeerLink      instances for TLC

    PeerPair        both ends of a connection, and who waits for whom
    PeerPairProofs  theorems about PeerPair
    MCPeerPair      an instance for TLC

    DiscordState    AppState and its operations, pure
    DiscordStateProofs theorems about them
      ^ extended by
    Chat            one atomic chat, what the servers promise   (abstract)
      ^ implemented by
    Replication     the operations on three servers, over peer calls
    ReplicationProofs what handlers rely on, that nothing is forgotten, the tree of calls
    ReplicationSafetyProofs what clients are told is true
    ReplicationAgreementProofs the owners of a name agree, and the servers are one chat
    MCReplication   scenarios for TLC

    Cluster         startup, connections, failures, restart, leader selection
    ClusterProofs   theorems about Cluster
    MCCluster       priorities for TLC

    ChatServer      pa1: one state, TCP connections, HTTP clients
    ChatServerProofs theorems about ChatServer
    MCChatServer    scenarios for TLC

### PeerLink

One server's side of one connection. `is_alive`, `sequence_num` and
`seq_to_callback` are the fields of `PeerState`; `tx` is the channel. Every task is a
program counter (`sender`, `pinger`, `timer[k]`, `reader`), and every action is one
critical section or one await of the code:

| code | actions |
| --- | --- |
| `send_request` and the future that waits | `Begin`, `EnqueueCall`, `Drop` |
| `send_message_task` | `SenderRegisters` (number and callback, one lock), `SenderChecks` (`is_alive`, another lock), `SenderWrites`, `SenderDrains` |
| `send_pings_task` | `PingLoop`, `PingStarts`, `PingEnqueue` |
| each heartbeat's timer | `TimerFires`, `TimerMarksDead`, `TimerDrains` (three sections) |
| `leader_announcement_task` | `AnnounceEnqueue` |
| `peer_task` | `ReaderTakesResponse`, `ReaderTakesPing`, `PongEnqueue`, `ReaderTakesRequest`, `AnswerEnqueue`, `ReaderEnds` |
| the peer | `PeerReads`, `PeerAnswers`, `PeerSends`, `Freeze`, `Kill` |

A message keeps its `waiter`, the call or heartbeat it belongs to. The code does not
send it; it lets a property compare the callback that a number finds with the request
the number was given to. A sleep ends at any moment, so heartbeats of a healthy peer
can time out; `PromptTimers` restricts that, for liveness only, to timers that run
before the next heartbeat starts, as two sleeps of 2 s do when tasks are not starved.
`Freeze` is SIGSTOP or a network cut (buffers fill and stay full), `Kill` closes the
sockets and loses any part of what was on the way; both are done by `tests/cluster.py`.
A killed peer does not come back.

`PeerCall` says what the layer above may rely on: a call has one outcome; an answer
means that the peer executed the request; `None` means that the peer was declared
dead; a request may be executed after its caller was refused.

### PeerPair

PeerLink has one end in full and a peer that reads whenever it runs. `PeerPair` has two
full ends: `tx`, `writer` and `wire` of each are its channel, the message its
`send_message_task` is writing, and the bytes on their way; `reader` is where
`peer_task` is, `handling` the request handlers it has spawned. A handler may make a
call back (`Back`), as an operation asks another server for a user. Sequence numbers
and timers are left out: PeerLink has them, and neither ends a wait for room.

### DiscordState and Replication

`DiscordState` has one operator per critical section on an `AppState`, returning the
state left behind and the result. A message is ordered, and equal to another, by its
id alone, as `Ord for Message` makes it in the `BTreeSet`: inserting a taken id does
nothing.

`Replication` composes three such states. A task is a running handler: the HTTP
handler of a client's request, or the task that a server spawns for a peer's request.
A task waits for at most one peer call, and the call is again a task, at the peer; the
calls of a request form a tree. Peer calls behave as `PeerCall` promises. Each action
is the code between two awaits or two locks: `Route` (the `get_server_state` test at the
head of each operation), `Forward` (which reads the state again), `CheckChannel` and
`ExistsHere`/`ExistsElsewhere` (the checks before the second lock), `Apply` (the critical
section), `Replicate`, and the steps that take an answer or a `None`. `ServeReplicate`
serves replication requests in any order, as separately spawned tasks do. A panic in
an HTTP handler answers its client with an error; in a peer's task it leaves the caller
without an answer; under the lock it poisons the state.

Servers crash and stay down (`Crash`), at any point between two steps. `MarkDead(s, t)`
is what heartbeats do: t has crashed, or has itself marked s dead and is silent
towards it. A slow server is not marked dead by mistake here.

`by` in a result, and `after` in a request, are not in the code. The first names the
server that applied the operation; the second lists the requests whose answers the
client had, so that properties can speak of before and after.

`get_users` and `get_channels` take the server's own names, then ask the peers that
were alive at the start, one after the other (`Gather`, `GatherNext`, `Gathered`,
`GatherSkips`, `GatherEnds`); each peer answers from its own state (`ServeNames`). A
client that goes away drops its handler (`Disconnect`), wherever that waits for a peer:
what the peer was sent is carried out all the same.

`Chat` is the abstract specification: one `AppState`, and each request carried out in one
step between being sent and being answered. `ImplementsChat` maps Replication to it: the
chat is what the primaries hold; a request is done once some task of it holds a result,
that is when the primary has applied it or a check has refused it; a request whose client
went away is `gone`, and may still be carried out.

### Cluster

How servers find one another and choose a leader, with heartbeats reduced to what they
decide (what they do is PeerLink's). `main_task` is `Connect`, `Refused` (an attempt, and
after the last one `set_server_state`) and `Listen`; a socket becomes a connection in
`OpenSocket`, once per end, which takes the receiver of the peer and starts the timer and
the leader task, or finds no receiver and poisons the server. `MarkDead` and `Notify` are
the two sections of a heartbeat's end: `notify_waiters` wakes exactly the leader tasks
that wait. `leader_announcement_task` is `TaskStarts`, `TaskLooks` (read who is alive),
`TaskSets` and `TaskAnnounces`; `ReadAnnouncement` is the reader's `set_leader`. A server
may be killed or frozen (`Fail`), and started again after it was killed (`Restart`).
`silent` says of each end of a connection whether the other end has died; `orderly`,
`starts` and `failures` are not in the code and serve properties and bounds.

### ChatServer

pa1's `AppState` and the tasks that use it. The state has one mutex, but every operation
takes it several times: `CheckUser`, `CheckChannel` and `CheckNew` are sections of their
own, `Insert`, `Join`, `Leave`, `Send`, `List` and `History` the sections that act. A TCP
connection reads a command (`Begin`, `Login`, `Logout`, `Quit`), serves it and writes the
answer (`Answer`); when its client has gone (`Vanish`) it reads the end of file, or fails
in a write. After an end of file it goes through `leave_all_channels`: `KnowsUser`,
`CopyChannels`, then `leave_channel` for each (`LeaveNext` and the same `CheckChannel`,
`CheckUser`, `Leave`), whose result it unwraps. `registrations`, `meddled` and `pages`
record what the properties speak of.

## What the runs check

`tlc -config <cfg> <MC module>`; the runs and their properties are in `PROJECT.json`.

PeerLink:

* `link`: the type invariant, four safety invariants and the refinement.
  `WaitingCallIsReachable`: a waiting caller's message is queued or its callback is
  registered. `NoStrandedCallback`: once the peer is dead no callback is left
  registered, except under a task about to drain. `AnswersMatch`: a number on the way
  finds the callback of its own request or none. `MissesBelowLimit`: the count cannot
  jump over the limit, which is tested by equality. `ImplementsPeerCall`: the link
  implements PeerCall. The two callers are symmetric in both modules.
* `live`: every call completes (`CallsComplete`) and a silent peer is declared dead
  (`SilentPeerDetected`), in an instance where the socket's buffers never fill. The peer
  may have answered heartbeats, left some unanswered and still have PONGs on their way when
  it stops: a PONG whose heartbeat has timed out must not reset the count.
* `fullqueue`: a silent peer is *not* always declared dead when the buffers do fill.
  See below.

PeerPair:

* `pair`: calls from both ends, one with a handler that calls back, and heartbeats, over
  channels and sockets of one message. `OnlyGridlockBlocks`: every call is answered
  unless both readers wait to queue a PONG while all channels and sockets are full; there
  is no other circle, and handlers that call back do not close one. `GridlockStays`: that
  circle is never left.

Replication (each scenario is a set of requests in `MCReplication`):

* `ordinary`: no server fails; a name registered twice, a channel created, used, left and
  listed, concurrent sends, a read, a client that may go away. `ReplicasAgree` (equal
  copies whenever nothing is under way), `AckedMessagesKept` (stored on both owners under
  the id the client was told and no other), `ReadsSeeWrites`, `NamesListed` (get_users and
  get_channels miss no acknowledged name), `RegistrationUnique`, `RegisteredUsersKnown`,
  `MembershipSeen`. `NothingForgotten`: no step loses a user, a channel or a message, or
  hands an id out again, so the channel that leave_channel and send_message found before
  they asked for the user can be unwrapped after it.
* `crash`: any one server crashes at any moment; the same properties but
  `ReplicasAgree`, for what the primary acknowledged.
* `backup`: a channel's backup crashes at any moment and a client may go away; every
  request is answered (`RequestsAnswered`), and the servers implement the atomic chat
  (`ImplementsChat`).

Cluster:

* `cluster`: three servers start in any order and may give one another up, one may fail at
  any moment, and a killed one may come back. `ClusterForms`: when nobody is given up or
  fails, every pair ends connected at both ends, so nobody waits in a circle.
  `SurvivorsAgree`: after a failure in a formed cluster the survivors agree for good on
  the live server with the highest priority. `LeaderFollows`: whenever a survivor's leader
  tasks all wait again, its leader is the highest of those it considers alive.
  `OnlyReturnPoisons`: a server is stopped by an empty receiver only when a higher one
  comes back; startup never opens a connection twice, whatever the order.

ChatServer:

* `chat`: two connections and an HTTP client; both register one name, log in as one user,
  join, leave, send, read in pages; clients vanish. `MembershipAgrees`: the members of
  channels and the channels of users agree (one direction always, the other unless a name
  was registered twice, which the check in a section of its own allows).
  `CutUserLeaves`: once the task of a cut connection has read the end of file and ended,
  its user is in no channel, and its unwrap never fails, unless another client moved that
  user in between. `PagingMissesNothing`: pages that follow one another while others send
  give every message that was there at the start.

Four further runs show where the code does not do what it, its comments or its README
say; each is a finding in `PROJECT.json`:

* `fullqueue`: a frozen peer's socket fills, `send_message_task` waits in `write_all`, the
  channel fills, and the heartbeat task waits to queue its PING: no further heartbeat
  starts, and the misses stop short of the limit. Calls queued behind the write wait
  for the same reason even when the peer is declared dead in time.
* `ids`: the backup's next id is a count. With message 1 replicated before message 0,
  and a crash of the primary, the backup gives id 1 to a new message, which is
  acknowledged and dropped.
* `hang`: an operation reads the primary's liveness to decide to forward, and again to
  decide where. If the primary is marked dead in between, the backup forwards to
  itself, and the assertion `id != to` panics. If the backup was serving a forwarded
  request, nobody answers it, and one crash leaves a client waiting for ever.
* `newchannel`: a replicated message overtakes the join that creates its channel; the
  backup unwraps a channel it does not have, with its state locked.

The passing properties say no more than these leave true. `AckedMessagesKept` and
`ReadsSeeWrites` speak of what the *primary* acknowledged (a message acknowledged by a
backup after a failover can be the dropped one of `ids`); `MembershipSeen` speaks of
joins and leaves that one client ordered, and the scenarios order them (concurrent ones
of one user can be replicated in the opposite order, and the copies then differ);
`RequestsAnswered` and `ImplementsChat` are checked with a crashing server that is the
primary of nothing that is written; when a primary crashes, an operation that was
applied but not acknowledged may be retried and refused, and the chat of the client is
no longer atomic. `SurvivorsAgree` and `LeaderFollows` speak of one failure in a formed
cluster. With two in succession (`MaxFailures = 2`) TLC refutes `LeaderFollows`: the
survivor's leader tasks are choosing or announcing when the second failure is notified, or
set what they chose before it, and it keeps a leader that it has itself marked dead. A
server given up at startup may be the initial leader and stay it. `OnlyGridlockBlocks`
leaves the one circle in which the readers of both ends wait for room: a comment says that
requests are answered in tasks of their own "to avoid deadlock"; PONGs are not.
`CutUserLeaves` speaks of tasks that read an end of file: a connection whose answer
cannot be written ends in a panic, and its user stays.

### Bounds

PeerLink: channel and socket of one message (100, and the kernel's buffers, in the
code), so that every enqueue and write is seen waiting; two callers are enough for one
callback to be confused with another, or drained while another registers. `link`
makes a peer dead after two misses instead of three, with two heartbeats, and adds one
further message (`MaxOthers`): an announcement, or a PING or other request of the peer. Its
count of misses reaches the limit and cannot pass it; that it never does, for any number
of heartbeats and any limit, is theorem `LimitNotSkipped`.

`live` has the limit of the code, three, and five heartbeats. `HeartbeatsLeft` lets the
peer fail while three have yet to start, that is up to the third start: before the first
heartbeat, with one pending, after PINGs it answered or missed, with a count of up to two,
with PONGs in the socket that are read before or after their heartbeats time out. When
the failure comes as late as that, no heartbeat is left over: `SilentPeerDetected` then
says that three are enough, and a PONG that resets the count after its heartbeat has timed
out refutes it (a limit of two could not show it: the heartbeat that timed out and the
next one are two misses already). The one caller of `live` waits for as long as it takes
(`Impatient` is empty; callers that go away are in `link`), the peer sends nothing of
its own, and the socket holds all six messages there can be.

PeerPair: channels and sockets of one message, three calls and up to three heartbeats
from each end: enough to fill everything between two ends and have more to send. A larger
capacity needs more traffic to fill it and nothing else.

Replication: one channel with messages and one that is created; users whose owners
differ from the channel's, so that `user_exists` crosses servers; up to eleven requests,
of which up to three run at once; one crash. `MaxTasks` bounds the tasks of one request
at one time. Three are enough without failures (the handler, the operation at the
owner, and its question or replication), four with one crash (a task may go on for a
caller that is gone), and no call waits for a free one.

Cluster: the three servers of `servers.json`; priorities that do not follow the ids in
`cluster` (those of `test_config_priority.py`), so that the leader is neither the first nor
the last to start. `Attempts` is 2 (4 in the code): one that may be repeated and the last.
One failure of one of two servers, one restart; the end of a run is the first poisoned
server, since everything that happens on it afterwards is a panic. Restart is only into a
cluster that had formed.

ChatServer: a user that two connections and an HTTP client act for, and a name that two of
them register; two channels, so that `leave_all_channels` goes round its loop; three
commands of the first connection and two of each other agent. These are enough for a
second registration to overlap a first, a leave to come between the copy of the
channels and its use, and two pages to be read around a send.

### Fairness

Weak fairness per task: tokio polls a task that is ready, sleeps end, the channel wakes
waiting senders in order, and a running peer reads and answers. In Replication,
each task goes on and a crashed server is noticed by each live one. Nothing makes a
client send, a caller give up, or a server fail. Strong fairness is not needed: an
enabled enqueue stays enabled once the channel has room for the only waiting task, and
with several waiting in `live` and `pair` the bounded traffic runs dry. In PeerPair a
handler makes its call back, and other callers and heartbeats need not run.
Cluster has weak fairness of
all its work together: the work of a run is finite (attempts, announcements and failures
are bounded), so if work goes on while there is any, every task gets to finish. Failures
and restarts are not part of it.

### Assumptions

Replication: a server that is up and answers is not marked dead by mistake. Cluster: the
same, and an announcement that has arrived is read before its sender has missed three
heartbeats (6 s). ChatServer: names are valid and lines well formed.

## What is proved

`PeerLinkProofs` holds for every set of calls, every capacity, every limit and every
number of heartbeats, under `PeerLinkAssumption` (capacities and the limit are positive,
callers are not numbers, and no caller is the missing one):

* `TypeCorrect`, `CallersReachable`, `NothingStranded`, `ResponsesMatch`,
  `LimitNotSkipped`: the five invariants of `link`;
* `Implements`: PeerLink implements PeerCall.

All rest on `Invariance`, the inductive invariant `IInv`. The five invariants are not
inductive alone. `MissesBelowLimit` needs that timers of heartbeats not yet started are
off (`HeartbeatsNumbered`). `NoStrandedCallback` needs that callbacks are drained only
when the peer is dead (`DrainedOnlyWhenDead`), and so does the refinement, where a
drain must be a `Refuse`. `AnswersMatch` needs that numbers on the way were handed out
(`InFlightNumbered`), so a new number meets nobody, and that responses, which carry the
current number, carry no callback (`ResponsesHaveNoCallback`). The refinement needs
`NothingSentForIdle` (a request executed at the peer was made) and
`AnsweredWasExecuted`. The proof takes each conjunct in a lemma of its own, by the
action that can disturb it; lemmas on ranges of sequences carry the queue and the
wires.

`PeerPairProofs` holds for every set of calls, all capacities and any number of heartbeats,
under `PeerPairAssumption`:

* `Permanent`: `GridlockStays`. In a gridlock no enqueue, write or read is enabled at
  either end (`NobodyMoves`); callers may still begin calls, which then wait as well. It
  needs no invariant: a gridlock disables what could end it.
* `TypeCorrect`: `TypeOK`. That what is handled is a call that is waited for is not
  inductive: `EachOnce` says that a request is in one place at a time, on its way (queued,
  being written, or on the wire), handled, or as a response on its way back.

`ChatServerProofs` holds for every set of users, channels, connections, HTTP clients and
commands and for every bound on them, under `ChatServerAssumption` (connections and HTTP
clients are different agents, commands are well formed, `NoUser` is not a name):

* `TypeCorrect`: `TypeOK`, which says, beyond types, that members are registered users
  and that a user's channels exist;
* `RecordsAgree`: `MembershipAgrees`;
* `CutConnectionsClean`: `CutUserLeaves`;
* `PagesComplete`: `PagingMissesNothing`, for any pages and any number of senders.

They rest on an `Invariance` of their own, whose `IInv` adds to `TypeOK` and
`MembershipAgrees` what an operation saw in one critical section and relies on in the
next. `CommandsServed`: what acts for a user has seen that the user is registered, and
users are never removed; without it a join could enter a name that is not in the state.
`RegistrationsCounted`: a registered name was registered once, so a registration of the
same name is a second one, the only event that empties a user's channels.
`CutConnectionsLeave`: while a cut connection leaves its channels, those its user is still
in are the one it works on and those left to do, and the user is in each of them, so the
`unwrap` in `leave_all_channels` never panics. It is kept by the steps of other agents
because they either move another user or mark the connection as meddled with
(`CutOther`), and by its own steps because `MembershipAgrees` makes the copy of
`user_channels` complete (`CutOwn`).

`PagesComplete` rests on `PagesOK`: pages that follow one another have given every message
there was at the first of them, down to where the last one ended (`Reaches`). A page added
to them continues it, because the history only grew in between (`PageOK`): what shifted
was shifted towards pages still to come, so a message may be given twice and none is
passed over.

`ClusterProofs` holds for every number of servers, every configuration, and every bound on
attempts, failures and restarts, under `ClusterAssumption` (servers are numbered, each is
in the configuration once, priorities are unique: `validate_config`):

* `TypeCorrect`: `TypeOK`. It needs that some live server has the highest priority
  (`HighestExists`), which is where the priorities' order and the finite set of servers
  come in;
* `OnlyReturnStops`: `OnlyReturnPoisons`. `IInv` adds to it what makes startup open a
  connection once: a server has only lower ones left to connect to (`OnlyLower`); for each
  of them it has yet to connect, or has one socket, or has used it (`ConnectsOnce`); the
  other end takes what a server started once has connected to once (`ReachedOnce`); and a
  server never started has no connection (`StartsCounted`).
* `OneFailureFollowed`: `LeaderFollows`, when `MaxFailures` is 0 or 1; with two TLC refutes
  it, as said above. Its invariant `LeaderInv` speaks of a cluster that had formed. Leader
  tasks run only on a server that was told of the failure, and choose from those that are
  still alive (`Chosen`). Such a server follows the highest, or has a task that is yet to
  set its leader (`Following`). Nothing that the failed server announced is left when its
  failure is noticed (`NoticedFailed`). So what an announcement can still bring is the
  highest of all, who is alive, or the highest of the survivors (`Announcers`).

`DiscordStateProofs` is about the operators on one `AppState`, for any state whose next
ids are numbers:

* `ReplicationCommutes`: two replicated messages can be served in either order;
* `ReplicationCopies`: on equal copies the primary's `send_message` and the backup's
  `replicate_send_message` do the same;
* lemmas that each operation forgets nothing.

`ReplicationProofs` holds for every set of users, channels and requests, every partition,
and any crashes, disconnections and bounds, under `ReplicationAssumption` (requests are
well formed, and have different numbers):

* `KeepsEverything`: `NothingForgotten`, by the lemmas of `DiscordStateProofs`. These need
  that the channel exists where the code unwraps it, so `IInv` carries, for each handler
  past `CheckChannel`, that its server has the channel it found: true although other
  handlers run while this one waits, because no state shrinks. It also carries which
  operations can be where (only what changes a state is replicated), and that a handler
  keeps its request.
* `TreeInvariance`: the tree of calls (`Tree`). A handler that waits, waits for one handler
  at another server that has it as its caller (`CalleeOK`); where a handler stands fits
  what it does and has found (`StandsOK`); a client that was not answered has one HTTP
  handler, which no other handler of its request outlives (`ClientOK`, `OneTop`); a server
  is marked dead only if it or the one that marks it has crashed (`AliveOK`). Every
  action is first brought into one of three forms, a handler goes on, ends, or calls
  (`Turns`, `Ends`, `Calls`), and the invariants are shown for the forms.

`ReplicationSafetyProofs` holds in the same generality.

* `TypeCorrect`: `TypeOK`.
* `SafeInvariance`: wherever a result is, in a handler that holds it, on its way, or at the
  client, what it stands for is stored (`ResultOK`, `Durable`): on the primary and, unless
  the backup has crashed, on the backup. This rests on who may act for a name (`Placed`:
  the primary, or the backup once the primary has crashed), on what a handler has written
  before it replicates (`Promised`), on the requests that came before having been answered
  (`Informed`), and on the primary's next id being new and the backup of a live primary
  having no message of its own (`StoredOK`). It gives `UsersKnown`
  (`RegisteredUsersKnown`) and `WritesSeen` (`ReadsSeeWrites`).
* `RegisteredOnce`: `RegistrationUnique`, by `OneGrant`: at most one request of a name has
  a grant, told or not. A second grant would find the user on the primary, or on the
  backup, which has it whenever the primary has crashed after granting it.
* `MessagesKept`: `AckedMessagesKept`. `Safe` says that a message is stored; that it is
  stored under no other id needs that it is carried out once, which is `Once`: while the
  primary can still be reached, one handler of the request is at the primary before it
  has written, or looks for the primary and has called nobody (`Fresh`, `Searching`), and
  only when the primary is gone and its answer cannot arrive any more may the backup
  carry the request out (`Diverted`).
* `NamesComplete`: `NamesListed` as long as no two servers are down (then no server has a
  name they both own). `Listing`: each owner of a name that was known before is yet to be
  asked, was asked and had it, or is marked dead.

`ReplicationAgreementProofs`:

* `OwnersAgree`: `ReplicasAgree`, of states in which no server has crashed, under two
  hypotheses without which it is false. No replica has panicked (`poisoned = {}`): the panic that the run `newchannel` finds loses
  the message on the backup. And `MembershipOrdered`: of a join and a leave of one user and
  channel one follows the other, whose client waited for its answer; otherwise the backup
  may serve them in the other order. (The scenario of the run `ordinary` satisfies both.)
  The invariant (`Agreeing`) says what the backup lacks at any moment: nothing but what a
  handler at the primary is about to replicate, or a replication request is bringing
  (`Coming`), with the content it has on the primary (`UserCopied`, `ChannelCopied`), and
  the backup has counted the messages it holds. That a request is over when its client
  is answered, so that two changes that follow each other are never on their way
  together, is `Attended`.
* `MembersKnown`: `MembershipSeen`, for any crashes, while `NothingLost`: no join or leave
  that another join or leave of the same user and channel followed has lost its client.
  The hypothesis is needed: a request whose client is cut off may still be carried out,
  also after the one that followed it was acknowledged, and then it is the last. (TLC
  shows this with three requests.) The argument speaks of one member at a time. While the
  primary of a request is up and its client there, every handler of it is waited for by its
  caller (`Answering`), so that an answered request has no handlers left
  (`AnsweredFinished`) and changes of one member that follow each other are made one after
  the other. So an owner that has made the last acknowledged change shows it until a
  change that follows is under way (`Passes`, `Shows`). `Members` says so of the primary
  once the change was made there (`MadeOK`), of both owners once the client was told
  (`CopiedOK`), and of what a handler is about to tell a client about the member (`Tells`,
  `Seen`).
* `ChatImplemented`: `ImplementsChat`, of runs in which no server crashes and no replica
  panics (`[]Calm`), for any requests under way at the same time, any
  order of forwarding and replication, and clients that go away. Two more hypotheses, without
  which TLC refutes it with three requests: `MembershipOrdered` as above (a leave that is
  replicated before the join that it undid is refused by the backup, and that is what the
  client is told), and `NoLists` (lists of users and channels are put together from one
  server after another, and two such lists may contradict each other about what came
  first). The invariant is `Verdicts`: what a handler shows of its request (`Shown`) is
  nothing, or what the primary has done, and this is what is passed on from handler to
  handler; and what was found of a user before a channel is written still holds. And `Due`:
  a change on its way to the backup was not made there yet, and is on its way once, so that
  the backup succeeds with what the primary succeeded with (`ReplicaSucceeds`): the primary
  returns the backup's answer. With it each step of a handler (`StepWell`) leaves the chat
  and what is shown alone, or carries the request out in both (`Outcome`). A request is
  `done` with the result that the one of its handlers shows that waits for nothing
  (`OneWorks`, `Views`); `ChatStep` then maps every step to `Ask`, `Serve`, `GoAway`,
  `ServeLate` or none.

Only model-checked: liveness, which needs fairness and ENABLED (`RequestsAnswered`,
`CallsComplete`, `SilentPeerDetected`, `ClusterForms`, `SurvivorsAgree`); that Replication
implements Chat also while a server crashes that is the primary of nothing that is written
(the run `backup`; `ChatImplemented` is about servers that stay up); `OnlyGridlockBlocks` of
PeerPair.

## Not modelled

Formats, names and texts, HTTP parsing, pagination in pa2, logging. A line split over
reads, and input that is not JSON. In pa2: `/health`, `/servers` and the `/debug` reads of
one server's own state; a frozen server that thaws after it was marked dead (two servers
then are authoritative for one name, and the code has nothing that reconciles them); a
client that goes away while its handler waits for room in the queue to a peer; what a
restarted server does to Replication (it starts with an empty state); the peer whose
queue is never drained because it never connected; a connection closed before its
introduction. In pa1: malformed commands, among them SEND and HISTORY without an
argument, which panic; the client program, which keeps no state.

## Plan

1. Done: `PeerCall`, `PeerLink` with its theorems, `DiscordState`, `Replication`.
2. Done: `Cluster` (startup, restart, leader selection), `Chat` and the refinement,
   `get_users`, `get_channels` and clients that go away, `ChatServer` with its theorems,
   `PeerPair`. Left: the stream of bytes that `peer_task` cuts into lines; a frozen server
   that thaws; pages of pa2's `get_messages`.
3. Prove more. Done: every invariant that a run checks but those named above, and the
   refinements of `PeerCall` and, without crashes, of `Chat`. Left: the refinement of `Chat`
   when a backup crashes.
