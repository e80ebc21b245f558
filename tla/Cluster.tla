------------------------------ MODULE Cluster -------------------------------
(***************************************************************************)
(* How the servers of pa2 find one another and agree on a leader:          *)
(* main_task, the first half of peer_task and leader_announcement_task of  *)
(* server_middleware.rs.                                                   *)
(*                                                                         *)
(* A server connects to the servers with lower ids, or gives them up, and  *)
(* listens only then. Each end of a connection takes the receiver kept for *)
(* its peer and starts a leader task and heartbeats. What heartbeats do is *)
(* in PeerLink; here they mark a silent peer dead and wake the leader      *)
(* tasks that wait.                                                        *)
(*                                                                         *)
(* Assumed: a peer that answers is not marked dead, and an announcement    *)
(* that arrived is read before its sender has missed three heartbeats.     *)
(***************************************************************************)
EXTENDS Integers, Sequences, FiniteSets

CONSTANTS Servers,       \* ids, compared as the strings of the code are
          Config,        \* the servers in the order of the configuration file
          Priority,      \* [Servers -> Nat]
          Attempts,      \* bound: attempts to connect to a server, 4 in the code
          MayFail,       \* bound: which servers may be killed or frozen,
          MaxFailures,   \* bound: how many are,
          MaxRestarts    \* bound: and how many killed ones start again

Pairs == {p \in Servers \X Servers : p[1] # p[2]}

ASSUME ClusterAssumption ==
  /\ Servers \subseteq Nat /\ IsFiniteSet(Servers) /\ Servers # {}
  /\ Config \in Seq(Servers) /\ Servers = {Config[i] : i \in DOMAIN Config}
  /\ Priority \in [Servers -> Nat]
  /\ \A i, j \in DOMAIN Config :                       \* validate_config
       Priority[Config[i]] = Priority[Config[j]] => i = j
  /\ MayFail \subseteq Servers
  /\ Attempts \in Nat \ {0} /\ MaxFailures \in Nat /\ MaxRestarts \in Nat

VARIABLES mode,        \* of each process; "up": it listens, and serves HTTP
          todo, tries, \* main_task: servers to connect to, failed attempts at the next
          openings,    \* sockets whose peer_task has not taken its receiver yet
          alive,       \* per server, those it considers alive
          leader,      \* per server, the leader it knows
          timer,       \* per end of a connection, its heartbeats
          task,        \* and its leader_announcement_task,
          choice,      \*   with the first of the servers it found alive
          announced,   \* per pair, announcements sent and not read yet
          silent,      \* per pair, whether the connection's other end has died
          starts, failures,
          orderly      \* no server was given up, failed early, or came back

startup == <<todo, tries, openings>>
election == <<leader, task, choice, announced>>
ghosts == <<starts, failures, orderly>>
vars == <<mode, startup, alive, election, timer, silent, ghosts>>

Running(s) == mode[s] \in {"connecting", "up"}
Highest(S) == CHOOSE s \in S : \A t \in S : Priority[t] <= Priority[s]
\* Mutant: the comparison is turned round.
Lower_Greater(s) == {t \in Servers : t > s}

\* The servers connected to: those with lower ids, "to prevent multiple connections".
Lower(s) == {t \in Servers : t < s}

\* An end of a connection is open once its peer_task has taken the receiver.
Open(p) == timer[p] # "off"

TypeOK ==
  /\ mode \in [Servers -> {"down", "connecting", "up", "killed", "frozen", "poisoned"}]
  /\ todo \in [Servers -> SUBSET Servers]
  /\ tries \in [Servers -> 0 .. Attempts - 1]
  /\ openings \subseteq [at : Servers, peer : Servers, out : BOOLEAN]
  /\ alive \in [Servers -> SUBSET Servers]
  /\ \A s \in Servers : s \in alive[s]
  /\ leader \in [Servers -> Servers]
  /\ timer \in [Pairs -> {"off", "on", "marked", "done"}]
  /\ task \in [Pairs -> {"none", "start", "waiting", "woken", "set", "announce"}]
  /\ choice \in [Pairs -> Servers]
  /\ announced \in [Pairs -> Nat]
  /\ silent \in [Pairs -> BOOLEAN]
  /\ starts \in [Servers -> Nat] /\ failures \in Nat /\ orderly \in BOOLEAN
  /\ \A p \in Pairs : Open(p) <=> task[p] # "none"

Init ==
  /\ mode = [s \in Servers |-> "down"]
  /\ todo = [s \in Servers |-> {}]
  /\ tries = [s \in Servers |-> 0]
  /\ openings = {}
  /\ alive = [s \in Servers |-> Servers]
  /\ leader = [s \in Servers |-> Highest(Servers)]
  /\ timer = [p \in Pairs |-> "off"]
  /\ task = [p \in Pairs |-> "none"]
  /\ choice = [p \in Pairs |-> p[1]]
  /\ announced = [p \in Pairs |-> 0]
  /\ silent = [p \in Pairs |-> FALSE]
  /\ starts = [s \in Servers |-> 0]
  /\ failures = 0
  /\ orderly = TRUE

(***************************************************************************)
(* Startup                                                                 *)
(***************************************************************************)
\* A value of its own in every pair that starts with s.
Of(s, f, v) == [p \in Pairs |-> IF p[1] = s THEN v ELSE f[p]]

\* The process starts with SystemState::new, also when it was killed before.
Start(s) ==
  /\ mode' = [mode EXCEPT ![s] = "connecting"]
  /\ todo' = [todo EXCEPT ![s] = Lower(s)]
  /\ tries' = [tries EXCEPT ![s] = 0]
  /\ openings' = {o \in openings : o.at # s}
  /\ alive' = [alive EXCEPT ![s] = Servers]
  /\ leader' = [leader EXCEPT ![s] = Highest(Servers)]
  /\ timer' = Of(s, timer, "off")
  /\ task' = Of(s, task, "none")
  /\ choice' = Of(s, choice, s)
  /\ starts' = [starts EXCEPT ![s] = @ + 1]
  /\ UNCHANGED <<announced, silent, failures>>

FirstStart(s) == mode[s] = "down" /\ Start(s) /\ UNCHANGED orderly

\* Bound: only into a cluster that had formed.
Restart(s) ==
  /\ mode[s] = "killed" /\ orderly
  /\ Cardinality({t \in Servers : starts[t] > 1}) < MaxRestarts
  /\ Start(s)
  /\ orderly' = FALSE

Socket(s, t, out) == [at |-> s, peer |-> t, out |-> out]

\* The loop of main_task takes the servers in the order of the configuration.
Earlier(t, u) == \E i, j \in DOMAIN Config : i <= j /\ Config[i] = t /\ Config[j] = u
Due(s, t) == t \in todo[s] /\ \A u \in todo[s] : Earlier(t, u)

\* Mutant: the loop ends with the first connection.
Connect_Once(s, t) ==
  /\ mode[s] = "connecting" /\ Due(s, t)
  /\ mode[t] \in {"up", "frozen", "poisoned"}
  /\ openings' = openings \cup {Socket(s, t, TRUE)}
  /\ silent' = [silent EXCEPT ![<<s, t>>] = mode[t] # "up"]
  /\ todo' = [todo EXCEPT ![s] = {}]
  /\ tries' = [tries EXCEPT ![s] = 0]
  /\ UNCHANGED <<mode, alive, election, timer, ghosts>>

\* The target listens. (The kernel also accepts for a process that hangs.)
Connect(s, t) ==
  /\ mode[s] = "connecting" /\ Due(s, t)
  /\ mode[t] \in {"up", "frozen", "poisoned"}
  /\ openings' = openings \cup {Socket(s, t, TRUE)}
  /\ silent' = [silent EXCEPT ![<<s, t>>] = mode[t] # "up"]
  /\ todo' = [todo EXCEPT ![s] = @ \ {t}]
  /\ tries' = [tries EXCEPT ![s] = 0]
  /\ UNCHANGED <<mode, alive, election, timer, ghosts>>

\* Mutant: one attempt too many.
Refused_OneMore(s, t) ==
  /\ mode[s] = "connecting" /\ Due(s, t)
  /\ mode[t] \in {"down", "connecting", "killed"}
  /\ tries' = [tries EXCEPT ![s] = IF @ < Attempts THEN @ + 1 ELSE 0]
  /\ IF tries[s] < Attempts
     THEN UNCHANGED <<todo, alive, orderly>>
     ELSE /\ alive' = [alive EXCEPT ![s] = @ \ {t}]
          /\ todo' = [todo EXCEPT ![s] = @ \ {t}]
          /\ orderly' = FALSE
  /\ UNCHANGED <<mode, openings, election, timer, silent, starts, failures>>

\* An attempt fails; after the last one the target is declared dead, and nobody is told.
Refused(s, t) ==
  /\ mode[s] = "connecting" /\ Due(s, t)
  /\ mode[t] \in {"down", "connecting", "killed"}
  /\ IF tries[s] + 1 < Attempts
     THEN /\ tries' = [tries EXCEPT ![s] = @ + 1]
          /\ UNCHANGED <<todo, alive, orderly>>
     ELSE /\ alive' = [alive EXCEPT ![s] = @ \ {t}]
          /\ todo' = [todo EXCEPT ![s] = @ \ {t}]
          /\ tries' = [tries EXCEPT ![s] = 0]
          /\ orderly' = FALSE
  /\ UNCHANGED <<mode, openings, election, timer, silent, starts, failures>>

Listen(s) ==
  /\ mode[s] = "connecting" /\ todo[s] = {}
  /\ mode' = [mode EXCEPT ![s] = "up"]
  /\ UNCHANGED <<startup, alive, election, timer, silent, ghosts>>

\* peer_task: the connecting side has sent its id, which the other side waits for;
\* each takes the receiver kept for its peer, and starts the tasks of the connection.
\* A receiver that was taken before is not there: the task panics with SystemState
\* locked, and no task of this server can use it any more.
OpenSocket(s, t, out) ==
  /\ Running(s)
  /\ Socket(s, t, out) \in openings
  /\ openings' = (openings \ {Socket(s, t, out)})
                   \cup (IF out /\ mode[t] # "killed" THEN {Socket(t, s, FALSE)} ELSE {})
  /\ IF Open(<<s, t>>)
     THEN /\ mode' = [mode EXCEPT ![s] = "poisoned"]
          /\ silent' = [p \in Pairs |-> silent[p] \/ p[2] = s]
          /\ UNCHANGED <<timer, task>>
     ELSE /\ timer' = [timer EXCEPT ![<<s, t>>] = "on"]
          /\ task' = [task EXCEPT ![<<s, t>>] = "start"]
          /\ silent' = IF out /\ ~Open(<<t, s>>) THEN [silent EXCEPT ![<<t, s>>] = FALSE]
                       ELSE silent
          /\ UNCHANGED mode
  /\ UNCHANGED <<todo, tries, alive, leader, choice, announced, ghosts>>

(***************************************************************************)
(* Failures                                                                *)
(***************************************************************************)
\* A process is killed, or frozen and never continued.
Fail(s) ==
  /\ Running(s)
  /\ s \in MayFail /\ failures < MaxFailures
  /\ \E how \in {"killed", "frozen"} : mode' = [mode EXCEPT ![s] = how]
  /\ failures' = failures + 1
  /\ orderly' = (orderly /\ \A p \in Pairs :
                  {mode[p[1]], mode[p[2]]} \cap {"killed", "frozen"} # {}
                  \/ task[p] \notin {"none", "start"})
  /\ silent' = [p \in Pairs |-> silent[p] \/ p[2] = s]
  /\ announced' = [p \in Pairs |-> IF p[2] = s THEN 0 ELSE announced[p]]
  /\ UNCHANGED <<startup, alive, leader, task, choice, timer, starts>>

\* Three heartbeats are missed: the peer is marked,
MarkDead(s, t) ==
  /\ Running(s)
  /\ timer[<<s, t>>] = "on"
  /\ silent[<<s, t>>] /\ announced[<<t, s>>] = 0
  /\ timer' = [timer EXCEPT ![<<s, t>>] = "marked"]
  /\ alive' = [alive EXCEPT ![s] = @ \ {t}]
  /\ UNCHANGED <<mode, startup, election, silent, ghosts>>

\* and, in a section of its own, notify_waiters: it wakes the tasks that wait now.
Notify(s, t) ==
  /\ Running(s)
  /\ timer[<<s, t>>] = "marked"
  /\ timer' = [timer EXCEPT ![<<s, t>>] = "done"]
  /\ task' = [p \in Pairs |-> IF p[1] = s /\ task[p] = "waiting" THEN "woken" ELSE task[p]]
  /\ UNCHANGED <<mode, startup, alive, leader, choice, announced, silent, ghosts>>

Heartbeats(s, t) == MarkDead(s, t) \/ Notify(s, t)

(***************************************************************************)
(* leader_announcement_task                                                *)
(***************************************************************************)
\* An announcement to a peer that is considered dead is never written.
Announced(s, t) ==
  IF t \in alive[s] /\ ~silent[<<s, t>>] THEN [announced EXCEPT ![<<s, t>>] = @ + 1]
  ELSE announced

\* The server with the highest priority announces itself at once.
TaskStarts(s, t) ==
  /\ Running(s)
  /\ task[<<s, t>>] = "start"
  /\ announced' = IF s = Highest(Servers) THEN Announced(s, t) ELSE announced
  /\ task' = [task EXCEPT ![<<s, t>>] = "waiting"]
  /\ UNCHANGED <<mode, startup, alive, leader, choice, timer, silent, ghosts>>

\* Mutant: servers that are not alive are not filtered out.
TaskLooks_All(s, t) ==
  /\ Running(s)
  /\ task[<<s, t>>] = "woken"
  /\ choice' = [choice EXCEPT ![<<s, t>>] = Highest(Servers)]
  /\ task' = [task EXCEPT ![<<s, t>>] = "set"]
  /\ UNCHANGED <<mode, startup, alive, leader, announced, timer, silent, ghosts>>

TaskLooks(s, t) ==
  /\ Running(s)
  /\ task[<<s, t>>] = "woken"
  /\ choice' = [choice EXCEPT ![<<s, t>>] = Highest(alive[s])]
  /\ task' = [task EXCEPT ![<<s, t>>] = "set"]
  /\ UNCHANGED <<mode, startup, alive, leader, announced, timer, silent, ghosts>>

\* Comparing and setting are two sections, but the leader is the choice after them.
TaskSets(s, t) ==
  /\ Running(s)
  /\ task[<<s, t>>] = "set"
  /\ leader' = [leader EXCEPT ![s] = choice[<<s, t>>]]
  /\ task' = [task EXCEPT ![<<s, t>>] = "announce"]
  /\ UNCHANGED <<mode, startup, alive, choice, announced, timer, silent, ghosts>>

TaskAnnounces(s, t) ==
  /\ Running(s)
  /\ task[<<s, t>>] = "announce"
  /\ announced' = IF choice[<<s, t>>] = s THEN Announced(s, t) ELSE announced
  /\ task' = [task EXCEPT ![<<s, t>>] = "waiting"]
  /\ UNCHANGED <<mode, startup, alive, leader, choice, timer, silent, ghosts>>

\* The peer's reader obeys.
ReadAnnouncement(s, t) ==
  /\ Running(t) /\ Open(<<t, s>>)
  /\ announced[<<s, t>>] > 0
  /\ announced' = [announced EXCEPT ![<<s, t>>] = @ - 1]
  /\ leader' = [leader EXCEPT ![t] = s]
  /\ UNCHANGED <<mode, startup, alive, task, choice, timer, silent, ghosts>>

\* What was queued but not written when its server died, or when the server marked
\* the peer dead, is lost.
LoseAnnouncement(s, t) ==
  /\ announced[<<s, t>>] > 0
  /\ ~Running(s) \/ t \notin alive[s]
  /\ announced' = [announced EXCEPT ![<<s, t>>] = @ - 1]
  /\ UNCHANGED <<mode, startup, alive, leader, task, choice, timer, silent, ghosts>>

-----------------------------------------------------------------------------
Main(s) ==
  FirstStart(s) \/ Listen(s) \/ \E t \in Servers : Connect(s, t) \/ Refused(s, t)

LeaderTask(s, t) ==
  TaskStarts(s, t) \/ TaskLooks(s, t) \/ TaskSets(s, t) \/ TaskAnnounces(s, t)

\* What servers do; bound: until the first of them is poisoned.
Work ==
  /\ \A s \in Servers : mode[s] # "poisoned"
  /\ \/ \E s \in Servers : Main(s)
     \/ \E p \in Pairs :
          \/ \E out \in BOOLEAN : OpenSocket(p[1], p[2], out)
          \/ Heartbeats(p[1], p[2]) \/ LeaderTask(p[1], p[2])
          \/ ReadAnnouncement(p[1], p[2]) \/ LoseAnnouncement(p[1], p[2])

Next == Work \/ \E s \in Servers : Restart(s) \/ Fail(s)

Spec == Init /\ [][Next]_vars

\* Every server is started, tasks run on, what arrives is read, heartbeats are sent.
\* No run works for ever, so that it is enough that work goes on while there is any.
FairSpec == Spec /\ WF_vars(Work)
-----------------------------------------------------------------------------
(***************************************************************************)
(* Properties                                                              *)
(***************************************************************************)
\* A server that comes back stops every lower server that knew it: it connects
\* again, and its receiver is gone (peer_task). No server is stopped in another
\* way: at most one connection is made per pair as long as no server restarts, and a
\* server that restarts never stops one with a higher id.
OnlyReturnPoisons ==
  \A s \in Servers : mode[s] = "poisoned" => \E t \in Servers : s < t /\ starts[t] > 1

\* Connecting only to lower servers, and listening afterwards, waits in no circle:
\* if no server gives another up or fails, every pair is connected, at both ends.
ClusterForms ==
  [](orderly /\ failures = 0) => <>[](\A p \in Pairs : Open(p))

\* "The surviving servers agree on the right leader after a failure"
\* (test_leader_selection.py), the one with the highest priority, if the failure
\* comes after the servers have connected.
Survivors == {s \in Servers : Running(s)}
SurvivorsAgree ==
  []orderly => <>[](\A s \in Survivors : leader[s] = Highest(Survivors))

\* "When heartbeats mark a peer failed, each surviving server" (README) picks the
\* highest of those it still considers alive and updates its leader: once all its
\* leader tasks wait again, its leader is that server. This holds for one failure: a
\* second can be notified while both tasks of the survivor are away choosing or
\* announcing, or its tasks can set what they chose before it.
Settled(s) ==
  \A t \in Servers \ {s} : /\ task[<<s, t>>] = "waiting" /\ announced[<<t, s>>] = 0
                           /\ timer[<<s, t>>] = IF silent[<<s, t>>] THEN "done" ELSE "on"
LeaderFollows ==
  orderly => \A s \in Survivors : Settled(s) => leader[s] = Highest(alive[s])
=============================================================================
