------------------------------ MODULE PeerLink ------------------------------
(***************************************************************************)
(* One server's side of the connection to one peer: the five tasks that    *)
(* pa2/src/server_middleware.rs runs per peer and the PeerState they share. *)
(*                                                                         *)
(*   callers            send_request: queue a message, wait for a callback  *)
(*   send_message_task  number it, register its callback, write it          *)
(*   send_pings_task    heartbeats, and one timer task per heartbeat        *)
(*   peer_task          read responses and requests                         *)
(*   leader_announcement_task   queue messages nobody waits for             *)
(*                                                                         *)
(* The peer runs the same code; here it only answers, sends requests of     *)
(* its own, stops reading (frozen: SIGSTOP, a network cut) or dies.         *)
(* Time is abstracted: a sleep may end at any moment, so a heartbeat may    *)
(* time out although the peer is well.                                      *)
(***************************************************************************)
EXTENDS Naturals, Sequences, FiniteSets, Functions

CONSTANTS Calls,            \* requests that callers make to the peer
          Impatient,        \* the calls whose caller may go away
          NoCallback,       \* a message without a callback
          QueueCap,         \* capacity of the mpsc channel (100 in the code)
          WireCap,          \* messages the TCP buffers hold for a peer that does not read
          MissLimit,        \* missed heartbeats that make a peer dead (3 in the code)
          MaxPings,         \* bound: heartbeats sent
          MaxOthers,        \* bound: announcements and requests of the peer, together
          PromptTimers      \* a heartbeat's timer runs before the next heartbeat starts

Pings == 1 .. MaxPings
Waiters == Calls \cup Pings

ASSUME PeerLinkAssumption ==
  /\ QueueCap \in Nat \ {0}
  /\ WireCap \in Nat \ {0}
  /\ MissLimit \in Nat \ {0}
  /\ MaxPings \in Nat
  /\ MaxOthers \in Nat
  /\ PromptTimers \in BOOLEAN
  /\ Impatient \subseteq Calls
  /\ Calls \cap Nat = {}
  /\ NoCallback \notin Waiters

VARIABLES
  \* PeerState, behind the mutex of SystemState
  is_alive, sequence_num, seq_to_callback,
  tx,                  \* the mpsc channel
  sender, inHand,      \* send_message_task and the message it is sending
  calls,               \* what each caller knows of its call
  \* send_pings_task and its timers
  pinger, key, pending_heartbeats, missed_heartbeats, timer,
  announced,           \* announcements queued by leader_announcement_task
  reader, answering,   \* peer_task, and the handlers it has spawned
  \* the peer and the two directions of the socket
  peer, toPeer, fromPeer, handling, executed, inbound

stateVars == <<is_alive, sequence_num, seq_to_callback>>
sendVars  == <<sender, inHand>>
pingVars  == <<pinger, key, pending_heartbeats, missed_heartbeats, timer>>
readVars  == <<reader, answering>>
peerVars  == <<peer, handling, executed, inbound>>
wireVars  == <<toPeer, fromPeer>>
vars == <<stateVars, tx, sendVars, calls, pingVars, announced, readVars,
          peerVars, wireVars>>

Message == [waiter : Waiters \cup {NoCallback}, is_response : BOOLEAN]

\* A message on the wire. The waiter is not sent: it says whose message this
\* is, so that a response can be matched to the request it answers.
Sent  == [seq : Nat, waiter : Waiters \cup {NoCallback}, is_response : BOOLEAN]
Asked == [seq : Nat, waiter : Calls]
Received == [kind : {"RESPONSE", "PING", "REQUEST"}, seq : Nat,
             waiter : Waiters \cup {NoCallback}]

NoneRegistered == [s \in {} |-> NoCallback]
NoMessage == [seq |-> 0, waiter |-> NoCallback, is_response |-> TRUE]

TypeOK ==
  /\ is_alive \in BOOLEAN
  /\ sequence_num \in Nat
  /\ DOMAIN seq_to_callback \subseteq 1 .. sequence_num
  /\ seq_to_callback \in [DOMAIN seq_to_callback -> Waiters]
  /\ tx \in Seq(Message)
  /\ sender \in {"recv", "check", "write", "drain"}
  /\ inHand \in Sent
  /\ calls \in [Calls -> {"idle", "sending", "waiting", "answered",
                          "unavailable", "dropped"}]
  /\ pinger \in {"loop", "sleep", "send", "ended"}
  /\ key \in 0 .. MaxPings
  /\ pending_heartbeats \subseteq 1 .. key
  /\ missed_heartbeats \in Nat
  /\ timer \in [Pings -> {"off", "armed", "mark", "drain", "ended"}]
  /\ announced \in 0 .. MaxOthers
  /\ reader \in {"reading", "pong", "ended"}
  /\ answering \in Nat
  /\ peer \in {"running", "frozen", "killed"}
  /\ toPeer \in Seq(Sent)
  /\ fromPeer \in Seq(Received)
  /\ handling \subseteq Asked
  /\ executed \subseteq Calls
  /\ inbound \in 0 .. MaxOthers

Init ==
  /\ is_alive = TRUE
  /\ sequence_num = 0
  /\ seq_to_callback = NoneRegistered
  /\ tx = <<>>
  /\ sender = "recv"
  /\ inHand = NoMessage
  /\ calls = [c \in Calls |-> "idle"]
  /\ pinger = "loop"
  /\ key = 0
  /\ pending_heartbeats = {}
  /\ missed_heartbeats = 0
  /\ timer = [k \in Pings |-> "off"]
  /\ announced = 0
  /\ reader = "reading"
  /\ answering = 0
  /\ peer = "running"
  /\ toPeer = <<>>
  /\ fromPeer = <<>>
  /\ handling = {}
  /\ executed = {}
  /\ inbound = 0

(***************************************************************************)
(* Shared operations                                                       *)
(***************************************************************************)
\* sender.send(message).await: waits while the channel is full.
Enqueue(waiter, isResponse) ==
  /\ Len(tx) < QueueCap
  /\ tx' = Append(tx, [waiter |-> waiter, is_response |-> isResponse])

Registered == Range(seq_to_callback)

\* Mutant: the callbacks are forgotten and not called.
DrainCallbacks_Forgets ==
  /\ calls' = calls
  /\ seq_to_callback' = NoneRegistered
  /\ UNCHANGED <<is_alive, sequence_num>>

\* callback(None) for every registered callback, under the lock. A heartbeat's
\* callback ignores None; a caller that has gone away does not see it.
DrainCallbacks ==
  /\ calls' = [c \in Calls |-> IF c \in Registered /\ calls[c] = "waiting"
                               THEN "unavailable" ELSE calls[c]]
  /\ seq_to_callback' = NoneRegistered
  /\ UNCHANGED <<is_alive, sequence_num>>

(***************************************************************************)
(* Callers: send_request, then waiting for the callback                    *)
(***************************************************************************)
Begin(c) ==
  /\ calls[c] = "idle"
  /\ calls' = [calls EXCEPT ![c] = "sending"]
  /\ UNCHANGED <<stateVars, tx, sendVars, pingVars, announced, readVars, peerVars, wireVars>>

EnqueueCall(c) ==
  /\ calls[c] = "sending"
  /\ Enqueue(c, FALSE)
  /\ calls' = [calls EXCEPT ![c] = "waiting"]
  /\ UNCHANGED <<stateVars, sendVars, pingVars, announced, readVars, peerVars, wireVars>>

\* The caller's future is dropped. A message it has queued stays queued.
Drop(c) ==
  /\ c \in Impatient
  /\ calls[c] \in {"sending", "waiting"}
  /\ calls' = [calls EXCEPT ![c] = "dropped"]
  /\ UNCHANGED <<stateVars, tx, sendVars, pingVars, announced, readVars, peerVars, wireVars>>

(***************************************************************************)
(* send_message_task                                                       *)
(***************************************************************************)
\* Mutant: the new number is used and not stored.
SenderRegisters_KeepsNumber ==
  /\ sender = "recv"
  /\ tx # <<>>
  /\ LET m == Head(tx)
         n == IF m.is_response THEN sequence_num ELSE sequence_num + 1
     IN /\ seq_to_callback' =
             IF m.waiter = NoCallback THEN seq_to_callback
             ELSE [s \in DOMAIN seq_to_callback \cup {n} |->
                     IF s = n THEN m.waiter ELSE seq_to_callback[s]]
        /\ inHand' = [seq |-> n, waiter |-> m.waiter, is_response |-> m.is_response]
  /\ tx' = Tail(tx)
  /\ sender' = "check"
  /\ UNCHANGED <<sequence_num, is_alive, calls, pingVars, announced, readVars,
                 peerVars, wireVars>>

\* Mutant: the message is numbered after the counter has moved on.
SenderRegisters_NumbersLate ==
  /\ sender = "recv"
  /\ tx # <<>>
  /\ LET m == Head(tx)
         n == IF m.is_response THEN sequence_num ELSE sequence_num + 1
     IN /\ sequence_num' = n
        /\ seq_to_callback' =
             IF m.waiter = NoCallback THEN seq_to_callback
             ELSE [s \in DOMAIN seq_to_callback \cup {n} |->
                     IF s = n THEN m.waiter ELSE seq_to_callback[s]]
        /\ inHand' = [seq |-> n + 1, waiter |-> m.waiter, is_response |-> m.is_response]
  /\ tx' = Tail(tx)
  /\ sender' = "check"
  /\ UNCHANGED <<is_alive, calls, pingVars, announced, readVars, peerVars, wireVars>>

\* recv, then under the lock: only requests take a new sequence number, and
\* the callback is registered under the current one.
SenderRegisters ==
  /\ sender = "recv"
  /\ tx # <<>>
  /\ LET m == Head(tx)
         n == IF m.is_response THEN sequence_num ELSE sequence_num + 1
     IN /\ sequence_num' = n
        /\ seq_to_callback' =
             IF m.waiter = NoCallback THEN seq_to_callback
             ELSE [s \in DOMAIN seq_to_callback \cup {n} |->
                     IF s = n THEN m.waiter ELSE seq_to_callback[s]]
        /\ inHand' = [seq |-> n, waiter |-> m.waiter, is_response |-> m.is_response]
  /\ tx' = Tail(tx)
  /\ sender' = "check"
  /\ UNCHANGED <<is_alive, calls, pingVars, announced, readVars, peerVars, wireVars>>

\* Mutant: messages for a dead peer are thrown away.
SenderChecks_Discards ==
  /\ sender = "check"
  /\ sender' = IF is_alive THEN "write" ELSE "recv"
  /\ UNCHANGED <<stateVars, tx, inHand, calls, pingVars, announced, readVars, peerVars, wireVars>>

\* Mutant: a broken connection counts as a dead peer.
SenderChecks_Socket ==
  /\ sender = "check"
  /\ sender' = IF is_alive /\ peer # "killed" THEN "write" ELSE "drain"
  /\ UNCHANGED <<stateVars, tx, inHand, calls, pingVars, announced, readVars, peerVars, wireVars>>

SenderChecks ==
  /\ sender = "check"
  /\ sender' = IF is_alive THEN "write" ELSE "drain"
  /\ UNCHANGED <<stateVars, tx, inHand, calls, pingVars, announced, readVars, peerVars, wireVars>>

\* write_all: waits for room in the socket, for ever if the peer is frozen;
\* fails at once, and the failure is ignored, if the peer is gone.
SenderWrites ==
  /\ sender = "write"
  /\ \/ /\ peer = "killed"
        /\ UNCHANGED toPeer
     \/ /\ peer # "killed"
        /\ Len(toPeer) < WireCap
        /\ toPeer' = Append(toPeer, inHand)
  /\ sender' = "recv"
  /\ inHand' = NoMessage
  /\ UNCHANGED <<stateVars, tx, calls, pingVars, announced, readVars, peerVars, fromPeer>>

SenderDrains ==
  /\ sender = "drain"
  /\ DrainCallbacks
  /\ sender' = "recv"
  /\ inHand' = NoMessage
  /\ UNCHANGED <<tx, pingVars, announced, readVars, peerVars, wireVars>>

(***************************************************************************)
(* send_pings_task and the timer task of each heartbeat                    *)
(***************************************************************************)
PingLoop ==
  /\ pinger = "loop"
  /\ pinger' = IF is_alive THEN "sleep" ELSE "ended"
  /\ UNCHANGED <<stateVars, tx, sendVars, calls, key, pending_heartbeats,
                 missed_heartbeats, timer, announced, readVars, peerVars, wireVars>>

\* After the 2 s sleep: the heartbeat is pending and its timer is armed before
\* the PING is queued. key + 1 is the heartbeat the code numbers key.
PingStarts ==
  /\ pinger = "sleep"
  /\ key < MaxPings
  /\ PromptTimers => \A k \in Pings : timer[k] # "armed"
  /\ key' = key + 1
  /\ pending_heartbeats' = pending_heartbeats \cup {key + 1}
  /\ timer' = [timer EXCEPT ![key + 1] = "armed"]
  /\ pinger' = "send"
  /\ UNCHANGED <<stateVars, tx, sendVars, calls, missed_heartbeats, announced,
                 readVars, peerVars, wireVars>>

PingEnqueue ==
  /\ pinger = "send"
  /\ Enqueue(key, FALSE)
  /\ pinger' = "loop"
  /\ UNCHANGED <<stateVars, sendVars, calls, key, pending_heartbeats,
                 missed_heartbeats, timer, announced, readVars, peerVars, wireVars>>

\* Mutant: the test reads the count before it is increased (fetch_add's result).
TimerFires_OldCount(k) ==
  /\ timer[k] = "armed"
  /\ IF k \in pending_heartbeats
     THEN /\ pending_heartbeats' = pending_heartbeats \ {k}
          /\ missed_heartbeats' = missed_heartbeats + 1
          /\ timer' = [timer EXCEPT ![k] =
                         IF missed_heartbeats = MissLimit THEN "mark" ELSE "ended"]
     ELSE /\ timer' = [timer EXCEPT ![k] = "ended"]
          /\ UNCHANGED <<pending_heartbeats, missed_heartbeats>>
  /\ UNCHANGED <<stateVars, tx, sendVars, calls, pinger, key, announced,
                 readVars, peerVars, wireVars>>

\* The timer's 2 s are over: an unanswered heartbeat counts, and the one that
\* makes the count MissLimit goes on to mark the peer dead.
TimerFires(k) ==
  /\ timer[k] = "armed"
  /\ IF k \in pending_heartbeats
     THEN /\ pending_heartbeats' = pending_heartbeats \ {k}
          /\ missed_heartbeats' = missed_heartbeats + 1
          /\ timer' = [timer EXCEPT ![k] =
                         IF missed_heartbeats + 1 = MissLimit THEN "mark" ELSE "ended"]
     ELSE /\ timer' = [timer EXCEPT ![k] = "ended"]
          /\ UNCHANGED <<pending_heartbeats, missed_heartbeats>>
  /\ UNCHANGED <<stateVars, tx, sendVars, calls, pinger, key, announced,
                 readVars, peerVars, wireVars>>

TimerMarksDead(k) ==
  /\ timer[k] = "mark"
  /\ is_alive' = FALSE
  /\ timer' = [timer EXCEPT ![k] = "drain"]
  /\ UNCHANGED <<sequence_num, seq_to_callback, tx, sendVars, calls, pinger, key,
                 pending_heartbeats, missed_heartbeats, announced, readVars,
                 peerVars, wireVars>>

\* Mutant: the callbacks are left to the next message.
TimerDrains_Leaves(k) ==
  /\ timer[k] = "drain"
  /\ timer' = [timer EXCEPT ![k] = "ended"]
  /\ UNCHANGED <<stateVars, calls, tx, sendVars, pinger, key, pending_heartbeats,
                 missed_heartbeats, announced, readVars, peerVars, wireVars>>

\* The lock was released since the peer was marked dead.
TimerDrains(k) ==
  /\ timer[k] = "drain"
  /\ DrainCallbacks
  /\ timer' = [timer EXCEPT ![k] = "ended"]
  /\ UNCHANGED <<tx, sendVars, pinger, key, pending_heartbeats,
                 missed_heartbeats, announced, readVars, peerVars, wireVars>>

(***************************************************************************)
(* leader_announcement_task: a request without a callback                  *)
(***************************************************************************)
AnnounceEnqueue ==
  /\ announced + inbound < MaxOthers
  /\ announced' = announced + 1
  /\ Enqueue(NoCallback, FALSE)
  /\ UNCHANGED <<stateVars, sendVars, calls, pingVars, readVars, peerVars, wireVars>>

(***************************************************************************)
(* peer_task: the reader, and the handlers it spawns                       *)
(***************************************************************************)
\* Mutant: a PONG resets the count although its heartbeat has timed out.
ReaderTakesResponse_LateResets ==
  /\ reader = "reading"
  /\ fromPeer # <<>>
  /\ Head(fromPeer).kind = "RESPONSE"
  /\ fromPeer' = Tail(fromPeer)
  /\ LET s == Head(fromPeer).seq
         known == s \in DOMAIN seq_to_callback
         waiter == IF known THEN seq_to_callback[s] ELSE NoCallback
     IN /\ seq_to_callback' = Restrict(seq_to_callback, DOMAIN seq_to_callback \ {s})
        /\ calls' = [c \in Calls |-> IF c = waiter /\ calls[c] = "waiting"
                                     THEN "answered" ELSE calls[c]]
        /\ pending_heartbeats' = pending_heartbeats \ {waiter}
        /\ missed_heartbeats' =
             IF waiter \in Pings THEN 0 ELSE missed_heartbeats
  /\ UNCHANGED <<is_alive, sequence_num, tx, sendVars, pinger, key, timer,
                 announced, readVars, peerVars, toPeer>>

\* A response removes the callback of its sequence number, if there is one,
\* and calls it: a heartbeat that is still pending resets the count, a caller
\* that is still there gets its answer.
ReaderTakesResponse ==
  /\ reader = "reading"
  /\ fromPeer # <<>>
  /\ Head(fromPeer).kind = "RESPONSE"
  /\ fromPeer' = Tail(fromPeer)
  /\ LET s == Head(fromPeer).seq
         known == s \in DOMAIN seq_to_callback
         waiter == IF known THEN seq_to_callback[s] ELSE NoCallback
     IN /\ seq_to_callback' = Restrict(seq_to_callback, DOMAIN seq_to_callback \ {s})
        /\ calls' = [c \in Calls |-> IF c = waiter /\ calls[c] = "waiting"
                                     THEN "answered" ELSE calls[c]]
        /\ pending_heartbeats' = pending_heartbeats \ {waiter}
        /\ missed_heartbeats' =
             IF waiter \in pending_heartbeats THEN 0 ELSE missed_heartbeats
  /\ UNCHANGED <<is_alive, sequence_num, tx, sendVars, pinger, key, timer,
                 announced, readVars, peerVars, toPeer>>

\* The PONG is queued by the reader itself, which reads nothing meanwhile.
ReaderTakesPing ==
  /\ reader = "reading"
  /\ fromPeer # <<>>
  /\ Head(fromPeer).kind = "PING"
  /\ fromPeer' = Tail(fromPeer)
  /\ reader' = "pong"
  /\ UNCHANGED <<stateVars, tx, sendVars, calls, pingVars, announced, answering,
                 peerVars, toPeer>>

PongEnqueue ==
  /\ reader = "pong"
  /\ Enqueue(NoCallback, TRUE)
  /\ reader' = "reading"
  /\ UNCHANGED <<stateVars, sendVars, calls, pingVars, announced, answering,
                 peerVars, wireVars>>

\* Any other request is answered in a task of its own.
ReaderTakesRequest ==
  /\ reader = "reading"
  /\ fromPeer # <<>>
  /\ Head(fromPeer).kind = "REQUEST"
  /\ fromPeer' = Tail(fromPeer)
  /\ answering' = answering + 1
  /\ UNCHANGED <<stateVars, tx, sendVars, calls, pingVars, announced, reader,
                 peerVars, toPeer>>

AnswerEnqueue ==
  /\ answering > 0
  /\ answering' = answering - 1
  /\ Enqueue(NoCallback, TRUE)
  /\ UNCHANGED <<stateVars, sendVars, calls, pingVars, announced, reader,
                 peerVars, wireVars>>

\* End of file, or the panic of a reset connection: nothing else is told.
ReaderEnds ==
  /\ reader = "reading"
  /\ peer = "killed"
  /\ fromPeer = <<>>
  /\ reader' = "ended"
  /\ UNCHANGED <<stateVars, tx, sendVars, calls, pingVars, announced, answering,
                 peerVars, wireVars>>

(***************************************************************************)
(* The peer                                                                *)
(***************************************************************************)
\* It answers a PING itself, hands a call to a task, and acts on the rest
\* without answering.
PeerReads ==
  /\ peer = "running"
  /\ toPeer # <<>>
  /\ toPeer' = Tail(toPeer)
  /\ LET m == Head(toPeer)
     IN /\ fromPeer' =
             IF m.waiter \in Pings
             THEN Append(fromPeer, [kind |-> "RESPONSE", seq |-> m.seq, waiter |-> m.waiter])
             ELSE fromPeer
        /\ handling' =
             IF m.waiter \in Calls
             THEN handling \cup {[seq |-> m.seq, waiter |-> m.waiter]}
             ELSE handling
  /\ UNCHANGED <<stateVars, tx, sendVars, calls, pingVars, announced, readVars,
                 peer, executed, inbound>>

\* The handlers answer in any order.
PeerAnswers ==
  /\ peer = "running"
  /\ \E h \in handling :
       /\ handling' = handling \ {h}
       /\ executed' = executed \cup {h.waiter}
       /\ fromPeer' = Append(fromPeer,
                             [kind |-> "RESPONSE", seq |-> h.seq, waiter |-> h.waiter])
  /\ UNCHANGED <<stateVars, tx, sendVars, calls, pingVars, announced, readVars,
                 peer, inbound, toPeer>>

PeerSends ==
  /\ peer = "running"
  /\ announced + inbound < MaxOthers
  /\ inbound' = inbound + 1
  /\ \E kind \in {"PING", "REQUEST"} :
       fromPeer' = Append(fromPeer, [kind |-> kind, seq |-> inbound + 1, waiter |-> NoCallback])
  /\ UNCHANGED <<stateVars, tx, sendVars, calls, pingVars, announced, readVars,
                 peer, handling, executed, toPeer>>

\* Bound: MissLimit heartbeats are left to start after the failure, and when it
\* comes latest no more than that.
HeartbeatsLeft == key + MissLimit <= MaxPings

Freeze ==
  /\ peer = "running"
  /\ HeartbeatsLeft
  /\ peer' = "frozen"
  /\ UNCHANGED <<stateVars, tx, sendVars, calls, pingVars, announced, readVars,
                 handling, executed, inbound, wireVars>>

\* What it had read is lost, what it had written may be.
Kill ==
  /\ peer # "killed"
  /\ peer = "running" => HeartbeatsLeft
  /\ peer' = "killed"
  /\ toPeer' = <<>>
  /\ handling' = {}
  /\ \E n \in 0 .. Len(fromPeer) : fromPeer' = SubSeq(fromPeer, 1, n)
  /\ UNCHANGED <<stateVars, tx, sendVars, calls, pingVars, announced, readVars,
                 executed, inbound>>

-----------------------------------------------------------------------------
Caller(c) == Begin(c) \/ EnqueueCall(c) \/ Drop(c)
Sender == SenderRegisters \/ SenderChecks \/ SenderWrites \/ SenderDrains
Pinger == PingLoop \/ PingStarts \/ PingEnqueue
Timer(k) == TimerFires(k) \/ TimerMarksDead(k) \/ TimerDrains(k)
ReaderTakes == ReaderTakesResponse \/ ReaderTakesPing \/ ReaderTakesRequest
Reader == ReaderTakes \/ PongEnqueue \/ ReaderEnds
Peer == PeerReads \/ PeerAnswers \/ PeerSends \/ Freeze \/ Kill

Next ==
  \/ \E c \in Calls : Caller(c)
  \/ Sender
  \/ Pinger
  \/ \E k \in Pings : Timer(k)
  \/ AnnounceEnqueue
  \/ Reader
  \/ AnswerEnqueue
  \/ Peer

Spec == Init /\ [][Next]_vars

(***************************************************************************)
(* Every task runs on: tokio polls a task that is ready, timers expire, a  *)
(* channel serves waiting senders in order, and a peer that is running     *)
(* reads and answers. Nothing makes a caller start or go away, a peer send *)
(* requests, or a peer fail.                                               *)
(***************************************************************************)
Fairness ==
  /\ \A c \in Calls : WF_vars(EnqueueCall(c))
  /\ WF_vars(Sender)
  /\ WF_vars(Pinger)
  /\ \A k \in Pings : WF_vars(Timer(k))
  /\ WF_vars(Reader)
  /\ WF_vars(AnswerEnqueue)
  /\ WF_vars(PeerReads)
  /\ WF_vars(PeerAnswers)

FairSpec == Spec /\ Fairness
-----------------------------------------------------------------------------
(***************************************************************************)
(* Properties                                                              *)
(***************************************************************************)
QueuedWaiters == {m.waiter : m \in Range(tx)}

\* A caller that waits can still be reached: its message is queued or its
\* callback is registered. Violated if a failure path forgets a callback.
WaitingCallIsReachable ==
  \A c \in Calls : calls[c] = "waiting" => c \in QueuedWaiters \cup Registered

\* Once a peer is dead no callback stays registered, except while a task is
\* about to drain them: the sender that has just registered one, or the timer
\* that marked the peer dead. The liveness check and the drain take the lock
\* at different times (server_middleware.rs:210-216, 267-300).
NoStrandedCallback ==
  \/ is_alive
  \/ sender \in {"check", "drain"}
  \/ \E k \in Pings : timer[k] = "drain"
  \/ DOMAIN seq_to_callback = {}

\* A response finds the callback of the request it answers, or none at all:
\* requests, responses and announcements share one counter, responses do not
\* advance it, and callbacks are dropped when a peer is declared dead.
InFlight == Range(toPeer) \cup Range(fromPeer) \cup handling \cup {inHand}

AnswersMatch ==
  \A f \in InFlight :
    f.waiter # NoCallback /\ f.seq \in DOMAIN seq_to_callback
      => seq_to_callback[f.seq] = f.waiter

\* The counter that decides a peer's death never runs past the limit while the
\* peer is alive, so the test for equality with the limit cannot be skipped.
MissesBelowLimit ==
  is_alive => \/ missed_heartbeats < MissLimit
              \/ \E k \in Pings : timer[k] = "mark"

\* What the properties above and the refinement below need beside them to be
\* inductive: responses carry no callback, heartbeats start in order and before
\* they are queued, a sequence number on its way was handed out, callbacks are
\* drained only for a dead peer, nothing is sent for a caller that has not
\* called, and only what was executed is answered.
ResponsesHaveNoCallback ==
  \A m \in Range(tx) : m.is_response => m.waiter = NoCallback

HeartbeatsNumbered ==
  /\ pinger = "send" => key > 0
  /\ \A k \in Pings : k > key => timer[k] = "off"

InFlightNumbered ==
  \A f \in InFlight : f.waiter # NoCallback => f.seq <= sequence_num

DrainedOnlyWhenDead ==
  /\ sender = "drain" => ~is_alive
  /\ \A k \in Pings : timer[k] = "drain" => ~is_alive

NothingSentForIdle ==
  \A c \in Calls : calls[c] = "idle" =>
    c \notin QueuedWaiters \cup Registered \cup {f.waiter : f \in InFlight}

AnsweredWasExecuted ==
  \A m \in Range(fromPeer) : m.kind = "RESPONSE" => m.waiter \in Pings \cup executed

IInv ==
  /\ TypeOK
  /\ WaitingCallIsReachable
  /\ NoStrandedCallback
  /\ AnswersMatch
  /\ MissesBelowLimit
  /\ ResponsesHaveNoCallback
  /\ HeartbeatsNumbered
  /\ InFlightNumbered
  /\ DrainedOnlyWhenDead
  /\ NothingSentForIdle
  /\ AnsweredWasExecuted

\* The link is a peer call: a sending or waiting caller is pending.
Outcome == [c \in Calls |-> IF calls[c] \in {"sending", "waiting"} THEN "pending"
                            ELSE calls[c]]
Abstract == INSTANCE PeerCall WITH outcome <- Outcome, failed <- ~is_alive

ImplementsPeerCall == Abstract!Spec

\* "If the peer fails to respond to heartbeats ... then Value is None": no
\* caller waits for ever, whatever becomes of the peer.
CallsComplete ==
  \A c \in Calls : calls[c] \in {"sending", "waiting"}
                     ~> calls[c] \in {"answered", "unavailable", "dropped"}

\* A peer that stops answering is marked dead.
SilentPeerDetected == peer # "running" ~> ~is_alive
=============================================================================
