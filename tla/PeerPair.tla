------------------------------ MODULE PeerPair ------------------------------
(***************************************************************************)
(* Both ends of one connection of pa2/src/server_middleware.rs, and who     *)
(* waits for whom: the channels, the tasks that write, the sockets, and the *)
(* readers, which queue the PONGs themselves.                              *)
(*                                                                         *)
(* PeerLink has one end in full and a peer that reads whenever it runs.     *)
(* Here both ends are real, sequence numbers are left out (a response       *)
(* carries the call that it answers: PeerLink's AnswersMatch), and so are   *)
(* the timers: to declare a peer dead does not stop a write_all or a send   *)
(* that waits, so it does not end a wait of the tasks modelled here.        *)
(***************************************************************************)
EXTENDS Naturals, Sequences, Functions

CONSTANTS Calls,     \* Calls[s]: requests that callers at s make
          Back,      \* the call, if any, that the handler of a request makes back
          QueueCap,  \* capacity of each mpsc channel (100 in the code)
          WireCap,   \* messages that the TCP buffers of one direction hold
          MaxPings   \* bound: heartbeats each end sends

Ends == {"left", "right"}
Other(s) == IF s = "left" THEN "right" ELSE "left"
AllCalls == Calls["left"] \cup Calls["right"]

ASSUME PeerPairAssumption ==
  /\ DOMAIN Calls = Ends /\ Calls["left"] \cap Calls["right"] = {}
  /\ DOMAIN Back \subseteq AllCalls
  /\ \A s \in Ends : \A c \in DOMAIN Back \cap Calls[s] : Back[c] \in Calls[Other(s)]
  /\ \A c, d \in DOMAIN Back : Back[c] = Back[d] => c = d
  /\ QueueCap \in Nat \ {0} /\ WireCap \in Nat \ {0} /\ MaxPings \in Nat

VARIABLES calls,     \* what each caller knows of its call
          tx,        \* the mpsc channel of each end
          writer,    \* the message send_message_task is writing, or none
          wire,      \* wire[s]: written by s, not yet read by the other end
          reader,    \* peer_task: it reads, or waits to queue a PONG
          handling,  \* requests whose handlers have not answered
          pings      \* heartbeats queued

vars == <<calls, tx, writer, wire, reader, handling, pings>>

NoCall == "-"
Message == [kind : {"REQUEST", "RESPONSE"}, of : AllCalls]
             \cup [kind : {"PING", "PONG"}, of : {NoCall}]
Nothing == [kind |-> "-", of |-> NoCall]

\* Types; and what is being handled is waited for.
TypeOK ==
  /\ calls \in [AllCalls -> {"idle", "sending", "waiting", "answered"}]
  /\ \A s \in Ends :
       /\ tx[s] \in Seq(Message) /\ Len(tx[s]) <= QueueCap
       /\ writer[s] \in Message \cup {Nothing}
       /\ wire[s] \in Seq(Message) /\ Len(wire[s]) <= WireCap
       /\ reader[s] \in {"reading", "pong"}
       /\ handling[s] \subseteq {c \in Calls[Other(s)] : calls[c] = "waiting"}
       /\ pings[s] \in 0 .. MaxPings

Init ==
  /\ calls = [c \in AllCalls |-> "idle"]
  /\ tx = [s \in Ends |-> <<>>]
  /\ writer = [s \in Ends |-> Nothing]
  /\ wire = [s \in Ends |-> <<>>]
  /\ reader = [s \in Ends |-> "reading"]
  /\ handling = [s \in Ends |-> {}]
  /\ pings = [s \in Ends |-> 0]

\* sender.send(message).await: waits while the channel is full.
Enqueue(s, kind, c) ==
  /\ Len(tx[s]) < QueueCap
  /\ tx' = [tx EXCEPT ![s] = Append(@, [kind |-> kind, of |-> c])]

(***************************************************************************)
(* Callers: send_request. The handler of a request may be a caller.         *)
(***************************************************************************)
Begin(s, c) ==
  /\ calls[c] = "idle"
  /\ \A d \in DOMAIN Back : Back[d] = c => d \in handling[s]
  /\ calls' = [calls EXCEPT ![c] = "sending"]
  /\ UNCHANGED <<tx, writer, wire, reader, handling, pings>>

EnqueueCall(s, c) ==
  /\ calls[c] = "sending"
  /\ Enqueue(s, "REQUEST", c)
  /\ calls' = [calls EXCEPT ![c] = "waiting"]
  /\ UNCHANGED <<writer, wire, reader, handling, pings>>

(***************************************************************************)
(* send_message_task and send_pings_task                                    *)
(***************************************************************************)
\* Mutant: the message that is written stays at the head of the channel.
SenderTakes_Peeks(s) ==
  /\ writer[s] = Nothing /\ tx[s] # <<>>
  /\ writer' = [writer EXCEPT ![s] = Head(tx[s])]
  /\ UNCHANGED <<calls, tx, wire, reader, handling, pings>>

SenderTakes(s) ==
  /\ writer[s] = Nothing /\ tx[s] # <<>>
  /\ writer' = [writer EXCEPT ![s] = Head(tx[s])]
  /\ tx' = [tx EXCEPT ![s] = Tail(@)]
  /\ UNCHANGED <<calls, wire, reader, handling, pings>>

\* write_all: waits for room in the socket.
SenderWrites(s) ==
  /\ writer[s] # Nothing
  /\ Len(wire[s]) < WireCap
  /\ wire' = [wire EXCEPT ![s] = Append(@, writer[s])]
  /\ writer' = [writer EXCEPT ![s] = Nothing]
  /\ UNCHANGED <<calls, tx, reader, handling, pings>>

PingEnqueue(s) ==
  /\ pings[s] < MaxPings
  /\ Enqueue(s, "PING", NoCall)
  /\ pings' = [pings EXCEPT ![s] = @ + 1]
  /\ UNCHANGED <<calls, writer, wire, reader, handling>>

(***************************************************************************)
(* peer_task, and the handlers it spawns                                    *)
(***************************************************************************)
\* Mutant: the reader serves the requests itself.
Reads_Serves(s, kind) ==
  /\ reader[s] = "reading" /\ handling[s] = {}
  /\ wire[Other(s)] # <<>> /\ Head(wire[Other(s)]).kind = kind
  /\ wire' = [wire EXCEPT ![Other(s)] = Tail(@)]

Reads(s, kind) ==
  /\ reader[s] = "reading"
  /\ wire[Other(s)] # <<>> /\ Head(wire[Other(s)]).kind = kind
  /\ wire' = [wire EXCEPT ![Other(s)] = Tail(@)]

TakesResponse(s) ==
  /\ Reads(s, "RESPONSE")
  /\ calls' = [calls EXCEPT ![Head(wire[Other(s)]).of] = "answered"]
  /\ UNCHANGED <<tx, writer, reader, handling, pings>>

TakesPong(s) ==
  /\ Reads(s, "PONG")
  /\ UNCHANGED <<calls, tx, writer, reader, handling, pings>>

TakesPing(s) ==
  /\ Reads(s, "PING")
  /\ reader' = [reader EXCEPT ![s] = "pong"]
  /\ UNCHANGED <<calls, tx, writer, handling, pings>>

\* "answer in separate thread to avoid deadlock"
TakesRequest(s) ==
  /\ Reads(s, "REQUEST")
  /\ handling' = [handling EXCEPT ![s] = @ \cup {Head(wire[Other(s)]).of}]
  /\ UNCHANGED <<calls, tx, writer, reader, pings>>

\* Mutant: a PONG that finds no room is dropped.
PongEnqueue_Drops(s) ==
  /\ reader[s] = "pong"
  /\ tx' = IF Len(tx[s]) < QueueCap
           THEN [tx EXCEPT ![s] = Append(@, [kind |-> "PONG", of |-> NoCall])] ELSE tx
  /\ reader' = [reader EXCEPT ![s] = "reading"]
  /\ UNCHANGED <<calls, writer, wire, handling, pings>>

\* The reader queues the PONG itself, and reads nothing while it waits for room.
PongEnqueue(s) ==
  /\ reader[s] = "pong"
  /\ Enqueue(s, "PONG", NoCall)
  /\ reader' = [reader EXCEPT ![s] = "reading"]
  /\ UNCHANGED <<calls, writer, wire, handling, pings>>

\* A handler that has the answer to its own call, if it makes one.
AnswerEnqueue(s, c) ==
  /\ c \in handling[s]
  /\ c \in DOMAIN Back => calls[Back[c]] = "answered"
  /\ Enqueue(s, "RESPONSE", c)
  /\ handling' = [handling EXCEPT ![s] = @ \ {c}]
  /\ UNCHANGED <<calls, writer, wire, reader, pings>>

-----------------------------------------------------------------------------
Sender(s) == SenderTakes(s) \/ SenderWrites(s)
Reader(s) ==
  TakesResponse(s) \/ TakesPong(s) \/ TakesPing(s) \/ TakesRequest(s) \/ PongEnqueue(s)

Next ==
  \E s \in Ends :
    \/ \E c \in Calls[s] : Begin(s, c) \/ EnqueueCall(s, c)
    \/ \E c \in Calls[Other(s)] : AnswerEnqueue(s, c)
    \/ Sender(s) \/ PingEnqueue(s) \/ Reader(s)

Spec == Init /\ [][Next]_vars

\* Every task runs on. A channel serves those who wait for room in order; weak fairness is
\* enough, for there is only a bounded number of messages to wait behind. The handler of a
\* request makes its call back; other callers need not call, and heartbeats need not be sent.
Fairness ==
  \A s \in Ends :
    /\ WF_vars(Sender(s)) /\ WF_vars(Reader(s))
    /\ \A c \in Calls[s] : WF_vars(EnqueueCall(s, c))
    /\ \A c \in Calls[s] \cap Range(Back) : WF_vars(Begin(s, c))
    /\ \A c \in Calls[Other(s)] : WF_vars(AnswerEnqueue(s, c))

FairSpec == Spec /\ Fairness

-----------------------------------------------------------------------------
(***************************************************************************)
(* Properties                                                              *)
(***************************************************************************)
\* Both readers wait to queue a PONG, behind full channels, behind writers that wait for
\* full sockets, which the readers would empty.
Gridlock ==
  \A s \in Ends :
    /\ reader[s] = "pong" /\ Len(tx[s]) = QueueCap
    /\ writer[s] # Nothing /\ Len(wire[s]) = WireCap

\* Nothing else makes two servers wait for each other: unless that circle closes every
\* call is answered, however small the channels are, and also when handlers call back.
OnlyGridlockBlocks ==
  \A c \in AllCalls : calls[c] \in {"sending", "waiting"} ~> calls[c] = "answered" \/ Gridlock

\* The circle is never left: no task of either end goes on to make room. "answer in separate
\* thread to avoid deadlock" (peer_task) is done for requests; for PINGs the reader waits.
GridlockStays == [][Gridlock => Gridlock']_vars
=============================================================================
