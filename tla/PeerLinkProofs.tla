--------------------------- MODULE PeerLinkProofs ---------------------------
(***************************************************************************)
(* PeerLink's invariants for every number of calls, every capacity, every  *)
(* heartbeat limit and any number of heartbeats.                           *)
(***************************************************************************)
EXTENDS PeerLink, SequenceTheorems, TLAPS

(***************************************************************************)
(* The elements of a channel                                               *)
(***************************************************************************)
\* Queueing a message adds it to the channel (mpsc send, write_all).
LEMMA RangeAppend ==
  ASSUME NEW S, NEW s \in Seq(S), NEW e \in S
  PROVE  /\ Append(s, e) \in Seq(S)
         /\ Range(Append(s, e)) = Range(s) \cup {e}
<1>1. Append(s, e) \in Seq(S) /\ Len(Append(s, e)) = Len(s) + 1
  BY AppendProperties
<1>2. \A i \in 1 .. Len(s) : Append(s, e)[i] = s[i]
  BY AppendProperties
<1>3. Append(s, e)[Len(s) + 1] = e
  BY AppendProperties
<1>4. Range(Append(s, e)) = {Append(s, e)[i] : i \in 1 .. Len(s) + 1}
  BY <1>1, RangeEquality
<1>5. Range(s) = {s[i] : i \in 1 .. Len(s)} /\ Len(s) \in Nat
  BY RangeEquality, LenProperties
<1> QED
  BY <1>1, <1>2, <1>3, <1>4, <1>5

\* Receiving takes the head of the channel and leaves the rest (mpsc recv, read).
LEMMA RangeTail ==
  ASSUME NEW S, NEW s \in Seq(S), s # <<>>
  PROVE  /\ Head(s) \in S
         /\ Head(s) \in Range(s)
         /\ Tail(s) \in Seq(S)
         /\ Range(s) = Range(Tail(s)) \cup {Head(s)}
<1>1. /\ Head(s) \in S
      /\ Tail(s) \in Seq(S)
      /\ Len(Tail(s)) = Len(s) - 1
      /\ \A i \in 1 .. Len(Tail(s)) : Tail(s)[i] = s[i + 1]
  BY HeadTailProperties
<1>2. Len(s) \in Nat \ {0}
  BY EmptySeq
<1>3. Range(s) = {s[i] : i \in 1 .. Len(s)}
  BY RangeEquality
<1>4. Range(Tail(s)) = {Tail(s)[i] : i \in 1 .. Len(Tail(s))}
  BY <1>1, RangeEquality
<1>5. Head(s) = s[1]
  OBVIOUS
<1>6. ASSUME NEW i \in 1 .. Len(s)
      PROVE  s[i] \in Range(Tail(s)) \cup {Head(s)}
  <2>1. CASE i = 1
    BY <2>1, <1>5
  <2>2. CASE i # 1
    <3>1. i - 1 \in 1 .. Len(Tail(s)) /\ Tail(s)[i - 1] = s[i]
      BY <1>1, <1>2, <2>2
    <3> QED
      BY <3>1, <1>4
  <2> QED
    BY <2>1, <2>2
<1>7. ASSUME NEW i \in 1 .. Len(Tail(s))
      PROVE  Tail(s)[i] \in Range(s)
  BY <1>1, <1>2, <1>3
<1>8. Head(s) \in Range(s)
  BY <1>2, <1>3, <1>5
<1> QED
  BY <1>1, <1>3, <1>4, <1>6, <1>7, <1>8

\* A connection that breaks delivers a prefix of what was written.
LEMMA RangePrefix ==
  ASSUME NEW S, NEW s \in Seq(S), NEW n \in 0 .. Len(s)
  PROVE  /\ SubSeq(s, 1, n) \in Seq(S)
         /\ Range(SubSeq(s, 1, n)) \subseteq Range(s)
<1>1. SubSeq(s, 1, n) \in Seq(S) /\ Len(SubSeq(s, 1, n)) = n
  BY SubSeqProperties, LenProperties
<1>2. \A i \in 1 .. n : SubSeq(s, 1, n)[i] = s[i]
  BY SubSeqProperties, LenProperties
<1>3. Range(SubSeq(s, 1, n)) = {SubSeq(s, 1, n)[i] : i \in 1 .. n}
  BY <1>1, RangeEquality
<1>4. Range(s) = {s[i] : i \in 1 .. Len(s)} /\ Len(s) \in Nat
  BY RangeEquality, LenProperties
<1> QED
  BY <1>1, <1>2, <1>3, <1>4

(***************************************************************************)
(* Types                                                                   *)
(***************************************************************************)
USE PeerLinkAssumption DEF Pings, Waiters

LEMMA TypeInit == Init => TypeOK
BY DEF Init, TypeOK, NoneRegistered, NoMessage, Message, Sent, Received, Asked

\* Enqueue keeps the channel a sequence of messages.
LEMMA EnqueueType ==
  ASSUME TypeOK, NEW w \in Waiters \cup {NoCallback}, NEW b \in BOOLEAN, Enqueue(w, b)
  PROVE  /\ tx' \in Seq(Message)
         /\ Range(tx') = Range(tx) \cup {[waiter |-> w, is_response |-> b]}
<1>1. [waiter |-> w, is_response |-> b] \in Message
  BY DEF Message
<1> QED
  BY SMTT(40), <1>1, RangeAppend DEF TypeOK, Enqueue

LEMMA DrainType ==
  ASSUME TypeOK, DrainCallbacks
  PROVE  /\ DOMAIN seq_to_callback' = {}
         /\ seq_to_callback' \in [{} -> Waiters]
         /\ calls' \in [Calls -> {"idle", "sending", "waiting", "answered",
                                  "unavailable", "dropped"}]
BY DEF TypeOK, DrainCallbacks, NoneRegistered

\* What send_message_task registers and what it then holds.
LEMMA RegisterType ==
  ASSUME TypeOK, ResponsesHaveNoCallback, SenderRegisters
  PROVE  /\ Head(tx) \in Range(tx)
         /\ Head(tx).waiter \in Waiters \cup {NoCallback}
         /\ Range(tx) = Range(tx') \cup {Head(tx)}
         /\ sequence_num' \in Nat
         /\ sequence_num <= sequence_num'
         /\ DOMAIN seq_to_callback' \subseteq 1 .. sequence_num'
         /\ seq_to_callback' \in [DOMAIN seq_to_callback' -> Waiters]
         /\ inHand' = [seq |-> sequence_num', waiter |-> Head(tx).waiter,
                       is_response |-> Head(tx).is_response]
         /\ inHand' \in Sent
         /\ tx' \in Seq(Message)
<1> DEFINE m == Head(tx)
<1>1. /\ sequence_num \in Nat
      /\ DOMAIN seq_to_callback \subseteq 1 .. sequence_num
      /\ seq_to_callback \in [DOMAIN seq_to_callback -> Waiters]
      /\ tx \in Seq(Message)
  BY DEF TypeOK
<1>2. /\ tx # <<>>
      /\ tx' = Tail(tx)
      /\ sequence_num' = IF m.is_response THEN sequence_num ELSE sequence_num + 1
      /\ inHand' = [seq |-> sequence_num', waiter |-> m.waiter,
                    is_response |-> m.is_response]
      /\ m.waiter = NoCallback => seq_to_callback' = seq_to_callback
      /\ m.waiter # NoCallback =>
           seq_to_callback' = [s \in DOMAIN seq_to_callback \cup {sequence_num'} |->
             IF s = sequence_num' THEN m.waiter ELSE seq_to_callback[s]]
  BY DEF SenderRegisters
<1>3. m \in Message /\ m \in Range(tx) /\ tx' \in Seq(Message)
      /\ Range(tx) = Range(tx') \cup {m}
  BY <1>1, <1>2, RangeTail
<1>4. m.waiter \in Waiters \cup {NoCallback} /\ m.is_response \in BOOLEAN
  BY <1>3 DEF Message
<1>5. m.waiter # NoCallback => ~m.is_response
  BY <1>3, <1>4 DEF ResponsesHaveNoCallback
<1> HIDE DEF m
<1>6. sequence_num' \in Nat /\ sequence_num <= sequence_num'
  BY <1>1, <1>2, <1>4
<1>7. inHand' \in Sent
  BY <1>2, <1>4, <1>6 DEF Sent
<1>8. CASE m.waiter = NoCallback
  BY <1>1, <1>2, <1>3, <1>4, <1>6, <1>7, <1>8 DEF m
<1>9. CASE m.waiter # NoCallback
  <2>1. sequence_num' = sequence_num + 1 /\ m.waiter \in Waiters
    BY <1>2, <1>4, <1>5, <1>9
  <2>2. DOMAIN seq_to_callback' = DOMAIN seq_to_callback \cup {sequence_num'}
    BY <1>2, <1>9
  <2>3. \A s \in DOMAIN seq_to_callback' : seq_to_callback'[s] \in Waiters
    BY <1>1, <1>2, <1>9, <2>1, <2>2
  <2>4. seq_to_callback' \in [DOMAIN seq_to_callback' -> Waiters]
    BY <1>2, <1>9, <2>2, <2>3
  <2> QED
    BY <1>1, <1>2, <1>3, <1>4, <1>6, <1>7, <2>1, <2>2, <2>4 DEF m
<1> QED
  BY <1>8, <1>9

TypeInv == TypeOK /\ ResponsesHaveNoCallback /\ HeartbeatsNumbered

LEMMA NextPing ==
  ASSUME TypeOK, PingStarts
  PROVE  key + 1 \in Pings /\ key + 1 > key
<1>1. key \in Nat /\ key < MaxPings
  BY DEF TypeOK, PingStarts
<1> QED
  BY <1>1

\* Heartbeats start one after another, and a timer runs only once started.
LEMMA HeartbeatsStep ==
  ASSUME TypeOK, HeartbeatsNumbered, [Next]_vars
  PROVE  HeartbeatsNumbered'
<1> USE DEF TypeOK, HeartbeatsNumbered, pingVars
<1>1. CASE PingStarts
  BY SMTT(40), <1>1 DEF PingStarts
<1>2. CASE PingLoop \/ PingEnqueue
  BY <1>2 DEF PingLoop, PingEnqueue
<1>3. ASSUME NEW k \in Pings, Timer(k)
      PROVE  HeartbeatsNumbered'
  <2>1. k <= key
    <3>1. timer[k] # "off"
      BY <1>3 DEF Timer, TimerFires, TimerMarksDead, TimerDrains
    <3>2. k \in Nat /\ key \in Nat
      OBVIOUS
    <3> QED
      BY SMTT(40), <3>1, <3>2
  <2>2. UNCHANGED <<pinger, key>>
    BY <1>3 DEF Timer, TimerFires, TimerMarksDead, TimerDrains
  <2>3. \A j \in Pings : j # k => timer'[j] = timer[j]
    BY <1>3 DEF Timer, TimerFires, TimerMarksDead, TimerDrains
  <2> QED
    BY SMTT(40), <2>1, <2>2, <2>3
<1>4. CASE UNCHANGED <<pinger, key, timer>>
  BY <1>4
<1> QED
  BY <1>1, <1>2, <1>3, <1>4
  DEF Next, Caller, Begin, EnqueueCall, Drop, Sender, SenderRegisters, SenderChecks,
      SenderWrites, SenderDrains, Pinger, AnnounceEnqueue, ReaderTakes, Reader,
      ReaderTakesResponse, ReaderTakesPing, PongEnqueue, ReaderTakesRequest,
      AnswerEnqueue, ReaderEnds, Peer, PeerReads, PeerAnswers, PeerSends, Freeze,
      Kill, vars

LEMMA TypeStep == TypeInv /\ [Next]_vars => TypeInv'
<1> SUFFICES ASSUME TypeOK, ResponsesHaveNoCallback, HeartbeatsNumbered, [Next]_vars
             PROVE  TypeOK' /\ ResponsesHaveNoCallback'
  BY HeartbeatsStep DEF TypeInv
<1> USE DEF stateVars, sendVars, pingVars, readVars, peerVars, wireVars
<1>a. ASSUME NEW w \in Waiters \cup {NoCallback}, NEW b \in BOOLEAN, Enqueue(w, b),
             b => w = NoCallback
      PROVE  tx' \in Seq(Message) /\ ResponsesHaveNoCallback'
  BY <1>a, EnqueueType DEF ResponsesHaveNoCallback
<1>b. tx' = tx => ResponsesHaveNoCallback'
  BY DEF ResponsesHaveNoCallback
<1>c. ASSUME fromPeer # <<>>, fromPeer' = Tail(fromPeer)
      PROVE  fromPeer' \in Seq(Received)
  <2>1. fromPeer \in Seq(Received)
    BY DEF TypeOK
  <2> QED
    BY <1>c, <2>1, RangeTail
<1>1. ASSUME NEW c \in Calls, Begin(c)
      PROVE  TypeOK' /\ ResponsesHaveNoCallback'
  BY <1>1, <1>b DEF TypeOK, Begin
<1>2. ASSUME NEW c \in Calls, EnqueueCall(c)
      PROVE  TypeOK' /\ ResponsesHaveNoCallback'
  BY <1>2, <1>a DEF TypeOK, EnqueueCall
<1>3. ASSUME NEW c \in Calls, Drop(c)
      PROVE  TypeOK' /\ ResponsesHaveNoCallback'
  BY <1>3, <1>b DEF TypeOK, Drop
<1>4. CASE SenderRegisters
  <2>1. ResponsesHaveNoCallback'
    BY <1>4, RegisterType DEF ResponsesHaveNoCallback
  <2> QED
    BY <1>4, <2>1, RegisterType DEF TypeOK, SenderRegisters
<1>5. CASE SenderChecks
  BY <1>5, <1>b DEF TypeOK, SenderChecks
<1>6. CASE SenderWrites
  <2>1. NoMessage \in Sent
    BY DEF NoMessage, Sent
  <2>2. toPeer' \in Seq(Sent)
    <3>1. toPeer \in Seq(Sent) /\ inHand \in Sent
      BY DEF TypeOK
    <3>2. toPeer' = toPeer \/ toPeer' = Append(toPeer, inHand)
      BY <1>6 DEF SenderWrites
    <3> QED
      BY <3>1, <3>2, RangeAppend
  <2> QED
    BY <1>6, <1>b, <2>1, <2>2 DEF TypeOK, SenderWrites
<1>7. CASE SenderDrains
  <2>1. NoMessage \in Sent
    BY DEF NoMessage, Sent
  <2> QED
    BY <1>7, <1>b, <2>1, DrainType DEF TypeOK, SenderDrains, DrainCallbacks
<1>8. CASE PingLoop
  BY <1>8, <1>b DEF TypeOK, PingLoop
<1>9. CASE PingStarts
  BY SMTT(40), <1>9, <1>b DEF TypeOK, PingStarts
<1>10. CASE PingEnqueue
  <2>1. key \in Waiters \cup {NoCallback}
    BY <1>10 DEF TypeOK, PingEnqueue, HeartbeatsNumbered
  <2> QED
    BY <1>10, <1>a, <2>1 DEF TypeOK, PingEnqueue
<1>11. ASSUME NEW k \in Pings, TimerFires(k)
       PROVE  TypeOK' /\ ResponsesHaveNoCallback'
  <2>1. timer' \in [Pings -> {"off", "armed", "mark", "drain", "ended"}]
    BY <1>11 DEF TypeOK, TimerFires
  <2>2. /\ pending_heartbeats' \subseteq pending_heartbeats
        /\ missed_heartbeats' = missed_heartbeats \/ missed_heartbeats' = missed_heartbeats + 1
    BY <1>11 DEF TimerFires
  <2>3. pending_heartbeats \subseteq 1 .. key /\ missed_heartbeats \in Nat
    BY DEF TypeOK
  <2>4. pending_heartbeats' \subseteq 1 .. key /\ missed_heartbeats' \in Nat
    BY <2>2, <2>3
  <2> QED
    BY <1>11, <1>b, <2>1, <2>4 DEF TypeOK, TimerFires
<1>12. ASSUME NEW k \in Pings, TimerMarksDead(k)
       PROVE  TypeOK' /\ ResponsesHaveNoCallback'
  BY <1>12, <1>b DEF TypeOK, TimerMarksDead
<1>13. ASSUME NEW k \in Pings, TimerDrains(k)
       PROVE  TypeOK' /\ ResponsesHaveNoCallback'
  BY <1>13, <1>b, DrainType DEF TypeOK, TimerDrains, DrainCallbacks
<1>14. CASE AnnounceEnqueue
  <2>1. tx' \in Seq(Message) /\ ResponsesHaveNoCallback'
    BY <1>14, <1>a DEF AnnounceEnqueue
  <2>2. announced' \in 0 .. MaxOthers
    BY SMTT(40), <1>14 DEF TypeOK, AnnounceEnqueue
  <2> QED
    BY <1>14, <2>1, <2>2 DEF TypeOK, AnnounceEnqueue
<1>15. CASE ReaderTakesResponse
  <2>1. fromPeer' \in Seq(Received)
    BY <1>15, <1>c DEF ReaderTakesResponse
  <2>2. /\ DOMAIN seq_to_callback' \subseteq DOMAIN seq_to_callback
        /\ \A s \in DOMAIN seq_to_callback' : seq_to_callback'[s] = seq_to_callback[s]
        /\ seq_to_callback' \in [DOMAIN seq_to_callback' -> Waiters]
    BY <1>15 DEF TypeOK, ReaderTakesResponse, Restrict
  <2>3. calls' \in [Calls -> {"idle", "sending", "waiting", "answered",
                              "unavailable", "dropped"}]
    BY <1>15 DEF TypeOK, ReaderTakesResponse
  <2>4. pending_heartbeats' \subseteq 1 .. key /\ missed_heartbeats' \in Nat
    BY <1>15 DEF TypeOK, ReaderTakesResponse
  <2> QED
    BY <1>15, <1>b, <2>1, <2>2, <2>3, <2>4 DEF TypeOK, ReaderTakesResponse
<1>16. CASE ReaderTakesPing
  <2>1. fromPeer' \in Seq(Received)
    BY <1>16, <1>c DEF ReaderTakesPing
  <2> QED
    BY <1>16, <1>b, <2>1 DEF TypeOK, ReaderTakesPing
<1>17. CASE PongEnqueue
  BY <1>17, <1>a DEF TypeOK, PongEnqueue
<1>18. CASE ReaderTakesRequest
  <2>1. fromPeer' \in Seq(Received)
    BY <1>18, <1>c DEF ReaderTakesRequest
  <2>2. answering \in Nat /\ answering' = answering + 1
    BY <1>18 DEF TypeOK, ReaderTakesRequest
  <2>3. answering' \in Nat
    BY <2>2
  <2> QED
    BY <1>18, <1>b, <2>1, <2>3 DEF TypeOK, ReaderTakesRequest
<1>19. CASE AnswerEnqueue
  <2>1. tx' \in Seq(Message) /\ ResponsesHaveNoCallback'
    BY <1>19, <1>a DEF AnswerEnqueue
  <2>2. answering \in Nat /\ answering > 0 /\ answering' = answering - 1
    BY <1>19 DEF TypeOK, AnswerEnqueue
  <2>3. answering' \in Nat
    BY <2>2
  <2> QED
    BY <1>19, <2>1, <2>3 DEF TypeOK, AnswerEnqueue
<1>20. CASE ReaderEnds
  BY <1>20, <1>b DEF TypeOK, ReaderEnds
<1>21. CASE PeerReads
  <2> DEFINE m == Head(toPeer)
  <2>1. toPeer # <<>> /\ toPeer \in Seq(Sent) /\ fromPeer \in Seq(Received)
    BY <1>21 DEF TypeOK, PeerReads
  <2>2. m \in Sent /\ toPeer' \in Seq(Sent)
    BY <1>21, <2>1, RangeTail DEF PeerReads
  <2>3. m.seq \in Nat /\ m.waiter \in Waiters \cup {NoCallback}
    BY <2>2 DEF Sent
  <2>4. [kind |-> "RESPONSE", seq |-> m.seq, waiter |-> m.waiter] \in Received
    BY <2>3 DEF Received
  <2>5. fromPeer' \in Seq(Received)
    BY <1>21, <2>1, <2>4, RangeAppend DEF PeerReads
  <2>6. handling' \subseteq Asked
    <3>1. handling \subseteq Asked
      BY DEF TypeOK
    <3>2. CASE m.waiter \in Calls
      <4>1. handling' = handling \cup {[seq |-> m.seq, waiter |-> m.waiter]}
        BY <1>21, <3>2 DEF PeerReads
      <4> QED
        BY <2>3, <3>1, <3>2, <4>1 DEF Asked
    <3>3. CASE m.waiter \notin Calls
      <4>1. handling' = handling
        BY <1>21, <3>3 DEF PeerReads
      <4> QED
        BY <3>1, <4>1
    <3> QED
      BY <3>2, <3>3
  <2> QED
    BY <1>21, <1>b, <2>2, <2>5, <2>6 DEF TypeOK, PeerReads
<1>22. CASE PeerAnswers
  <2>1. PICK h \in handling :
          /\ handling' = handling \ {h}
          /\ executed' = executed \cup {h.waiter}
          /\ fromPeer' = Append(fromPeer,
                                [kind |-> "RESPONSE", seq |-> h.seq, waiter |-> h.waiter])
    BY <1>22 DEF PeerAnswers
  <2>2. h.seq \in Nat /\ h.waiter \in Calls
    BY DEF TypeOK, Asked
  <2>3. [kind |-> "RESPONSE", seq |-> h.seq, waiter |-> h.waiter] \in Received
    BY <2>2 DEF Received
  <2>4. fromPeer' \in Seq(Received)
    BY <2>1, <2>3, RangeAppend DEF TypeOK
  <2> QED
    BY <1>22, <1>b, <2>1, <2>2, <2>4 DEF TypeOK, PeerAnswers
<1>23. CASE PeerSends
  <2>1. PICK kind \in {"PING", "REQUEST"} :
          fromPeer' = Append(fromPeer,
                             [kind |-> kind, seq |-> inbound + 1, waiter |-> NoCallback])
    BY <1>23 DEF PeerSends
  <2>2. [kind |-> kind, seq |-> inbound + 1, waiter |-> NoCallback] \in Received
    BY SMTT(40) DEF Received, TypeOK
  <2>3. fromPeer' \in Seq(Received)
    BY <2>1, <2>2, RangeAppend DEF TypeOK
  <2> QED
    <3>1. inbound' \in 0 .. MaxOthers
      BY SMTT(40), <1>23 DEF TypeOK, PeerSends
    <3> QED
      BY <1>23, <1>b, <2>3, <3>1 DEF TypeOK, PeerSends
<1>24. CASE Freeze
  BY <1>24, <1>b DEF TypeOK, Freeze
<1>25. CASE Kill
  <2>1. <<>> \in Seq(Sent)
    BY EmptySeq
  <2>2. fromPeer' \in Seq(Received)
    BY SMTT(40), <1>25, RangePrefix DEF TypeOK, Kill
  <2> QED
    BY <1>25, <1>b, <2>1, <2>2 DEF TypeOK, Kill
<1>26. CASE UNCHANGED vars
  BY <1>26, <1>b DEF TypeOK, vars
<1> QED
  BY <1>1, <1>2, <1>3, <1>4, <1>5, <1>6, <1>7, <1>8, <1>9, <1>10, <1>11, <1>12,
     <1>13, <1>14, <1>15, <1>16, <1>17, <1>18, <1>19, <1>20, <1>21, <1>22, <1>23,
     <1>24, <1>25, <1>26
  DEF Next, Caller, Sender, Pinger, Timer, ReaderTakes, Reader, Peer

\* Every variable keeps its type: a sequence number is never reused for a
\* second callback, and only requests register one (server_middleware.rs:269-278).
THEOREM TypeCorrect == Spec => []TypeOK
<1>1. Init => TypeInv
  BY TypeInit DEF TypeInv, Init, ResponsesHaveNoCallback, HeartbeatsNumbered, Range
<1>2. TypeInv /\ [Next]_vars => TypeInv'
  BY TypeStep
<1>3. TypeInv => TypeOK
  BY DEF TypeInv
<1> QED
  BY <1>1, <1>2, <1>3, PTL DEF Spec

(***************************************************************************)
(* Death and the callbacks                                                 *)
(***************************************************************************)
\* Only the timers and the sender's check decide who drains.
LEMMA DrainedStep ==
  ASSUME TypeInv, DrainedOnlyWhenDead, [Next]_vars
  PROVE  DrainedOnlyWhenDead'
<1> USE DEF TypeInv, TypeOK, DrainedOnlyWhenDead, stateVars, sendVars, pingVars
<1>1. CASE SenderChecks
  BY <1>1 DEF SenderChecks
<1>2. CASE PingStarts
  BY <1>2 DEF PingStarts
<1>3. ASSUME NEW k \in Pings, TimerFires(k)
      PROVE  DrainedOnlyWhenDead'
  BY <1>3 DEF TimerFires
<1>4. ASSUME NEW k \in Pings, TimerMarksDead(k)
      PROVE  DrainedOnlyWhenDead'
  BY <1>4 DEF TimerMarksDead
<1>5. ASSUME NEW k \in Pings, TimerDrains(k)
      PROVE  DrainedOnlyWhenDead'
  BY <1>5 DEF TimerDrains, DrainCallbacks
<1>6. CASE UNCHANGED <<is_alive, timer>> /\ (sender' # "drain" \/ sender' = sender)
  BY <1>6
<1> QED
  BY <1>1, <1>2, <1>3, <1>4, <1>5, <1>6
  DEF Next, Caller, Begin, EnqueueCall, Drop, Sender, SenderRegisters, SenderWrites,
      SenderDrains, DrainCallbacks, Pinger, PingLoop, PingEnqueue, Timer,
      AnnounceEnqueue, ReaderTakes, Reader, ReaderTakesResponse, ReaderTakesPing,
      PongEnqueue, ReaderTakesRequest, AnswerEnqueue, ReaderEnds, Peer, PeerReads,
      PeerAnswers, PeerSends, Freeze, Kill, vars

\* A callback is registered before the sender looks at is_alive, and the timer
\* drains after it has cleared is_alive: one of the two sees the other.
LEMMA NoStrandedStep ==
  ASSUME TypeInv, NoStrandedCallback, [Next]_vars
  PROVE  NoStrandedCallback'
<1> USE DEF TypeInv, TypeOK, NoStrandedCallback, stateVars, sendVars, pingVars
<1>1. CASE SenderRegisters
  BY <1>1 DEF SenderRegisters
<1>2. CASE SenderChecks
  BY <1>2 DEF SenderChecks
<1>3. CASE SenderWrites
  BY <1>3 DEF SenderWrites
<1>4. CASE SenderDrains
  BY <1>4, DrainType DEF SenderDrains
<1>5. CASE PingStarts
  <2>1. \A k \in Pings : timer[k] = "drain" => timer'[k] = "drain"
    <3>1. key + 1 \in Pings /\ key + 1 > key
      BY <1>5, NextPing
    <3>2. timer[key + 1] = "off"
      BY <3>1 DEF HeartbeatsNumbered
    <3>3. timer' = [timer EXCEPT ![key + 1] = "armed"]
      BY <1>5 DEF PingStarts
    <3> QED
      BY <3>2, <3>3
  <2> QED
    BY <1>5, <2>1 DEF PingStarts
<1>6. ASSUME NEW k \in Pings, TimerFires(k)
      PROVE  NoStrandedCallback'
  BY <1>6 DEF TimerFires
<1>7. ASSUME NEW k \in Pings, TimerMarksDead(k)
      PROVE  NoStrandedCallback'
  BY <1>7 DEF TimerMarksDead
<1>8. ASSUME NEW k \in Pings, TimerDrains(k)
      PROVE  NoStrandedCallback'
  BY <1>8, DrainType DEF TimerDrains
<1>9. CASE ReaderTakesResponse
  <2>1. DOMAIN seq_to_callback' \subseteq DOMAIN seq_to_callback
    BY <1>9 DEF ReaderTakesResponse, Restrict
  <2> QED
    BY <1>9, <2>1 DEF ReaderTakesResponse
<1>10. CASE UNCHANGED <<is_alive, timer, sender, seq_to_callback>>
  BY <1>10
<1> QED
  BY <1>1, <1>2, <1>3, <1>4, <1>5, <1>6, <1>7, <1>8, <1>9, <1>10
  DEF Next, Caller, Begin, EnqueueCall, Drop, Sender, Pinger, PingLoop, PingEnqueue,
      Timer, AnnounceEnqueue, ReaderTakes, Reader, ReaderTakesPing, PongEnqueue,
      ReaderTakesRequest, AnswerEnqueue, ReaderEnds, Peer, PeerReads, PeerAnswers,
      PeerSends, Freeze, Kill, vars

\* The count and the decision are one step under the heartbeats' lock, so the
\* count cannot step over the limit.
LEMMA MissesStep ==
  ASSUME TypeInv, MissesBelowLimit, [Next]_vars
  PROVE  MissesBelowLimit'
<1> USE DEF TypeInv, TypeOK, MissesBelowLimit, stateVars, sendVars, pingVars
<1>1. CASE PingStarts
  <2>1. \A k \in Pings : timer[k] = "mark" => timer'[k] = "mark"
    <3>1. key + 1 \in Pings /\ key + 1 > key
      BY <1>1, NextPing
    <3>2. timer[key + 1] = "off"
      BY <3>1 DEF HeartbeatsNumbered
    <3>3. timer' = [timer EXCEPT ![key + 1] = "armed"]
      BY <1>1 DEF PingStarts
    <3> QED
      BY <3>2, <3>3
  <2> QED
    BY <1>1, <2>1 DEF PingStarts
<1>2. ASSUME NEW k \in Pings, TimerFires(k)
      PROVE  MissesBelowLimit'
  <2>1. is_alive' = is_alive
    BY <1>2 DEF TimerFires
  <2>2. \A j \in Pings : timer[j] = "mark" => timer'[j] = "mark"
    BY <1>2 DEF TimerFires
  <2>3. missed_heartbeats < MissLimit =>
          missed_heartbeats' < MissLimit \/ timer'[k] = "mark"
    BY SMTT(40), <1>2 DEF TimerFires
  <2> QED
    BY <2>1, <2>2, <2>3
<1>3. ASSUME NEW k \in Pings, TimerMarksDead(k)
      PROVE  MissesBelowLimit'
  BY <1>3 DEF TimerMarksDead
<1>4. ASSUME NEW k \in Pings, TimerDrains(k)
      PROVE  MissesBelowLimit'
  BY <1>4 DEF TimerDrains, DrainCallbacks
<1>5. CASE ReaderTakesResponse
  BY <1>5 DEF ReaderTakesResponse
<1>6. CASE UNCHANGED <<is_alive, timer, missed_heartbeats>>
  BY <1>6
<1> QED
  BY <1>1, <1>2, <1>3, <1>4, <1>5, <1>6
  DEF Next, Caller, Begin, EnqueueCall, Drop, Sender, SenderRegisters, SenderChecks,
      SenderWrites, SenderDrains, DrainCallbacks, Pinger, PingLoop, PingEnqueue, Timer,
      AnnounceEnqueue, ReaderTakes, Reader, ReaderTakesPing, PongEnqueue,
      ReaderTakesRequest, AnswerEnqueue, ReaderEnds, Peer, PeerReads, PeerAnswers,
      PeerSends, Freeze, Kill, vars

(***************************************************************************)
(* Where the messages of a call are                                        *)
(***************************************************************************)
\* The sender task registers the callback of the message it takes under a
\* number that no registered callback has.
LEMMA RegisterCallbacks ==
  ASSUME TypeInv, SenderRegisters
  PROVE  /\ \A s \in DOMAIN seq_to_callback :
              s \in DOMAIN seq_to_callback' /\ seq_to_callback'[s] = seq_to_callback[s]
         /\ Head(tx).waiter = NoCallback => seq_to_callback' = seq_to_callback
         /\ Head(tx).waiter # NoCallback =>
              /\ sequence_num' = sequence_num + 1
              /\ DOMAIN seq_to_callback' = DOMAIN seq_to_callback \cup {sequence_num'}
              /\ seq_to_callback'[sequence_num'] = Head(tx).waiter
<1>1. sequence_num \in Nat /\ DOMAIN seq_to_callback \subseteq 1 .. sequence_num
  BY DEF TypeInv, TypeOK
<1>2. Head(tx).waiter = NoCallback => seq_to_callback' = seq_to_callback
  BY DEF SenderRegisters
<1>3. ASSUME Head(tx).waiter # NoCallback
      PROVE  /\ sequence_num' = sequence_num + 1
             /\ seq_to_callback' =
                  [s \in DOMAIN seq_to_callback \cup {sequence_num'} |->
                     IF s = sequence_num' THEN Head(tx).waiter ELSE seq_to_callback[s]]
  <2>1. Head(tx) \in Range(tx)
    BY RegisterType DEF TypeInv
  <2>2. Head(tx) \in Message
    BY RangeTail DEF TypeInv, TypeOK, SenderRegisters
  <2>3. Head(tx).is_response \in BOOLEAN
    BY <2>2 DEF Message
  <2>4. ~Head(tx).is_response
    BY <1>3, <2>1, <2>3 DEF TypeInv, ResponsesHaveNoCallback
  <2> QED
    BY <1>3, <2>4 DEF SenderRegisters
<1>4. sequence_num + 1 \notin DOMAIN seq_to_callback
  BY <1>1
<1>5. CASE Head(tx).waiter = NoCallback
  BY <1>2, <1>5
<1>6. CASE Head(tx).waiter # NoCallback
  BY <1>3, <1>4, <1>6
<1> QED
  BY <1>5, <1>6

LEMMA RegisterQueue ==
  ASSUME TypeInv, SenderRegisters
  PROVE  /\ QueuedWaiters = QueuedWaiters' \cup {Head(tx).waiter}
         /\ Registered' = IF Head(tx).waiter = NoCallback THEN Registered
                          ELSE Registered \cup {Head(tx).waiter}
<1>1. Range(tx) = Range(tx') \cup {Head(tx)}
  BY RegisterType DEF TypeInv
<1>2. QueuedWaiters = QueuedWaiters' \cup {Head(tx).waiter}
  BY <1>1 DEF QueuedWaiters
<1>3. CASE Head(tx).waiter = NoCallback
  BY <1>2, <1>3, RegisterCallbacks DEF Registered
<1>4. CASE Head(tx).waiter # NoCallback
  <2>1. /\ DOMAIN seq_to_callback' = DOMAIN seq_to_callback \cup {sequence_num'}
        /\ seq_to_callback'[sequence_num'] = Head(tx).waiter
        /\ \A s \in DOMAIN seq_to_callback : seq_to_callback'[s] = seq_to_callback[s]
    BY <1>4, RegisterCallbacks
  <2>2. Registered' = Registered \cup {Head(tx).waiter}
    BY <2>1 DEF Registered, Range
  <2> QED
    BY <1>2, <1>4, <2>2
<1> QED
  BY <1>3, <1>4

LEMMA EnqueueQueue ==
  ASSUME TypeInv, NEW w \in Waiters \cup {NoCallback}, NEW b \in BOOLEAN, Enqueue(w, b)
  PROVE  QueuedWaiters' = QueuedWaiters \cup {w}
<1> DEFINE e == [waiter |-> w, is_response |-> b]
<1>1. Range(tx') = Range(tx) \cup {e}
  BY EnqueueType DEF TypeInv
<1>2. e.waiter = w
  OBVIOUS
<1> HIDE DEF e
<1> QED
  BY <1>1, <1>2 DEF QueuedWaiters

\* The reader forgets the callback it calls and no other.
LEMMA ResponseCallbacks ==
  ASSUME TypeInv, ReaderTakesResponse
  PROVE  /\ DOMAIN seq_to_callback' = DOMAIN seq_to_callback \ {Head(fromPeer).seq}
         /\ \A s \in DOMAIN seq_to_callback' : seq_to_callback'[s] = seq_to_callback[s]
         /\ Registered' \subseteq Registered
         /\ \A c \in Registered \ Registered' :
              /\ Head(fromPeer).seq \in DOMAIN seq_to_callback
              /\ c = seq_to_callback[Head(fromPeer).seq]
<1>1. /\ DOMAIN seq_to_callback' = DOMAIN seq_to_callback \ {Head(fromPeer).seq}
      /\ \A s \in DOMAIN seq_to_callback' : seq_to_callback'[s] = seq_to_callback[s]
  BY DEF ReaderTakesResponse, Restrict
<1> QED
  BY <1>1 DEF Registered, Range

LEMMA ReachableStep ==
  ASSUME TypeInv, WaitingCallIsReachable, [Next]_vars
  PROVE  WaitingCallIsReachable'
<1> USE DEF WaitingCallIsReachable, stateVars, sendVars, pingVars
<1>a. calls \in [Calls -> {"idle", "sending", "waiting", "answered", "unavailable", "dropped"}]
  BY DEF TypeInv, TypeOK
<1>b. UNCHANGED seq_to_callback => Registered' = Registered
  BY DEF Registered
<1>c. UNCHANGED tx => QueuedWaiters' = QueuedWaiters
  BY DEF QueuedWaiters
<1>1. ASSUME NEW c \in Calls, Begin(c) \/ Drop(c)
      PROVE  WaitingCallIsReachable'
  BY <1>1, <1>a, <1>b, <1>c DEF Begin, Drop
<1>2. ASSUME NEW c \in Calls, EnqueueCall(c)
      PROVE  WaitingCallIsReachable'
  <2>1. QueuedWaiters' = QueuedWaiters \cup {c}
    BY <1>2, EnqueueQueue DEF EnqueueCall
  <2> QED
    BY <1>2, <1>a, <1>b, <2>1 DEF EnqueueCall
<1>3. CASE SenderRegisters
  <2>1. QueuedWaiters \cup Registered
          \subseteq QueuedWaiters' \cup Registered' \cup {NoCallback}
    BY <1>3, RegisterQueue
  <2> QED
    BY <1>3, <2>1 DEF SenderRegisters
<1>4. ASSUME DrainCallbacks, UNCHANGED tx
      PROVE  WaitingCallIsReachable'
  BY <1>4, <1>a, <1>c DEF DrainCallbacks
<1>5. CASE PingEnqueue
  <2>1. key \in Waiters
    BY SMTT(40), <1>5 DEF TypeInv, TypeOK, HeartbeatsNumbered, PingEnqueue
  <2>2. QueuedWaiters' = QueuedWaiters \cup {key}
    BY <1>5, <2>1, EnqueueQueue DEF PingEnqueue
  <2> QED
    BY <1>5, <1>b, <2>2 DEF PingEnqueue
<1>6. ASSUME NEW b \in BOOLEAN, Enqueue(NoCallback, b), UNCHANGED <<calls, seq_to_callback>>
      PROVE  WaitingCallIsReachable'
  BY <1>6, <1>b, EnqueueQueue
<1>7. CASE ReaderTakesResponse
  <2>1. ASSUME NEW c \in Calls, calls'[c] = "waiting"
        PROVE  c \in QueuedWaiters' \cup Registered'
    <3>1. calls[c] = "waiting"
      BY <1>7, <1>a, <2>1 DEF ReaderTakesResponse
    <3>2. c \in Registered \ Registered' => calls'[c] = "answered"
      BY <1>7, <3>1, ResponseCallbacks DEF ReaderTakesResponse
    <3> QED
      BY <1>7, <1>c, <2>1, <3>1, <3>2 DEF ReaderTakesResponse
  <2> QED
    BY <2>1
<1>8. CASE UNCHANGED <<calls, tx, seq_to_callback>>
  BY <1>8, <1>b, <1>c
<1>9. CASE Sender
  BY <1>3, <1>4, <1>8, <1>9 DEF Sender, SenderChecks, SenderWrites, SenderDrains
<1>10. CASE Pinger
  BY <1>5, <1>8, <1>10 DEF Pinger, PingLoop, PingStarts
<1>11. ASSUME NEW k \in Pings, Timer(k)
       PROVE  WaitingCallIsReachable'
  BY <1>4, <1>8, <1>11 DEF Timer, TimerFires, TimerMarksDead, TimerDrains
<1>12. CASE AnnounceEnqueue \/ AnswerEnqueue
  BY <1>6, <1>12 DEF AnnounceEnqueue, AnswerEnqueue
<1>13. CASE Reader
  BY <1>6, <1>7, <1>8, <1>13
  DEF Reader, ReaderTakes, ReaderTakesPing, PongEnqueue, ReaderTakesRequest, ReaderEnds
<1>14. CASE Peer \/ UNCHANGED vars
  BY <1>8, <1>14 DEF Peer, PeerReads, PeerAnswers, PeerSends, Freeze, Kill, vars
<1> QED
  BY <1>1, <1>2, <1>9, <1>10, <1>11, <1>12, <1>13, <1>14 DEF Next, Caller

(***************************************************************************)
(* Requests and responses on their way                                     *)
(***************************************************************************)
\* A message in flight after a step carries nobody's callback, or was already
\* in flight, perhaps as the request that is now answered.
Carried(f) == \/ f.waiter = NoCallback
              \/ \E g \in InFlight : f.seq = g.seq /\ f.waiter = g.waiter

\* Every step except registration only moves messages along, or loses them.
LEMMA InFlightStep ==
  ASSUME TypeInv, [Next]_vars, ~SenderRegisters
  PROVE  \A f \in InFlight' : Carried(f)
<1> USE DEF Carried, stateVars, sendVars, pingVars, readVars, peerVars, wireVars
<1>a. toPeer \in Seq(Sent) /\ fromPeer \in Seq(Received) /\ inHand \in Sent
  BY DEF TypeInv, TypeOK
<1>b. NoMessage.waiter = NoCallback
  BY DEF NoMessage
<1>c. ASSUME Range(toPeer') \subseteq Range(toPeer) \cup {inHand}, UNCHANGED <<fromPeer, handling>>,
             inHand' \in {inHand, NoMessage}
      PROVE  \A f \in InFlight' : Carried(f)
  <2>1. Range(fromPeer') = Range(fromPeer)
    BY <1>c
  <2> QED
    BY <1>b, <1>c, <2>1 DEF InFlight
<1>d. ASSUME Range(fromPeer') \subseteq Range(fromPeer), UNCHANGED <<toPeer, handling, inHand>>
      PROVE  \A f \in InFlight' : Carried(f)
  <2>1. Range(toPeer') = Range(toPeer)
    BY <1>d
  <2> QED
    BY <1>d, <2>1 DEF InFlight
<1>1. CASE SenderWrites
  <2>1. toPeer' = toPeer \/ toPeer' = Append(toPeer, inHand)
    BY <1>1 DEF SenderWrites
  <2>2. Range(toPeer') \subseteq Range(toPeer) \cup {inHand}
    BY <1>a, <2>1, RangeAppend
  <2> QED
    BY <1>1, <1>c, <2>2 DEF SenderWrites
<1>2. CASE SenderDrains
  BY <1>2, <1>c DEF SenderDrains
<1>3. CASE ReaderTakes
  <2>1. Range(fromPeer') \subseteq Range(fromPeer)
    <3>1. fromPeer # <<>> /\ fromPeer' = Tail(fromPeer)
      BY <1>3 DEF ReaderTakes, ReaderTakesResponse, ReaderTakesPing, ReaderTakesRequest
    <3> QED
      BY <1>a, <3>1, RangeTail
  <2>2. UNCHANGED <<toPeer, handling, inHand>>
    BY <1>3 DEF ReaderTakes, ReaderTakesResponse, ReaderTakesPing, ReaderTakesRequest
  <2> QED
    BY <1>d, <2>1, <2>2
<1>4. CASE PeerReads
  <2> DEFINE m == Head(toPeer)
             r == [kind |-> "RESPONSE", seq |-> m.seq, waiter |-> m.waiter]
             h == [seq |-> m.seq, waiter |-> m.waiter]
  <2>1. m \in Range(toPeer) /\ Range(toPeer') \subseteq Range(toPeer) /\ m \in Sent
    BY <1>4, <1>a, RangeTail DEF PeerReads
  <2>2. m.seq \in Nat /\ m.waiter \in Waiters \cup {NoCallback}
    BY <2>1 DEF Sent
  <2>3. r \in Received
    BY <2>2 DEF Received
  <2>4. fromPeer' = fromPeer \/ fromPeer' = Append(fromPeer, r)
    BY <1>4 DEF PeerReads
  <2>5. Range(fromPeer') \subseteq Range(fromPeer) \cup {r}
    BY ZenonT(60), <1>a, <2>3, <2>4, RangeAppend
  <2>6. handling' \subseteq handling \cup {h}
    <3>1. CASE m.waiter \in Calls
      BY <1>4, <3>1 DEF PeerReads
    <3>2. CASE m.waiter \notin Calls
      BY <1>4, <3>2 DEF PeerReads
    <3> QED
      BY <3>1, <3>2
  <2>7. r.seq = m.seq /\ r.waiter = m.waiter /\ h.seq = m.seq /\ h.waiter = m.waiter
    OBVIOUS
  <2> HIDE DEF m, r, h
  <2> QED
    BY <1>4, <2>1, <2>5, <2>6, <2>7 DEF InFlight, PeerReads
<1>5. CASE PeerAnswers
  <2>1. PICK h \in handling :
          /\ handling' = handling \ {h}
          /\ fromPeer' = Append(fromPeer,
                                [kind |-> "RESPONSE", seq |-> h.seq, waiter |-> h.waiter])
    BY <1>5 DEF PeerAnswers
  <2> DEFINE r == [kind |-> "RESPONSE", seq |-> h.seq, waiter |-> h.waiter]
  <2>2. h.seq \in Nat /\ h.waiter \in Calls
    BY DEF TypeInv, TypeOK, Asked
  <2>3. r \in Received
    BY <2>2 DEF Received
  <2>4. Range(fromPeer') = Range(fromPeer) \cup {r}
    BY <1>a, <2>1, <2>3, RangeAppend
  <2>5. r.seq = h.seq /\ r.waiter = h.waiter
    OBVIOUS
  <2>6. UNCHANGED <<toPeer, inHand>>
    BY <1>5 DEF PeerAnswers
  <2> HIDE DEF r
  <2> QED
    BY <2>1, <2>4, <2>5, <2>6 DEF InFlight
<1>6. CASE PeerSends
  <2>1. PICK kind \in {"PING", "REQUEST"} :
          fromPeer' = Append(fromPeer,
                             [kind |-> kind, seq |-> inbound + 1, waiter |-> NoCallback])
    BY <1>6 DEF PeerSends
  <2> DEFINE r == [kind |-> kind, seq |-> inbound + 1, waiter |-> NoCallback]
  <2>2. r \in Received /\ r.waiter = NoCallback
    BY SMTT(40) DEF Received, TypeInv, TypeOK
  <2>3. Range(fromPeer') = Range(fromPeer) \cup {r}
    BY <1>a, <2>1, <2>2, RangeAppend
  <2>4. UNCHANGED <<toPeer, inHand, handling>>
    BY <1>6 DEF PeerSends
  <2> HIDE DEF r
  <2> QED
    BY <2>2, <2>3, <2>4 DEF InFlight
<1>7. CASE Kill
  <2>1. Range(fromPeer') \subseteq Range(fromPeer)
    BY <1>7, <1>a, RangePrefix DEF Kill
  <2>2. toPeer' = <<>> /\ handling' = {} /\ inHand' = inHand
    BY <1>7 DEF Kill
  <2>3. Range(toPeer') = {}
    BY <2>2 DEF Range
  <2> QED
    BY <2>1, <2>2, <2>3 DEF InFlight
<1>8. CASE UNCHANGED <<inHand, toPeer, fromPeer, handling>>
  BY <1>8, <1>c
<1>9. CASE Sender
  BY <1>1, <1>2, <1>8, <1>9 DEF Sender, SenderChecks
<1>10. CASE Pinger
  BY <1>8, <1>10 DEF Pinger, PingLoop, PingStarts, PingEnqueue
<1>11. ASSUME NEW k \in Pings, Timer(k)
       PROVE  \A f \in InFlight' : Carried(f)
  BY <1>8, <1>11 DEF Timer, TimerFires, TimerMarksDead, TimerDrains
<1>12. CASE AnnounceEnqueue \/ AnswerEnqueue
  BY <1>8, <1>12 DEF AnnounceEnqueue, AnswerEnqueue
<1>13. CASE Reader
  BY <1>3, <1>8, <1>13 DEF Reader, PongEnqueue, ReaderEnds
<1>14. CASE Peer \/ UNCHANGED vars
  BY <1>4, <1>5, <1>6, <1>7, <1>8, <1>14 DEF Peer, Freeze, vars
<1>15. ASSUME NEW c \in Calls, Caller(c)
       PROVE  \A f \in InFlight' : Carried(f)
  BY <1>8, <1>15 DEF Caller, Begin, EnqueueCall, Drop
<1> QED
  BY <1>9, <1>10, <1>11, <1>12, <1>13, <1>14, <1>15 DEF Next

\* Only the sender task registers callbacks; the others forget some.
LEMMA CallbacksStep ==
  ASSUME TypeInv, [Next]_vars, ~SenderRegisters
  PROVE  /\ sequence_num' = sequence_num
         /\ DOMAIN seq_to_callback' \subseteq DOMAIN seq_to_callback
         /\ \A s \in DOMAIN seq_to_callback' : seq_to_callback'[s] = seq_to_callback[s]
<1> USE DEF stateVars
<1>1. CASE ReaderTakesResponse
  BY <1>1, ResponseCallbacks DEF ReaderTakesResponse
<1>2. CASE DrainCallbacks
  BY <1>2, DrainType DEF TypeInv, DrainCallbacks
<1>3. CASE UNCHANGED <<sequence_num, seq_to_callback>>
  BY <1>3
<1>4. CASE Sender
  BY <1>2, <1>3, <1>4 DEF Sender, SenderChecks, SenderWrites, SenderDrains
<1>5. CASE Pinger
  BY <1>3, <1>5 DEF Pinger, PingLoop, PingStarts, PingEnqueue
<1>6. ASSUME NEW k \in Pings, Timer(k)
      PROVE  \/ DrainCallbacks
             \/ UNCHANGED <<sequence_num, seq_to_callback>>
  BY <1>6 DEF Timer, TimerFires, TimerMarksDead, TimerDrains
<1>7. CASE AnnounceEnqueue \/ AnswerEnqueue
  BY <1>3, <1>7 DEF AnnounceEnqueue, AnswerEnqueue
<1>8. CASE Reader
  BY <1>1, <1>3, <1>8
  DEF Reader, ReaderTakes, ReaderTakesPing, PongEnqueue, ReaderTakesRequest, ReaderEnds
<1>9. CASE Peer \/ UNCHANGED vars
  BY <1>3, <1>9 DEF Peer, PeerReads, PeerAnswers, PeerSends, Freeze, Kill, vars
<1>10. ASSUME NEW c \in Calls, Caller(c)
       PROVE  UNCHANGED <<sequence_num, seq_to_callback>>
  BY <1>10 DEF Caller, Begin, EnqueueCall, Drop
<1> QED
  BY <1>2, <1>3, <1>4, <1>5, <1>6, <1>7, <1>8, <1>9, <1>10 DEF Next

\* A number in flight was handed out, and nobody else's callback is under it.
LEMMA MatchStep ==
  ASSUME TypeInv, AnswersMatch, InFlightNumbered, [Next]_vars
  PROVE  AnswersMatch' /\ InFlightNumbered'
<1> USE DEF stateVars, sendVars, pingVars, wireVars, peerVars
<1>a. /\ sequence_num \in Nat
      /\ DOMAIN seq_to_callback \subseteq 1 .. sequence_num
  BY DEF TypeInv, TypeOK
<1>b. ASSUME NEW f \in InFlight
      PROVE  f.seq \in Nat
  <2>1. /\ toPeer \in Seq(Sent) /\ fromPeer \in Seq(Received)
        /\ inHand \in Sent /\ handling \subseteq Asked
    BY DEF TypeInv, TypeOK
  <2>2. Range(toPeer) \subseteq Sent /\ Range(fromPeer) \subseteq Received
    BY <2>1, RangeOfSeq
  <2> QED
    BY <2>1, <2>2 DEF InFlight, Sent, Received, Asked
<1>1. CASE SenderRegisters
  <2>1. InFlight' \subseteq InFlight \cup {inHand'}
    BY <1>1 DEF InFlight, SenderRegisters
  <2>2. inHand'.seq = sequence_num' /\ inHand'.waiter = Head(tx).waiter
        /\ sequence_num' \in Nat /\ sequence_num <= sequence_num'
    BY <1>1, RegisterType DEF TypeInv
  <2>3. InFlightNumbered'
    BY <1>a, <1>b, <2>1, <2>2 DEF InFlightNumbered
  <2>4. ASSUME NEW f \in InFlight', f.waiter # NoCallback, f.seq \in DOMAIN seq_to_callback'
        PROVE  seq_to_callback'[f.seq] = f.waiter
    <3>1. CASE f = inHand'
      BY <1>1, <2>2, <2>4, <3>1, RegisterCallbacks
    <3>2. CASE f # inHand'
      <4>1. f \in InFlight /\ f.seq <= sequence_num /\ f.seq \in Nat
        BY <1>b, <2>1, <2>4, <3>2 DEF InFlightNumbered
      <4>2. f.seq \in DOMAIN seq_to_callback
        BY <1>1, <1>a, <2>4, <4>1, RegisterCallbacks
      <4> QED
        BY <1>1, <2>4, <4>1, <4>2, RegisterCallbacks DEF AnswersMatch
    <3> QED
      BY <3>1, <3>2
  <2> QED
    BY <2>3, <2>4 DEF AnswersMatch
<1>2. CASE ~SenderRegisters
  <2>1. \A f \in InFlight' : Carried(f)
    BY <1>2, InFlightStep
  <2>2. /\ sequence_num' = sequence_num
        /\ DOMAIN seq_to_callback' \subseteq DOMAIN seq_to_callback
        /\ \A s \in DOMAIN seq_to_callback' : seq_to_callback'[s] = seq_to_callback[s]
    BY <1>2, CallbacksStep
  <2> QED
    BY <2>1, <2>2 DEF AnswersMatch, InFlightNumbered, Carried
<1> QED
  BY <1>1, <1>2

\* A response from the peer to a call means that the peer has executed it.
LEMMA ExecutedStep ==
  ASSUME TypeInv, AnsweredWasExecuted, [Next]_vars
  PROVE  AnsweredWasExecuted'
<1> USE DEF AnsweredWasExecuted, peerVars, wireVars
<1>a. fromPeer \in Seq(Received) /\ toPeer \in Seq(Sent)
  BY DEF TypeInv, TypeOK
<1>1. ASSUME Range(fromPeer') \subseteq Range(fromPeer), executed' = executed
      PROVE  AnsweredWasExecuted'
  BY <1>1
<1>2. CASE ReaderTakes
  <2>1. fromPeer # <<>> /\ fromPeer' = Tail(fromPeer) /\ executed' = executed
    BY <1>2 DEF ReaderTakes, ReaderTakesResponse, ReaderTakesPing, ReaderTakesRequest
  <2> QED
    BY <1>a, <1>1, <2>1, RangeTail
<1>3. CASE PeerReads
  <2> DEFINE r == [kind |-> "RESPONSE", seq |-> Head(toPeer).seq, waiter |-> Head(toPeer).waiter]
  <2>1. Head(toPeer) \in Sent
    BY <1>3, <1>a, RangeTail DEF PeerReads
  <2>2. r \in Received /\ r.waiter = Head(toPeer).waiter
    BY <2>1 DEF Sent, Received
  <2>3. CASE Head(toPeer).waiter \in Pings
    <3>1. fromPeer' = Append(fromPeer, r)
      BY <1>3, <2>3 DEF PeerReads
    <3>2. Range(fromPeer') = Range(fromPeer) \cup {r}
      BY <1>a, <2>2, <3>1, RangeAppend
    <3>3. r.waiter \in Pings
      BY <2>2, <2>3
    <3> HIDE DEF r
    <3> QED
      BY <1>3, <3>2, <3>3 DEF PeerReads
  <2>4. CASE Head(toPeer).waiter \notin Pings
    BY <1>1, <1>3, <2>4 DEF PeerReads
  <2> QED
    BY <2>3, <2>4
<1>4. CASE PeerAnswers
  <2>1. PICK h \in handling :
          /\ executed' = executed \cup {h.waiter}
          /\ fromPeer' = Append(fromPeer,
                                [kind |-> "RESPONSE", seq |-> h.seq, waiter |-> h.waiter])
    BY <1>4 DEF PeerAnswers
  <2> DEFINE r == [kind |-> "RESPONSE", seq |-> h.seq, waiter |-> h.waiter]
  <2>2. h.seq \in Nat /\ h.waiter \in Calls
    BY DEF TypeInv, TypeOK, Asked
  <2>3. r \in Received /\ r.waiter = h.waiter
    BY <2>2 DEF Received
  <2>4. Range(fromPeer') = Range(fromPeer) \cup {r}
    BY <1>a, <2>1, <2>3, RangeAppend
  <2> HIDE DEF r
  <2> QED
    BY <2>1, <2>3, <2>4
<1>5. CASE PeerSends
  <2>1. PICK kind \in {"PING", "REQUEST"} :
          fromPeer' = Append(fromPeer,
                             [kind |-> kind, seq |-> inbound + 1, waiter |-> NoCallback])
    BY <1>5 DEF PeerSends
  <2> DEFINE r == [kind |-> kind, seq |-> inbound + 1, waiter |-> NoCallback]
  <2>2. r \in Received /\ r.kind # "RESPONSE"
    BY SMTT(40) DEF Received, TypeInv, TypeOK
  <2>3. Range(fromPeer') = Range(fromPeer) \cup {r}
    BY <1>a, <2>1, <2>2, RangeAppend
  <2> HIDE DEF r
  <2> QED
    BY <1>5, <2>2, <2>3 DEF PeerSends
<1>6. CASE Kill
  <2>1. PICK n \in 0 .. Len(fromPeer) : fromPeer' = SubSeq(fromPeer, 1, n)
    BY <1>6 DEF Kill
  <2>2. executed' = executed
    BY <1>6 DEF Kill
  <2> QED
    BY <1>a, <1>1, <2>1, <2>2, RangePrefix
<1>7. CASE UNCHANGED <<fromPeer, executed>>
  BY <1>7
<1> QED
  BY <1>2, <1>3, <1>4, <1>5, <1>6, <1>7
  DEF Next, Caller, Begin, EnqueueCall, Drop, Sender, SenderRegisters, SenderChecks,
      SenderWrites, SenderDrains, Pinger, PingLoop, PingStarts, PingEnqueue, Timer,
      TimerFires, TimerMarksDead, TimerDrains, AnnounceEnqueue, Reader, PongEnqueue,
      AnswerEnqueue, ReaderEnds, Peer, Freeze, vars

SentWaiters == QueuedWaiters \cup Registered \cup {f.waiter : f \in InFlight}

LEMMA IdleStep ==
  ASSUME TypeInv, NothingSentForIdle, [Next]_vars
  PROVE  NothingSentForIdle'
<1> USE DEF stateVars, sendVars, pingVars
<1>a. calls \in [Calls -> {"idle", "sending", "waiting", "answered", "unavailable", "dropped"}]
  BY DEF TypeInv, TypeOK
<1>1. ASSUME NEW c \in Calls, calls'[c] = "idle"
      PROVE  calls[c] = "idle"
  BY <1>1, <1>a
  DEF Next, Caller, Begin, EnqueueCall, Drop, Sender, SenderRegisters, SenderChecks,
      SenderWrites, SenderDrains, DrainCallbacks, Pinger, PingLoop, PingStarts,
      PingEnqueue, Timer, TimerFires, TimerMarksDead, TimerDrains, AnnounceEnqueue,
      ReaderTakes, Reader, ReaderTakesResponse, ReaderTakesPing, PongEnqueue,
      ReaderTakesRequest, AnswerEnqueue, ReaderEnds, Peer, PeerReads, PeerAnswers,
      PeerSends, Freeze, Kill, vars
<1>2. \A w \in QueuedWaiters' :
        \/ w \in QueuedWaiters \cup Pings \cup {NoCallback}
        \/ w \in Calls /\ calls'[w] = "waiting"
  <2>1. CASE SenderRegisters
    BY <2>1, RegisterQueue
  <2>2. ASSUME NEW c \in Calls, EnqueueCall(c)
        PROVE  QueuedWaiters' = QueuedWaiters \cup {c} /\ calls'[c] = "waiting"
    BY <2>2, <1>a, EnqueueQueue DEF EnqueueCall
  <2>3. CASE PingEnqueue
    <3>1. key \in Pings
      BY SMTT(40), <2>3 DEF TypeInv, TypeOK, HeartbeatsNumbered, PingEnqueue
    <3>2. QueuedWaiters' = QueuedWaiters \cup {key}
      BY <2>3, <3>1, EnqueueQueue DEF PingEnqueue
    <3> QED
      BY <3>1, <3>2
  <2>4. CASE AnnounceEnqueue \/ AnswerEnqueue \/ PongEnqueue
    BY <2>4, EnqueueQueue DEF AnnounceEnqueue, AnswerEnqueue, PongEnqueue
  <2>5. CASE UNCHANGED tx
    BY <2>5 DEF QueuedWaiters
  <2>6. CASE Sender
    BY <2>1, <2>5, <2>6 DEF Sender, SenderChecks, SenderWrites, SenderDrains
  <2>7. CASE Pinger
    BY <2>3, <2>5, <2>7 DEF Pinger, PingLoop, PingStarts
  <2>8. ASSUME NEW k \in Pings, Timer(k)
        PROVE  UNCHANGED tx
    BY <2>8 DEF Timer, TimerFires, TimerMarksDead, TimerDrains
  <2>9. CASE Reader
    BY <2>4, <2>5, <2>9
    DEF Reader, ReaderTakes, ReaderTakesResponse, ReaderTakesPing, ReaderTakesRequest,
        ReaderEnds
  <2>10. CASE Peer \/ UNCHANGED vars
    BY <2>5, <2>10 DEF Peer, PeerReads, PeerAnswers, PeerSends, Freeze, Kill, vars
  <2>11. ASSUME NEW c \in Calls, Begin(c) \/ Drop(c)
         PROVE  UNCHANGED tx
    BY <2>11 DEF Begin, Drop
  <2> QED
    BY <2>2, <2>4, <2>5, <2>6, <2>7, <2>8, <2>9, <2>10, <2>11 DEF Next, Caller
<1>3. Registered' \cup {f.waiter : f \in InFlight'} \subseteq SentWaiters \cup {NoCallback}
  <2>1. CASE SenderRegisters
    <3>1. InFlight' \subseteq InFlight \cup {inHand'}
      BY <2>1 DEF InFlight, SenderRegisters, wireVars, peerVars
    <3>2. inHand'.waiter = Head(tx).waiter
      BY <2>1, RegisterType DEF TypeInv
    <3>3. Head(tx).waiter \in QueuedWaiters /\ Registered' \subseteq Registered \cup {Head(tx).waiter}
      BY <2>1, RegisterQueue
    <3> QED
      BY <3>1, <3>2, <3>3 DEF SentWaiters
  <2>2. CASE ~SenderRegisters
    <3>1. \A f \in InFlight' : Carried(f)
      BY <2>2, InFlightStep
    <3>2. Registered' \subseteq Registered
      BY <2>2, CallbacksStep DEF Registered, Range
    <3> QED
      BY <3>1, <3>2 DEF SentWaiters, Carried
  <2> QED
    BY <2>1, <2>2
<1>4. Calls \cap (Pings \cup {NoCallback}) = {}
  BY DEF PeerLinkAssumption
<1>5. ASSUME NEW c \in Calls, calls'[c] = "idle"
      PROVE  c \notin SentWaiters'
  <2>1. c \notin SentWaiters
    BY <1>1, <1>5 DEF NothingSentForIdle, SentWaiters
  <2>2. c \notin QueuedWaiters'
    BY <1>2, <1>4, <1>5, <2>1 DEF SentWaiters
  <2>3. c \notin Registered' \cup {f.waiter : f \in InFlight'}
    BY <1>3, <1>4, <2>1
  <2> QED
    BY <2>2, <2>3 DEF SentWaiters
<1> QED
  BY <1>5 DEF NothingSentForIdle, SentWaiters

(***************************************************************************)
(* The invariant                                                           *)
(***************************************************************************)
LEMMA InitInvariant == Init => IInv
<1> SUFFICES ASSUME Init PROVE IInv
  OBVIOUS
<1>1. TypeOK
  BY TypeInit
<1>2. Range(tx) = {} /\ Range(toPeer) = {} /\ Range(fromPeer) = {}
  BY DEF Init, Range
<1>3. Registered = {} /\ QueuedWaiters = {}
  BY <1>2 DEF Init, Registered, QueuedWaiters, NoneRegistered, Range
<1>4. InFlight = {NoMessage}
  BY <1>2 DEF Init, InFlight
<1>5. NoMessage.waiter = NoCallback /\ NoCallback \notin Calls
  BY DEF NoMessage, PeerLinkAssumption
<1>6. WaitingCallIsReachable /\ NoStrandedCallback /\ MissesBelowLimit
  BY DEF Init, WaitingCallIsReachable, NoStrandedCallback, MissesBelowLimit,
         PeerLinkAssumption
<1>7. AnswersMatch /\ InFlightNumbered
  BY <1>4, <1>5 DEF AnswersMatch, InFlightNumbered
<1>8. ResponsesHaveNoCallback /\ HeartbeatsNumbered /\ AnsweredWasExecuted
  BY <1>2 DEF Init, ResponsesHaveNoCallback, HeartbeatsNumbered, AnsweredWasExecuted
<1>9. DrainedOnlyWhenDead
  BY DEF Init, DrainedOnlyWhenDead
<1>10. NothingSentForIdle
  BY <1>3, <1>4, <1>5 DEF NothingSentForIdle
<1> QED
  BY <1>1, <1>6, <1>7, <1>8, <1>9, <1>10 DEF IInv

LEMMA StepInvariant == IInv /\ [Next]_vars => IInv'
<1> SUFFICES ASSUME IInv, [Next]_vars PROVE IInv'
  OBVIOUS
<1>1. TypeInv
  BY DEF IInv, TypeInv
<1>2. TypeInv'
  BY <1>1, TypeStep
<1>3. WaitingCallIsReachable'
  BY <1>1, ReachableStep DEF IInv
<1>4. NoStrandedCallback'
  BY <1>1, NoStrandedStep DEF IInv
<1>5. AnswersMatch' /\ InFlightNumbered'
  BY <1>1, MatchStep DEF IInv
<1>6. MissesBelowLimit'
  BY <1>1, MissesStep DEF IInv
<1>7. DrainedOnlyWhenDead'
  BY <1>1, DrainedStep DEF IInv
<1>8. NothingSentForIdle'
  BY <1>1, IdleStep DEF IInv
<1>9. AnsweredWasExecuted'
  BY <1>1, ExecutedStep DEF IInv
<1> QED
  BY <1>2, <1>3, <1>4, <1>5, <1>6, <1>7, <1>8, <1>9 DEF IInv, TypeInv

\* The inductive invariant holds in every reachable state.
THEOREM Invariance == Spec => []IInv
BY InitInvariant, StepInvariant, PTL DEF Spec

\* A caller that waits is never forgotten: its message is still queued or its
\* callback is still registered, whichever of the timer, the reader and the
\* sender task touched the callbacks (server_middleware.rs:213-218, 267-300, 429-434).
THEOREM CallersReachable == Spec => []WaitingCallIsReachable
<1>1. IInv => WaitingCallIsReachable
  BY DEF IInv
<1> QED
  BY <1>1, Invariance, PTL

\* No callback is left behind at a dead peer (server_middleware.rs:208-219, 284-301).
THEOREM NothingStranded == Spec => []NoStrandedCallback
<1>1. IInv => NoStrandedCallback
  BY DEF IInv
<1> QED
  BY <1>1, Invariance, PTL

\* A response never completes another request (server_middleware.rs:269-278, 426-434).
THEOREM ResponsesMatch == Spec => []AnswersMatch
<1>1. IInv => AnswersMatch
  BY DEF IInv
<1> QED
  BY <1>1, Invariance, PTL

\* The limit of missed heartbeats is never stepped over (server_middleware.rs:198-212).
THEOREM LimitNotSkipped == Spec => []MissesBelowLimit
<1>1. IInv => MissesBelowLimit
  BY DEF IInv
<1> QED
  BY <1>1, Invariance, PTL

(***************************************************************************)
(* Implementation of PeerCall                                              *)
(***************************************************************************)
\* A drain refuses the calls whose callbacks it runs, all at once.
LEMMA DrainRefuses ==
  ASSUME TypeOK, ~is_alive, DrainCallbacks, UNCHANGED executed
  PROVE  [Abstract!Next]_(Abstract!vars)
<1> DEFINE S == {c \in Calls : c \in Registered /\ calls[c] = "waiting"}
<1>1. calls \in [Calls -> {"idle", "sending", "waiting", "answered", "unavailable", "dropped"}]
  BY DEF TypeOK
<1>2. calls' = [c \in Calls |-> IF c \in S THEN "unavailable" ELSE calls[c]]
  BY DEF DrainCallbacks
<1>3. Outcome' = [c \in Calls |-> IF c \in S THEN "unavailable" ELSE Outcome[c]]
  BY <1>1, <1>2 DEF Outcome
<1>4. is_alive' = is_alive
  BY DEF DrainCallbacks
<1>5. \A c \in S : Outcome[c] = "pending"
  BY <1>1 DEF Outcome
<1>6. CASE S = {}
  <2>1. Outcome' = Outcome
    BY <1>3, <1>6 DEF Outcome
  <2> QED
    BY <1>4, <2>1 DEF Abstract!vars
<1>7. CASE S # {}
  <2>1. S \in SUBSET Calls
    OBVIOUS
  <2> HIDE DEF S
  <2>2. Abstract!Refuse(S)
    BY <1>3, <1>4, <1>5, <1>7 DEF Abstract!Refuse
  <2> QED
    BY <2>1, <2>2 DEF Abstract!Next
<1> QED
  BY <1>6, <1>7

LEMMA RefinementStep ==
  ASSUME IInv, [Next]_vars
  PROVE  [Abstract!Next]_(Abstract!vars)
<1> USE DEF stateVars, sendVars, pingVars, peerVars, wireVars
<1>a. calls \in [Calls -> {"idle", "sending", "waiting", "answered", "unavailable", "dropped"}]
  BY DEF IInv, TypeOK
<1>b. TypeOK
  BY DEF IInv
<1>s. ASSUME UNCHANGED <<calls, executed, is_alive>>
      PROVE  [Abstract!Next]_(Abstract!vars)
  BY <1>s DEF Outcome, Abstract!vars
<1>1. ASSUME NEW c \in Calls, Begin(c)
      PROVE  [Abstract!Next]_(Abstract!vars)
  <2>1. Outcome' = [Outcome EXCEPT ![c] = "pending"] /\ Outcome[c] = "idle"
    BY <1>1, <1>a DEF Begin, Outcome
  <2>2. Abstract!Request(c)
    BY <1>1, <2>1 DEF Begin, Abstract!Request
  <2> QED
    BY <2>2 DEF Abstract!Next
<1>2. ASSUME NEW c \in Calls, EnqueueCall(c)
      PROVE  [Abstract!Next]_(Abstract!vars)
  <2>1. Outcome' = Outcome
    BY <1>2, <1>a DEF EnqueueCall, Outcome
  <2> QED
    BY <1>2, <2>1 DEF EnqueueCall, Abstract!vars
<1>3. ASSUME NEW c \in Calls, Drop(c)
      PROVE  [Abstract!Next]_(Abstract!vars)
  <2>1. Outcome' = [Outcome EXCEPT ![c] = "dropped"] /\ Outcome[c] = "pending"
    BY <1>3, <1>a DEF Drop, Outcome
  <2>2. Abstract!Drop(c)
    BY <1>3, <2>1 DEF Drop, Abstract!Drop
  <2> QED
    BY <2>2 DEF Abstract!Next
<1>4. CASE SenderDrains
  <2>1. ~is_alive
    BY <1>4 DEF IInv, DrainedOnlyWhenDead, SenderDrains
  <2> QED
    BY <1>4, <1>b, <2>1, DrainRefuses DEF SenderDrains
<1>5. ASSUME NEW k \in Pings, TimerDrains(k)
      PROVE  [Abstract!Next]_(Abstract!vars)
  <2>1. ~is_alive
    BY <1>5 DEF IInv, DrainedOnlyWhenDead, TimerDrains
  <2> QED
    BY <1>5, <1>b, <2>1, DrainRefuses DEF TimerDrains
<1>6. ASSUME NEW k \in Pings, TimerMarksDead(k)
      PROVE  [Abstract!Next]_(Abstract!vars)
  <2>1. Outcome' = Outcome /\ executed' = executed /\ is_alive' = FALSE
    BY <1>6 DEF TimerMarksDead, Outcome
  <2>2. is_alive \in BOOLEAN
    BY <1>b DEF TypeOK
  <2>3. CASE is_alive
    <3>1. Abstract!Fail
      BY <2>1, <2>3 DEF Abstract!Fail
    <3> QED
      BY <3>1 DEF Abstract!Next
  <2>4. CASE ~is_alive
    BY <2>1, <2>2, <2>4 DEF Abstract!vars
  <2> QED
    BY <2>3, <2>4
<1>7. CASE ReaderTakesResponse
  <2> DEFINE r == Head(fromPeer)
             w == IF r.seq \in DOMAIN seq_to_callback
                  THEN seq_to_callback[r.seq] ELSE NoCallback
  <2>1. calls' = [c \in Calls |-> IF c = w /\ calls[c] = "waiting" THEN "answered" ELSE calls[c]]
        /\ executed' = executed /\ is_alive' = is_alive
    BY <1>7 DEF ReaderTakesResponse
  <2>2. r \in Range(fromPeer) /\ r.kind = "RESPONSE"
    BY <1>7, <1>b, RangeTail DEF ReaderTakesResponse, TypeOK
  <2>3. r.waiter \in Pings \cup executed /\ r \in InFlight
    BY <2>2 DEF IInv, AnsweredWasExecuted, InFlight
  <2>4. r.waiter # NoCallback
    BY <1>b, <2>3 DEF TypeOK, PeerLinkAssumption
  <2>5. w # NoCallback => w = r.waiter
    BY <2>3, <2>4 DEF IInv, AnswersMatch
  <2>6. w \in Calls => w \in executed
    BY <2>3, <2>5 DEF PeerLinkAssumption
  <2> HIDE DEF w
  <2>7. CASE w \in Calls /\ calls[w] = "waiting"
    <3>1. Outcome' = [Outcome EXCEPT ![w] = "answered"] /\ Outcome[w] = "pending"
      BY <1>a, <2>1, <2>7 DEF Outcome
    <3>2. Abstract!Answer(w)
      BY <2>1, <2>6, <2>7, <3>1 DEF Abstract!Answer
    <3> QED
      BY <2>7, <3>2 DEF Abstract!Next
  <2>8. CASE ~(w \in Calls /\ calls[w] = "waiting")
    <3>1. calls' = calls
      BY <1>a, <2>1, <2>8
    <3> QED
      BY <1>s, <2>1, <3>1
  <2> QED
    BY <2>7, <2>8
<1>8. CASE PeerAnswers
  <2>1. PICK h \in handling : executed' = executed \cup {h.waiter}
    BY <1>8 DEF PeerAnswers
  <2>2. Outcome' = Outcome /\ is_alive' = is_alive
    BY <1>8 DEF PeerAnswers, Outcome
  <2>3. h.waiter \in Calls
    BY <1>b DEF TypeOK, Asked
  <2>4. Outcome[h.waiter] # "idle"
    <3>1. h \in InFlight
      BY DEF InFlight
    <3>2. calls[h.waiter] # "idle"
      BY <2>3, <3>1 DEF IInv, NothingSentForIdle
    <3> QED
      BY <2>3, <3>2 DEF Outcome
  <2>5. CASE h.waiter \in executed
    BY <2>1, <2>2, <2>5 DEF Abstract!vars
  <2>6. CASE h.waiter \notin executed
    <3>1. Abstract!Execute(h.waiter)
      BY <2>1, <2>2, <2>4, <2>6 DEF Abstract!Execute
    <3> QED
      BY <2>3, <3>1 DEF Abstract!Next
  <2> QED
    BY <2>5, <2>6
<1>9. CASE Sender
  BY <1>4, <1>9, <1>s DEF Sender, SenderRegisters, SenderChecks, SenderWrites
<1>10. CASE Pinger
  BY <1>10, <1>s DEF Pinger, PingLoop, PingStarts, PingEnqueue
<1>11. ASSUME NEW k \in Pings, Timer(k)
       PROVE  [Abstract!Next]_(Abstract!vars)
  BY <1>5, <1>6, <1>11, <1>s DEF Timer, TimerFires
<1>12. CASE AnnounceEnqueue \/ AnswerEnqueue
  BY <1>12, <1>s DEF AnnounceEnqueue, AnswerEnqueue
<1>13. CASE Reader
  BY <1>7, <1>13, <1>s
  DEF Reader, ReaderTakes, ReaderTakesPing, PongEnqueue, ReaderTakesRequest, ReaderEnds
<1>14. CASE Peer \/ UNCHANGED vars
  BY <1>8, <1>14, <1>s DEF Peer, PeerReads, PeerSends, Freeze, Kill, vars
<1> QED
  BY <1>1, <1>2, <1>3, <1>9, <1>10, <1>11, <1>12, <1>13, <1>14 DEF Next, Caller

\* send_request over heartbeats, sequence numbers and one socket is a peer call:
\* answered only if executed, executed at most once, refused only by a dead peer
\* (server_middleware.rs:22-24, 152-483).
THEOREM Implements == Spec => ImplementsPeerCall
<1>1. Init => Abstract!Init
  BY DEF Init, Abstract!Init, Outcome
<1>2. IInv /\ [Next]_vars => [Abstract!Next]_(Abstract!vars)
  BY RefinementStep
<1> QED
  BY <1>1, <1>2, Invariance, PTL DEF Spec, ImplementsPeerCall, Abstract!Spec
=============================================================================
