--------------------------- MODULE PeerPairProofs ---------------------------
(***************************************************************************)
(* Each request and each response is in one place, so that what a server   *)
(* handles is waited for, and a gridlock of two servers' readers is for    *)
(* ever, however large the channels and the socket buffers are and         *)
(* whatever waits in them.                                                 *)
(***************************************************************************)
EXTENDS PeerPair, SequenceTheorems, TLAPS

(***************************************************************************)
(* A gridlock is never left                                                *)
(***************************************************************************)
\* In a gridlock nobody finds room, and nobody reads.
LEMMA NobodyMoves ==
  ASSUME Gridlock, NEW s \in Ends
  PROVE  /\ \A kind, c : ~Enqueue(s, kind, c)
         /\ ~SenderTakes(s) /\ ~SenderWrites(s)
         /\ \A kind : ~Reads(s, kind)
<1>1. Len(tx[s]) = QueueCap /\ QueueCap \in Nat
  BY PeerPairAssumption DEF Gridlock
<1>2. Len(wire[s]) = WireCap /\ WireCap \in Nat
  BY PeerPairAssumption DEF Gridlock
<1>3. writer[s] # Nothing /\ reader[s] = "pong"
  BY DEF Gridlock
<1>4. \A kind, c : ~Enqueue(s, kind, c)
  BY <1>1 DEF Enqueue
<1>5. ~SenderTakes(s) /\ ~SenderWrites(s)
  BY <1>2, <1>3 DEF SenderTakes, SenderWrites
<1>6. \A kind : ~Reads(s, kind)
  BY <1>3 DEF Reads
<1> QED
  BY <1>4, <1>5, <1>6

\* A gridlock of the two readers is never left: a caller may still begin a call, which
\* waits as well, and nothing else happens (peer_task, send_message_task).
THEOREM Permanent == Spec => GridlockStays
<1>1. ASSUME Gridlock, [Next]_vars PROVE Gridlock'
  <2>1. ASSUME NEW s \in Ends, NEW c \in Calls[s], Begin(s, c)
        PROVE  Gridlock'
    BY <1>1, <2>1 DEF Begin, Gridlock
  <2>2. ASSUME NEW s \in Ends, NEW c, EnqueueCall(s, c) \/ AnswerEnqueue(s, c)
        PROVE  FALSE
    BY <1>1, <2>2, NobodyMoves DEF EnqueueCall, AnswerEnqueue
  <2>3. ASSUME NEW s \in Ends, Sender(s) \/ PingEnqueue(s) \/ Reader(s)
        PROVE  FALSE
    BY <1>1, <2>3, NobodyMoves DEF Sender, PingEnqueue, Reader, TakesResponse, TakesPong,
       TakesPing, TakesRequest, PongEnqueue
  <2>4. CASE UNCHANGED vars
    BY <1>1, <2>4 DEF vars, Gridlock
  <2>5. CASE Next
    BY <2>5, <2>1, <2>2, <2>3 DEF Next
  <2> QED
    BY <1>1, <2>4, <2>5
<1>2. [Next]_vars => [Gridlock => Gridlock']_vars
  BY <1>1
<1> QED
  BY <1>2, PTL DEF Spec, GridlockStays

-----------------------------------------------------------------------------
(***************************************************************************)
(* What TypeOK rests on: what is handled is waited for only because a       *)
(* request, and then the response to it, is in one place at a time         *)
(***************************************************************************)
\* What waits in a connection, from the first to be read to the last that was queued.
Written(s) == IF writer[s] = Nothing THEN <<>> ELSE <<writer[s]>>
Line(s) == wire[s] \o (Written(s) \o tx[s])

Request(c) == [kind |-> "REQUEST", of |-> c]
Response(c) == [kind |-> "RESPONSE", of |-> c]

In(q, m) == \E i \in 1 .. Len(q) : q[i] = m
Once(q) ==
  \A i, j \in 1 .. Len(q) : q[i] = q[j] /\ q[i].kind \in {"REQUEST", "RESPONSE"} => i = j

Shape == /\ DOMAIN tx = Ends /\ DOMAIN writer = Ends /\ DOMAIN wire = Ends
         /\ DOMAIN reader = Ends /\ DOMAIN handling = Ends /\ DOMAIN pings = Ends

\* A request that is on its way is not handled yet, nor answered; a response that is on its
\* way is of a request that is handled no more.
Fine(s, c) ==
  /\ In(Line(s), Request(c)) =>
       /\ c \in Calls[s] /\ calls[c] = "waiting"
       /\ c \notin handling[Other(s)] /\ ~In(Line(Other(s)), Response(c))
  /\ In(Line(s), Response(c)) =>
       c \in Calls[Other(s)] /\ calls[c] = "waiting" /\ c \notin handling[s]

EachOnce == \A s \in Ends : Once(Line(s)) /\ \A c \in AllCalls : Fine(s, c)

PairInv == TypeOK /\ Shape /\ EachOnce

-----------------------------------------------------------------------------
\* A message that is queued is the last.
LEMMA AppendIn ==
  ASSUME NEW q \in Seq(Message), NEW m \in Message
  PROVE  /\ \A x : In(Append(q, m), x) <=> In(q, x) \/ x = m
         /\ Once(q) /\ (m.kind \in {"REQUEST", "RESPONSE"} => ~In(q, m)) => Once(Append(q, m))
<1> DEFINE r == Append(q, m)
<1>1. /\ Len(q) \in Nat /\ Len(r) = Len(q) + 1 /\ r[Len(q) + 1] = m
      /\ \A i \in 1 .. Len(q) : r[i] = q[i]
  BY LenProperties, AppendProperties
<1>2. /\ \A i \in 1 .. Len(r) : i \in 1 .. Len(q) \/ i = Len(q) + 1
      /\ \A i \in 1 .. Len(q) : i \in 1 .. Len(r)
      /\ Len(q) + 1 \in 1 .. Len(r)
  BY <1>1
<1> HIDE DEF r
<1>3. \A x : In(r, x) <=> In(q, x) \/ x = m
  BY <1>1, <1>2 DEF In
<1>4. ASSUME Once(q), m.kind \in {"REQUEST", "RESPONSE"} => ~In(q, m)
      PROVE  Once(r)
  BY <1>1, <1>2, <1>4 DEF In, Once
<1> QED
  BY <1>3, <1>4 DEF r

\* The first message is read, and it was there once.
LEMMA TailIn ==
  ASSUME NEW q \in Seq(Message), q # <<>>, Once(q)
  PROVE  /\ \A x : In(Tail(q), x) => In(q, x)
         /\ In(q, Head(q)) /\ Once(Tail(q))
         /\ Head(q).kind \in {"REQUEST", "RESPONSE"} => ~In(Tail(q), Head(q))
<1> DEFINE r == Tail(q)
<1>1. /\ Len(q) \in Nat /\ Len(q) >= 1 /\ Len(r) = Len(q) - 1 /\ Head(q) = q[1]
      /\ \A i \in 1 .. Len(r) : r[i] = q[i + 1]
  BY LenProperties, EmptySeq, HeadTailProperties
<1>2. /\ \A i \in 1 .. Len(r) : i + 1 \in 1 .. Len(q) /\ i + 1 # 1
      /\ 1 \in 1 .. Len(q)
      /\ \A i, j \in 1 .. Len(r) : i + 1 = j + 1 => i = j
  BY <1>1
<1> HIDE DEF r
<1>3. (\A x : In(r, x) => In(q, x)) /\ In(q, Head(q))
  BY <1>1, <1>2 DEF In
<1>4. Once(r)
  BY <1>1, <1>2 DEF Once
<1>5. Head(q).kind \in {"REQUEST", "RESPONSE"} => ~In(r, Head(q))
  BY <1>1, <1>2 DEF In, Once
<1> QED
  BY <1>3, <1>4, <1>5 DEF r

\* Lines are put together in any order.
LEMMA Associative ==
  ASSUME NEW q \in Seq(Message), NEW r \in Seq(Message), NEW t \in Seq(Message)
  PROVE  (q \o r) \o t = q \o (r \o t)
BY ConcatAssociative

LEMMA AppendLast ==
  ASSUME NEW q \in Seq(Message), NEW r \in Seq(Message), NEW t \in Seq(Message),
         NEW m \in Message
  PROVE  q \o (r \o Append(t, m)) = Append(q \o (r \o t), m)
<1> DEFINE one == <<m>>
<1>1. one \in Seq(Message)
  OBVIOUS
<1>2. r \o t \in Seq(Message) /\ q \o (r \o t) \in Seq(Message)
  BY ConcatProperties
<1>3. /\ Append(t, m) = t \o one
      /\ Append(q \o (r \o t), m) = (q \o (r \o t)) \o one
  BY <1>2, AppendIsConcat
<1> HIDE DEF one
<1>4. r \o (t \o one) = (r \o t) \o one
  BY SMTT(40), <1>1, Associative
<1>5. q \o ((r \o t) \o one) = (q \o (r \o t)) \o one
  BY ZenonT(60), <1>1, <1>2, Associative
<1> QED
  BY <1>3, <1>4, <1>5

\* The messages of a connection are messages.
LEMMA Lines ==
  ASSUME TypeOK, NEW s \in Ends
  PROVE  /\ wire[s] \in Seq(Message) /\ tx[s] \in Seq(Message) /\ Written(s) \in Seq(Message)
         /\ Written(s) \o tx[s] \in Seq(Message) /\ Line(s) \in Seq(Message)
<1>1. wire[s] \in Seq(Message) /\ tx[s] \in Seq(Message) /\ Written(s) \in Seq(Message)
  BY DEF TypeOK, Written
<1>2. Written(s) \o tx[s] \in Seq(Message)
  BY <1>1, ConcatProperties
<1> QED
  BY <1>1, <1>2, ConcatProperties DEF Line

\* What is queued is appended.
LEMMA LineQueued ==
  ASSUME TypeOK, Shape, NEW s \in Ends, NEW m \in Message,
         tx' = [tx EXCEPT ![s] = Append(@, m)], UNCHANGED <<writer, wire>>
  PROVE  /\ Line(s)' = Append(Line(s), m) /\ Line(Other(s))' = Line(Other(s))
<1>1. tx'[s] = Append(tx[s], m) /\ tx'[Other(s)] = tx[Other(s)]
  BY DEF Shape, Ends, Other
<1>2. Line(Other(s))' = Line(Other(s)) /\ Line(s)' = wire[s] \o (Written(s) \o Append(tx[s], m))
  BY <1>1 DEF Line, Written
<1>3. /\ wire[s] \in Seq(Message) /\ tx[s] \in Seq(Message) /\ Written(s) \in Seq(Message)
      /\ Written(s) \o tx[s] \in Seq(Message) /\ Line(s) \in Seq(Message)
  BY Lines
<1>4. \A q, r, t \in Seq(Message) : q \o (r \o Append(t, m)) = Append(q \o (r \o t), m)
  BY AppendLast
<1>5. wire[s] \o (Written(s) \o Append(tx[s], m)) = Append(wire[s] \o (Written(s) \o tx[s]), m)
  BY <1>3, <1>4
<1> QED
  BY <1>2, <1>5 DEF Line

\* send_message_task moves what is in the line, which stays as it is.
LEMMA LineSent ==
  ASSUME TypeOK, Shape, NEW s \in Ends, Sender(s)
  PROVE  Line(s)' = Line(s) /\ Line(Other(s))' = Line(Other(s))
<1>1. /\ wire[s] \in Seq(Message) /\ tx[s] \in Seq(Message) /\ Written(s) \in Seq(Message)
  BY Lines
<1>2. CASE SenderTakes(s)
  <2>1. /\ writer[s] = Nothing /\ tx[s] # <<>> /\ wire' = wire
        /\ writer'[s] = Head(tx[s]) /\ tx'[s] = Tail(tx[s])
        /\ writer'[Other(s)] = writer[Other(s)] /\ tx'[Other(s)] = tx[Other(s)]
    BY <1>2 DEF SenderTakes, Shape, Ends, Other
  <2>2. Head(tx[s]) \in Message /\ Tail(tx[s]) \in Seq(Message)
    BY <1>1, <2>1, HeadTailProperties
  <2>3. Head(tx[s]) # Nothing
    BY <2>2 DEF Message, Nothing
  <2>4. Written(s) = <<>> /\ Written(s)' = <<Head(tx[s])>>
    BY <2>1, <2>3 DEF Written
  <2>5. <<Head(tx[s])>> \o Tail(tx[s]) = tx[s]
    <3>1. <<Head(tx[s])>> \in Seq(Message) /\ Len(<<Head(tx[s])>>) = 1
          /\ <<Head(tx[s])>>[1] = Head(tx[s])
      BY <2>2
    <3> DEFINE q == <<Head(tx[s])>>
               r == Tail(tx[s])
    <3>2. /\ Len(tx[s]) \in Nat \ {0} /\ Len(r) = Len(tx[s]) - 1 /\ Head(tx[s]) = tx[s][1]
          /\ \A i \in 1 .. Len(r) : r[i] = tx[s][i + 1]
      BY <1>1, <2>1, EmptySeq, HeadTailProperties
    <3>3. /\ q \o r \in Seq(Message) /\ Len(q \o r) = 1 + Len(r)
          /\ \A i \in 1 .. 1 + Len(r) : (q \o r)[i] = IF i <= 1 THEN q[i] ELSE r[i - 1]
      <4> HIDE DEF q, r
      <4> QED
        BY <2>2, <3>1, ConcatProperties DEF q, r
    <3>4. Len(q \o r) = Len(tx[s])
      <4> HIDE DEF q, r
      <4> QED
        BY <3>2, <3>3
    <3>5. \A i \in 1 .. Len(q \o r) : (q \o r)[i] = tx[s][i]
      <4>1. q[1] = Head(tx[s])
        BY <3>1
      <4> HIDE DEF q, r
      <4>2. ASSUME NEW i \in 1 .. Len(q \o r) PROVE (q \o r)[i] = tx[s][i]
        <5>1. CASE i = 1
          BY <3>2, <3>3, <4>1, <5>1
        <5>2. CASE i # 1
          <6>1. i - 1 \in 1 .. Len(r) /\ (i - 1) + 1 = i /\ ~(i <= 1) /\ i \in 1 .. 1 + Len(r)
            BY <3>2, <3>3, <5>2
          <6> QED
            BY <3>2, <3>3, <6>1
        <5> QED
          BY <5>1, <5>2
      <4> QED
        BY <4>2
    <3> HIDE DEF q, r
    <3>6. q \o r = tx[s]
      BY <1>1, <3>3, <3>4, <3>5, SeqEqual
    <3> QED
      BY <3>6 DEF q, r
  <2>6. <<>> \o tx[s] = tx[s]
    BY <1>1, ConcatEmptySeq
  <2> QED
    BY <2>1, <2>4, <2>5, <2>6 DEF Line, Written
<1>3. CASE SenderWrites(s)
  <2>1. /\ writer[s] # Nothing /\ tx' = tx
        /\ writer'[s] = Nothing /\ wire'[s] = Append(wire[s], writer[s])
        /\ writer'[Other(s)] = writer[Other(s)] /\ wire'[Other(s)] = wire[Other(s)]
    BY <1>3 DEF SenderWrites, Shape, Ends, Other
  <2>2. writer[s] \in Message
    BY <2>1 DEF TypeOK
  <2>3. /\ Written(s) = <<writer[s]>> /\ Written(s)' = <<>>
        /\ <<writer[s]>> \in Seq(Message) /\ tx[s] \in Seq(Message)
    BY <1>1, <2>1, <2>2 DEF Written
  <2>4. Append(wire[s], writer[s]) = wire[s] \o <<writer[s]>>
    BY <1>1, <2>2, AppendIsConcat
  <2>5. (wire[s] \o <<writer[s]>>) \o tx[s] = wire[s] \o (<<writer[s]>> \o tx[s])
    BY <1>1, <2>3, Associative
  <2>6. <<>> \o tx[s] = tx[s]
    BY <1>1, ConcatEmptySeq
  <2> QED
    BY <2>1, <2>3, <2>4, <2>5, <2>6 DEF Line, Written
<1> QED
  BY <1>2, <1>3 DEF Sender

\* What is read is the first.
LEMMA LineRead ==
  ASSUME TypeOK, Shape, NEW s \in Ends, NEW kind, Reads(s, kind), UNCHANGED <<tx, writer>>
  PROVE  LET o == Other(s)
         IN /\ Line(o) # <<>> /\ Head(Line(o)) = Head(wire[o]) /\ Head(wire[o]) \in Message
            /\ Head(wire[o]).kind = kind /\ Head(Line(o)).kind = kind
            /\ Line(o)' = Tail(Line(o)) /\ Line(s)' = Line(s)
<1> DEFINE o == Other(s)
           rest == Written(o) \o tx[o]
<1>1. o \in Ends /\ Other(o) = s /\ o # s
  BY DEF Ends, Other
<1>2. /\ wire[o] # <<>> /\ Head(wire[o]).kind = kind
      /\ wire'[o] = Tail(wire[o]) /\ wire'[s] = wire[s]
  BY <1>1 DEF Reads, Shape
<1>3. wire[o] \in Seq(Message) /\ rest \in Seq(Message) /\ Line(o) \in Seq(Message)
  BY <1>1, Lines
<1>4. /\ Head(wire[o]) \in Message /\ Tail(wire[o]) \in Seq(Message)
      /\ Len(wire[o]) \in Nat \ {0} /\ Len(Tail(wire[o])) = Len(wire[o]) - 1
      /\ \A i \in 1 .. Len(Tail(wire[o])) : Tail(wire[o])[i] = wire[o][i + 1]
      /\ Head(wire[o]) = wire[o][1] /\ Len(rest) \in Nat
  BY <1>2, <1>3, EmptySeq, HeadTailProperties, LenProperties
<1>5. /\ Line(o) = wire[o] \o rest
      /\ Line(o)' = Tail(wire[o]) \o rest /\ Line(s)' = Line(s)
  BY <1>2 DEF Line, Written
<1> HIDE DEF rest, o
<1>6. /\ Len(Line(o)) = Len(wire[o]) + Len(rest)
      /\ \A i \in 1 .. Len(wire[o]) + Len(rest) : Line(o)[i] =
           IF i <= Len(wire[o]) THEN wire[o][i] ELSE rest[i - Len(wire[o])]
  BY <1>3, <1>5, ConcatProperties
<1>7. Line(o) # <<>> /\ Line(o)[1] = wire[o][1] /\ Head(Line(o)) = Line(o)[1]
  <2>1. Len(Line(o)) # 0 /\ 1 \in 1 .. Len(wire[o]) + Len(rest) /\ 1 <= Len(wire[o])
    BY <1>4, <1>6
  <2>2. Line(o) # <<>>
    BY <2>1, EmptySeq
  <2> QED
    BY <1>6, <2>1, <2>2
<1>8. Tail(wire[o]) \o rest = Tail(Line(o))
  <2> DEFINE l == Tail(wire[o]) \o rest
             t == Tail(Line(o))
             k == Len(Tail(wire[o]))
  <2>1. /\ l \in Seq(Message) /\ Len(l) = k + Len(rest) /\ k \in Nat /\ k + 1 = Len(wire[o])
        /\ \A i \in 1 .. k + Len(rest) : l[i] =
             IF i <= k THEN Tail(wire[o])[i] ELSE rest[i - k]
    BY <1>3, <1>4, ConcatProperties
  <2>2. /\ t \in Seq(Message) /\ Len(t) = Len(Line(o)) - 1
        /\ \A i \in 1 .. Len(t) : t[i] = Line(o)[i + 1]
    BY <1>3, <1>7, HeadTailProperties
  <2>3. Len(l) = Len(t)
    <3>1. /\ Len(l) = k + Len(rest) /\ k \in Nat /\ k + 1 = Len(wire[o]) /\ Len(rest) \in Nat
          /\ Len(Line(o)) = Len(wire[o]) + Len(rest) /\ Len(t) = Len(Line(o)) - 1
      BY <1>4, <1>6, <2>1, <2>2
    <3> HIDE DEF l, t, k
    <3> QED
      BY <3>1
  <2>4. ASSUME NEW i \in 1 .. Len(l) PROVE l[i] = t[i]
    <3> HIDE DEF l, t
    <3>1. /\ i \in 1 .. k + Len(rest) /\ i \in 1 .. Len(t)
          /\ i + 1 \in 1 .. Len(wire[o]) + Len(rest)
          /\ i <= k <=> i + 1 <= Len(wire[o])
          /\ i <= k => i \in 1 .. k
          /\ i - k = (i + 1) - Len(wire[o])
      <4>1. /\ Len(l) = k + Len(rest) /\ k \in Nat /\ k + 1 = Len(wire[o])
            /\ Len(rest) \in Nat /\ Len(l) = Len(t)
        BY <1>4, <2>1, <2>3
      <4> HIDE DEF k
      <4> QED
        BY <4>1
    <3> QED
      BY <1>4, <1>6, <2>1, <2>2, <3>1
  <2> HIDE DEF l, t, k
  <2>5. l = t
    BY <2>1, <2>2, <2>3, <2>4, SeqEqual
  <2> QED
    BY <2>5 DEF l, t
<1>9. o = Other(s)
  BY DEF o
<1> QED
  BY <1>2, <1>4, <1>5, <1>7, <1>8, <1>9

-----------------------------------------------------------------------------
\* Requests and responses are told apart by the call they are of.
LEMMA Kinds ==
  /\ \A c, d : /\ Request(c) # Response(d)
               /\ Request(c) = Request(d) => c = d
               /\ Response(c) = Response(d) => c = d
  /\ \A c \in AllCalls : Request(c) \in Message /\ Response(c) \in Message
  /\ \A m \in Message : /\ m.kind = "REQUEST" => m.of \in AllCalls /\ m = Request(m.of)
                        /\ m.kind = "RESPONSE" => m.of \in AllCalls /\ m = Response(m.of)
                        /\ m.kind \in {"PING", "PONG"} =>
                             \A c : m # Request(c) /\ m # Response(c)
  /\ \A c : Request(c).kind = "REQUEST" /\ Response(c).kind = "RESPONSE"
BY DEF Request, Response, Message

\* The calls of the two ends.
LEMMA Callers ==
  /\ \A s \in Ends : /\ Other(s) \in Ends /\ Other(s) # s /\ Other(Other(s)) = s
                     /\ Calls[s] \subseteq AllCalls
                     /\ Calls[s] \cap Calls[Other(s)] = {}
                     /\ \A x \in Ends : x = s \/ x = Other(s)
BY PeerPairAssumption DEF Ends, Other, AllCalls

LEMMA PairInit == Init => PairInv
<1> SUFFICES ASSUME Init PROVE PairInv
  OBVIOUS
<1>1. TypeOK /\ Shape
  <2>1. <<>> \in Seq(Message) /\ Len(<<>>) = 0
    BY EmptySeq
  <2> QED
    BY <2>1, PeerPairAssumption DEF Init, TypeOK, Shape
<1>2. ASSUME NEW s \in Ends PROVE Line(s) = <<>> /\ Len(Line(s)) = 0
  <2>1. /\ wire[s] = <<>> /\ tx[s] = <<>> /\ Written(s) = <<>>
    BY <1>2 DEF Init, Written
  <2>2. <<>> \in Seq(Message) /\ Len(<<>>) = 0 /\ <<>> \o <<>> = <<>>
    BY EmptySeq, ConcatEmptySeq
  <2> QED
    BY <2>1, <2>2 DEF Line
<1>3. EachOnce
  BY <1>2 DEF EachOnce, Once, Fine, In
<1> QED
  BY <1>1, <1>3 DEF PairInv

\* A message is queued: a request that waits from now on, a response to what is handled, or
\* a heartbeat.
LEMMA QueuedOnce ==
  ASSUME PairInv, NEW s \in Ends, NEW m \in Message,
         tx' = [tx EXCEPT ![s] = Append(@, m)], UNCHANGED <<writer, wire>>,
         \/ \E c \in Calls[s] : /\ m = Request(c) /\ calls[c] = "sending"
                                /\ calls' = [calls EXCEPT ![c] = "waiting"]
                                /\ handling' = handling
         \/ \E c \in handling[s] : /\ m = Response(c) /\ calls' = calls
                                   /\ handling' = [handling EXCEPT ![s] = @ \ {c}]
         \/ m.kind \in {"PING", "PONG"} /\ UNCHANGED <<calls, handling>>
  PROVE  EachOnce'
<1> DEFINE o == Other(s)
<1>1. /\ Line(s)' = Append(Line(s), m) /\ Line(o)' = Line(o)
      /\ Line(s) \in Seq(Message)
  BY LineQueued, Lines DEF PairInv
<1>2. /\ o \in Ends /\ o # s /\ Other(o) = s /\ \A x \in Ends : x = s \/ x = o
      /\ Calls[s] \subseteq AllCalls /\ Calls[s] \cap Calls[o] = {}
  BY Callers
<1>3. /\ Once(Line(s)) /\ Once(Line(o))
      /\ \A c \in AllCalls : Fine(s, c) /\ Fine(o, c)
  BY <1>2 DEF PairInv, EachOnce
<1>4. /\ DOMAIN calls = AllCalls /\ DOMAIN handling = Ends
      /\ \A x \in Ends : handling[x] \subseteq {c \in Calls[Other(x)] : calls[c] = "waiting"}
  BY DEF PairInv, TypeOK, Shape
<1>5. /\ \A x : In(Append(Line(s), m), x) <=> In(Line(s), x) \/ x = m
      /\ (m.kind \in {"REQUEST", "RESPONSE"} => ~In(Line(s), m)) => Once(Append(Line(s), m))
  BY <1>1, <1>3, AppendIn
<1>6. \A c \in AllCalls :
        /\ Fine(s, c)' <=>
             /\ In(Append(Line(s), m), Request(c)) =>
                  /\ c \in Calls[s] /\ calls'[c] = "waiting"
                  /\ c \notin handling'[o] /\ ~In(Line(o), Response(c))
             /\ In(Append(Line(s), m), Response(c)) =>
                  c \in Calls[o] /\ calls'[c] = "waiting" /\ c \notin handling'[s]
        /\ Fine(o, c)' <=>
             /\ In(Line(o), Request(c)) =>
                  /\ c \in Calls[o] /\ calls'[c] = "waiting"
                  /\ c \notin handling'[s] /\ ~In(Append(Line(s), m), Response(c))
             /\ In(Line(o), Response(c)) =>
                  c \in Calls[s] /\ calls'[c] = "waiting" /\ c \notin handling'[o]
  BY <1>1, <1>2 DEF Fine
<1>7. /\ Once(Line(s))' <=> Once(Append(Line(s), m))
      /\ Once(Line(o))' <=> Once(Line(o))
  BY <1>1 DEF Once
<1> HIDE DEF o
<1>8. \A c \in AllCalls :
        /\ In(Line(s), Request(c)) =>
             /\ c \in Calls[s] /\ calls[c] = "waiting"
             /\ c \notin handling[o] /\ ~In(Line(o), Response(c))
        /\ In(Line(s), Response(c)) => c \in Calls[o] /\ calls[c] = "waiting" /\ c \notin handling[s]
        /\ In(Line(o), Request(c)) =>
             /\ c \in Calls[o] /\ calls[c] = "waiting"
             /\ c \notin handling[s] /\ ~In(Line(s), Response(c))
        /\ In(Line(o), Response(c)) => c \in Calls[s] /\ calls[c] = "waiting" /\ c \notin handling[o]
  BY <1>2, <1>3 DEF Fine, o
<1>9. /\ m.kind \in {"REQUEST", "RESPONSE"} => ~In(Line(s), m)
      /\ \A c \in AllCalls : (Fine(s, c) /\ Fine(o, c))'
  <2>1. CASE \E c \in Calls[s] : /\ m = Request(c) /\ calls[c] = "sending"
                                /\ calls' = [calls EXCEPT ![c] = "waiting"]
                                /\ handling' = handling
    <3>1. PICK c \in Calls[s] : /\ m = Request(c) /\ calls[c] = "sending"
                               /\ calls' = [calls EXCEPT ![c] = "waiting"]
                               /\ handling' = handling
      BY <2>1
    <3>2. /\ ~In(Line(s), Request(c)) /\ ~In(Line(o), Request(c))
          /\ ~In(Line(s), Response(c)) /\ ~In(Line(o), Response(c))
          /\ c \notin handling[s] /\ c \notin handling[o]
      BY <1>2, <1>3, <1>4, <3>1 DEF Fine
    <3>3. \A d \in AllCalls : In(Append(Line(s), m), Response(d)) <=> In(Line(s), Response(d))
      BY <1>5, <3>1, Kinds
    <3>4. \A d \in AllCalls : In(Append(Line(s), m), Request(d)) <=> In(Line(s), Request(d)) \/ d = c
      BY <1>5, <3>1, Kinds
    <3>5. ASSUME NEW d \in AllCalls PROVE (Fine(s, d) /\ Fine(o, d))'
      <4>1. calls'[d] = IF d = c THEN "waiting" ELSE calls[d]
        BY <1>4, <3>1
      <4> QED
        BY <1>2, <1>6, <1>8, <3>1, <3>2, <3>3, <3>4, <4>1
    <3> QED
      BY <3>1, <3>2, <3>5
  <2>2. CASE \E c \in handling[s] : /\ m = Response(c) /\ calls' = calls
                                   /\ handling' = [handling EXCEPT ![s] = @ \ {c}]
    <3>1. PICK c \in handling[s] : /\ m = Response(c) /\ calls' = calls
                                  /\ handling' = [handling EXCEPT ![s] = @ \ {c}]
      BY <2>2
    <3>2. /\ c \in Calls[o] /\ calls[c] = "waiting" /\ c \in AllCalls /\ c \notin Calls[s]
          /\ handling'[s] = handling[s] \ {c} /\ handling'[o] = handling[o]
      BY <1>2, <1>4, <3>1, Callers
    <3>3. ~In(Line(s), Response(c)) /\ ~In(Line(o), Request(c))
      BY <1>2, <1>3, <3>1, <3>2 DEF Fine
    <3>4. \A d \in AllCalls : In(Append(Line(s), m), Request(d)) <=> In(Line(s), Request(d))
      BY <1>5, <3>1, Kinds
    <3>5. \A d \in AllCalls : In(Append(Line(s), m), Response(d)) <=> In(Line(s), Response(d)) \/ d = c
      BY <1>5, <3>1, Kinds
    <3>6. ASSUME NEW d \in AllCalls PROVE (Fine(s, d) /\ Fine(o, d))'
      BY <1>2, <1>6, <1>8, <3>1, <3>2, <3>3, <3>4, <3>5
    <3> QED
      BY <3>1, <3>3, <3>6
  <2>3. CASE m.kind \in {"PING", "PONG"} /\ UNCHANGED <<calls, handling>>
    <3>1. \A d : m # Request(d) /\ m # Response(d)
      BY <2>3, Kinds
    <3>2. \A d \in AllCalls :
            /\ In(Append(Line(s), m), Request(d)) <=> In(Line(s), Request(d))
            /\ In(Append(Line(s), m), Response(d)) <=> In(Line(s), Response(d))
      BY <1>5, <3>1
    <3>3. calls' = calls /\ handling' = handling
      BY <2>3
    <3>4. ASSUME NEW d \in AllCalls PROVE (Fine(s, d) /\ Fine(o, d))'
      BY <1>2, <1>6, <1>8, <3>2, <3>3
    <3> QED
      BY <2>3, <3>4
  <2> QED
    BY <2>1, <2>2, <2>3
<1> QED
  BY <1>2, <1>3, <1>5, <1>7, <1>9 DEF EachOnce

\* A message is read: a request is handled from then on, a response ends its call.
LEMMA ReadOnce ==
  ASSUME PairInv, NEW s \in Ends, NEW m, m = Head(wire[Other(s)]),
         NEW kind \in {"REQUEST", "RESPONSE", "PING", "PONG"}, Reads(s, kind),
         UNCHANGED <<tx, writer>>,
         calls' = IF kind = "RESPONSE" THEN [calls EXCEPT ![m.of] = "answered"] ELSE calls,
         handling' = IF kind = "REQUEST" THEN [handling EXCEPT ![s] = @ \cup {m.of}]
                     ELSE handling
  PROVE  EachOnce' /\ (kind = "REQUEST" => m.of \in Calls[Other(s)] /\ calls[m.of] = "waiting")
                   /\ (kind = "RESPONSE" => /\ m.of \in AllCalls
                                            /\ \A x \in Ends : m.of \notin handling[x])
<1> DEFINE o == Other(s)
           q == Line(o)
<1>1. /\ o \in Ends /\ o # s /\ Other(o) = s /\ \A x \in Ends : x = s \/ x = o
      /\ Calls[s] \subseteq AllCalls /\ Calls[o] \subseteq AllCalls
      /\ Calls[s] \cap Calls[o] = {}
  BY Callers
<1>2. /\ q # <<>> /\ Head(q) = m /\ m \in Message /\ m.kind = kind
      /\ q' = Tail(q) /\ Line(s)' = Line(s) /\ q \in Seq(Message)
  BY <1>1, LineRead, Lines DEF PairInv
<1>3. /\ Once(Line(s)) /\ Once(q)
      /\ \A c \in AllCalls : Fine(s, c) /\ Fine(o, c)
  BY <1>1 DEF PairInv, EachOnce
<1>4. /\ DOMAIN calls = AllCalls /\ DOMAIN handling = Ends
      /\ \A x \in Ends : handling[x] \subseteq {c \in Calls[Other(x)] : calls[c] = "waiting"}
  BY DEF PairInv, TypeOK, Shape
<1>5. /\ \A x : In(Tail(q), x) => In(q, x)
      /\ In(q, m) /\ Once(Tail(q))
      /\ kind \in {"REQUEST", "RESPONSE"} => ~In(Tail(q), m)
  BY <1>2, <1>3, TailIn
<1>6. \A c \in AllCalls :
        /\ Fine(s, c)' <=>
             /\ In(Line(s), Request(c)) =>
                  /\ c \in Calls[s] /\ calls'[c] = "waiting"
                  /\ c \notin handling'[o] /\ ~In(Tail(q), Response(c))
             /\ In(Line(s), Response(c)) =>
                  c \in Calls[o] /\ calls'[c] = "waiting" /\ c \notin handling'[s]
        /\ Fine(o, c)' <=>
             /\ In(Tail(q), Request(c)) =>
                  /\ c \in Calls[o] /\ calls'[c] = "waiting"
                  /\ c \notin handling'[s] /\ ~In(Line(s), Response(c))
             /\ In(Tail(q), Response(c)) =>
                  c \in Calls[s] /\ calls'[c] = "waiting" /\ c \notin handling'[o]
  BY <1>1, <1>2 DEF Fine
<1>7. /\ Once(Line(s))' <=> Once(Line(s))
      /\ Once(Line(o))' <=> Once(Tail(q))
  BY <1>2 DEF Once
<1>8. \A c \in AllCalls :
        /\ In(Line(s), Request(c)) =>
             /\ c \in Calls[s] /\ calls[c] = "waiting"
             /\ c \notin handling[o] /\ ~In(q, Response(c))
        /\ In(Line(s), Response(c)) => c \in Calls[o] /\ calls[c] = "waiting" /\ c \notin handling[s]
        /\ In(q, Request(c)) =>
             /\ c \in Calls[o] /\ calls[c] = "waiting"
             /\ c \notin handling[s] /\ ~In(Line(s), Response(c))
        /\ In(q, Response(c)) => c \in Calls[s] /\ calls[c] = "waiting" /\ c \notin handling[o]
  BY <1>1, <1>3 DEF Fine
<1> HIDE DEF o, q
<1>9. CASE kind = "REQUEST"
  <2>1. m.of \in AllCalls /\ m = Request(m.of)
    BY <1>2, <1>9, Kinds
  <2>2. /\ m.of \in Calls[o] /\ calls[m.of] = "waiting" /\ m.of \notin handling[s]
        /\ ~In(Line(s), Response(m.of)) /\ ~In(Tail(q), Request(m.of))
        /\ m.of \notin Calls[s]
    BY <1>1, <1>5, <1>8, <1>9, <2>1
  <2>3. /\ handling'[s] = handling[s] \cup {m.of} /\ handling'[o] = handling[o]
        /\ calls' = calls
    BY <1>1, <1>4, <1>9
  <2>4. ASSUME NEW d \in AllCalls PROVE (Fine(s, d) /\ Fine(o, d))'
    <3>1. /\ In(Tail(q), Request(d)) => In(q, Request(d)) /\ d # m.of
          /\ In(Tail(q), Response(d)) => In(q, Response(d))
      BY <1>5, <2>2
    <3> QED
      BY <1>1, <1>6, <1>8, <2>2, <2>3, <3>1
  <2> QED
    BY <1>1, <1>3, <1>5, <1>7, <1>9, <2>2, <2>4 DEF EachOnce, o
<1>10. CASE kind = "RESPONSE"
  <2>1. m.of \in AllCalls /\ m = Response(m.of)
    BY <1>2, <1>10, Kinds
  <2>2. /\ m.of \in Calls[s] /\ m.of \notin Calls[o] /\ m.of \notin handling[o]
        /\ m.of \notin handling[s]
        /\ ~In(Line(s), Response(m.of)) /\ ~In(Line(s), Request(m.of))
        /\ ~In(Tail(q), Response(m.of)) /\ ~In(Tail(q), Request(m.of))
    BY <1>1, <1>4, <1>5, <1>8, <1>10, <2>1 DEF o
  <2>3. /\ handling' = handling
        /\ \A d \in AllCalls : calls'[d] = IF d = m.of THEN "answered" ELSE calls[d]
    BY <1>4, <1>10
  <2>4. ASSUME NEW d \in AllCalls PROVE (Fine(s, d) /\ Fine(o, d))'
    <3>1. /\ In(Tail(q), Request(d)) => In(q, Request(d))
          /\ In(Tail(q), Response(d)) => In(q, Response(d))
      BY <1>5
    <3> QED
      BY <1>1, <1>6, <1>8, <2>2, <2>3, <3>1
  <2> QED
    BY <1>1, <1>3, <1>5, <1>7, <1>10, <2>1, <2>2, <2>4 DEF EachOnce
<1>11. CASE kind \in {"PING", "PONG"}
  <2>1. handling' = handling /\ calls' = calls
    BY <1>11
  <2>2. ASSUME NEW d \in AllCalls PROVE (Fine(s, d) /\ Fine(o, d))'
    <3>1. /\ In(Tail(q), Request(d)) => In(q, Request(d))
          /\ In(Tail(q), Response(d)) => In(q, Response(d))
      BY <1>5
    <3> QED
      BY <1>1, <1>6, <1>8, <2>1, <3>1
  <2> QED
    BY <1>1, <1>3, <1>5, <1>7, <1>11, <2>2 DEF EachOnce
<1> QED
  BY <1>9, <1>10, <1>11

\* As long as lines and what is handled stay, and who waits goes on waiting.
LEMMA SameLines ==
  ASSUME EachOnce, handling' = handling, \A x \in Ends : Line(x)' = Line(x),
         \A d \in AllCalls : calls[d] = "waiting" => calls'[d] = "waiting"
  PROVE  EachOnce'
<1>1. ASSUME NEW x \in Ends, NEW d \in AllCalls
      PROVE  Fine(x, d)'
  <2>1. Line(x)' = Line(x) /\ Line(Other(x))' = Line(Other(x))
    BY Callers
  <2>2. Fine(x, d)
    BY DEF EachOnce
  <2>3. Fine(x, d)' <=>
          /\ In(Line(x), Request(d)) =>
               /\ d \in Calls[x] /\ calls'[d] = "waiting"
               /\ d \notin handling[Other(x)] /\ ~In(Line(Other(x)), Response(d))
          /\ In(Line(x), Response(d)) =>
               d \in Calls[Other(x)] /\ calls'[d] = "waiting" /\ d \notin handling[x]
    BY <2>1 DEF Fine
  <2>4. /\ \/ ~In(Line(x), Request(d))
           \/ /\ d \in Calls[x] /\ calls[d] = "waiting"
              /\ d \notin handling[Other(x)] /\ ~In(Line(Other(x)), Response(d))
        /\ \/ ~In(Line(x), Response(d))
           \/ d \in Calls[Other(x)] /\ calls[d] = "waiting" /\ d \notin handling[x]
    BY <2>2 DEF Fine
  <2> QED
    BY <2>3, <2>4
<1>2. ASSUME NEW x \in Ends PROVE Once(Line(x))'
  <2>1. Line(x)' = Line(x) /\ Once(Line(x))
    BY DEF EachOnce
  <2> QED
    BY <2>1 DEF Once
<1> QED
  BY <1>1, <1>2 DEF EachOnce

\* What is queued finds room.
LEMMA QueuedTypes ==
  ASSUME TypeOK, Shape, NEW s \in Ends, NEW kind, NEW c, Enqueue(s, kind, c),
         [kind |-> kind, of |-> c] \in Message
  PROVE  /\ DOMAIN tx' = Ends
         /\ \A x \in Ends : tx'[x] \in Seq(Message) /\ Len(tx'[x]) <= QueueCap
<1> DEFINE m == [kind |-> kind, of |-> c]
<1>1. tx' = [tx EXCEPT ![s] = Append(tx[s], m)] /\ Len(tx[s]) < QueueCap
  BY DEF Enqueue
<1>2. tx[s] \in Seq(Message) /\ Len(tx[s]) \in Nat
  BY LenProperties DEF TypeOK
<1> HIDE DEF m
<1>3. Append(tx[s], m) \in Seq(Message) /\ Len(Append(tx[s], m)) = Len(tx[s]) + 1
  BY <1>2, AppendProperties DEF m
<1>4. Len(tx[s]) + 1 <= QueueCap
  BY <1>1, <1>2, PeerPairAssumption
<1>5. \A x \in Ends : tx'[x] = IF x = s THEN Append(tx[s], m) ELSE tx[x]
  BY <1>1 DEF Shape
<1> QED
  BY <1>1, <1>3, <1>4, <1>5 DEF TypeOK, Shape

LEMMA PairStep == PairInv /\ [Next]_vars => PairInv'
<1> SUFFICES ASSUME PairInv, [Next]_vars PROVE PairInv'
  OBVIOUS
<1> USE DEF PairInv
<1>1. ASSUME NEW s \in Ends, NEW c \in Calls[s], Begin(s, c)
      PROVE  PairInv'
  <2>1. c \in AllCalls /\ \A x \in Ends : c \notin handling[x]
    BY <1>1, Callers DEF Begin, TypeOK
  <2>2. \A d \in AllCalls : calls'[d] = IF d = c THEN "sending" ELSE calls[d]
    BY <1>1, <2>1 DEF Begin, TypeOK
  <2>3. TypeOK' /\ Shape'
    BY <1>1, <2>1, <2>2, Callers DEF Begin, TypeOK, Shape
  <2>4. EachOnce'
    <3>1. \A x \in Ends : Line(x)' = Line(x)
      BY <1>1 DEF Begin, Line, Written
    <3>2. handling' = handling /\ calls[c] # "waiting"
      BY <1>1 DEF Begin
    <3> QED
      BY <2>2, <3>1, <3>2, SameLines
  <2> QED
    BY <2>3, <2>4
<1>2. ASSUME NEW s \in Ends, NEW c \in Calls[s], EnqueueCall(s, c)
      PROVE  PairInv'
  <2>1. c \in AllCalls /\ Request(c) \in Message
    BY Callers, Kinds
  <2>2. /\ tx' = [tx EXCEPT ![s] = Append(@, Request(c))] /\ Enqueue(s, "REQUEST", c)
        /\ calls[c] = "sending" /\ calls' = [calls EXCEPT ![c] = "waiting"]
        /\ UNCHANGED <<writer, wire, reader, handling, pings>>
    BY <1>2 DEF EnqueueCall, Enqueue, Request
  <2>3. EachOnce'
    BY <2>1, <2>2, QueuedOnce
  <2>4. /\ DOMAIN tx' = Ends
        /\ \A x \in Ends : tx'[x] \in Seq(Message) /\ Len(tx'[x]) <= QueueCap
    BY <2>1, <2>2, QueuedTypes DEF Request
  <2>5. \A d \in AllCalls : calls'[d] = IF d = c THEN "waiting" ELSE calls[d]
    BY <2>2 DEF TypeOK
  <2>6. TypeOK' /\ Shape'
    BY <2>1, <2>2, <2>4, <2>5, Callers DEF TypeOK, Shape
  <2> QED
    BY <2>3, <2>6
<1>3. ASSUME NEW s \in Ends, NEW c \in Calls[Other(s)], AnswerEnqueue(s, c)
      PROVE  PairInv'
  <2>1. c \in AllCalls /\ Response(c) \in Message
    BY Callers, Kinds
  <2>2. /\ tx' = [tx EXCEPT ![s] = Append(@, Response(c))] /\ Enqueue(s, "RESPONSE", c)
        /\ c \in handling[s] /\ handling' = [handling EXCEPT ![s] = @ \ {c}]
        /\ UNCHANGED <<calls, writer, wire, reader, pings>>
    BY <1>3 DEF AnswerEnqueue, Enqueue, Response
  <2>3. EachOnce'
    BY <2>1, <2>2, QueuedOnce
  <2>4. /\ DOMAIN tx' = Ends
        /\ \A x \in Ends : tx'[x] \in Seq(Message) /\ Len(tx'[x]) <= QueueCap
    BY <2>1, <2>2, QueuedTypes DEF Response
  <2>5. \A x \in Ends : handling'[x] = IF x = s THEN handling[s] \ {c} ELSE handling[x]
    BY <2>2 DEF Shape
  <2>6. TypeOK' /\ Shape'
    BY <2>1, <2>2, <2>4, <2>5 DEF TypeOK, Shape
  <2> QED
    BY <2>3, <2>6
<1>4. ASSUME NEW s \in Ends, PingEnqueue(s) \/ PongEnqueue(s)
      PROVE  PairInv'
  <2>1. PICK kind \in {"PING", "PONG"} :
          /\ tx' = [tx EXCEPT ![s] = Append(@, [kind |-> kind, of |-> NoCall])]
          /\ Enqueue(s, kind, NoCall) /\ UNCHANGED <<calls, writer, wire, handling>>
    BY <1>4 DEF PingEnqueue, PongEnqueue, Enqueue
  <2> DEFINE m == [kind |-> kind, of |-> NoCall]
  <2>2. m \in Message /\ m.kind \in {"PING", "PONG"}
    BY DEF Message
  <2>3. EachOnce'
    <3> HIDE DEF m
    <3>1. tx' = [tx EXCEPT ![s] = Append(@, m)]
      BY <2>1 DEF m
    <3> QED
      BY <2>1, <2>2, <3>1, QueuedOnce
  <2>4. /\ DOMAIN tx' = Ends
        /\ \A x \in Ends : tx'[x] \in Seq(Message) /\ Len(tx'[x]) <= QueueCap
    BY <2>1, <2>2, QueuedTypes
  <2>5. \A x \in Ends : pings'[x] \in 0 .. MaxPings /\ reader'[x] \in {"reading", "pong"}
    <3>1. \A x \in Ends : pings[x] \in 0 .. MaxPings /\ reader[x] \in {"reading", "pong"}
      BY DEF TypeOK
    <3>2. CASE PingEnqueue(s)
      <4>1. pings[s] + 1 \in 0 .. MaxPings
        BY <3>1, <3>2, PeerPairAssumption DEF PingEnqueue
      <4> QED
        BY <3>1, <3>2, <4>1 DEF PingEnqueue, Shape
    <3>3. CASE PongEnqueue(s)
      BY <3>1, <3>3 DEF PongEnqueue, Shape
    <3> QED
      BY <1>4, <3>2, <3>3
  <2>6. DOMAIN pings' = Ends /\ DOMAIN reader' = Ends
    BY <1>4 DEF PingEnqueue, PongEnqueue, Shape
  <2>7. TypeOK' /\ Shape'
    BY <2>1, <2>4, <2>5, <2>6 DEF TypeOK, Shape
  <2> QED
    BY <2>3, <2>7
<1>5. ASSUME NEW s \in Ends, Sender(s)
      PROVE  PairInv'
  <2>1. UNCHANGED <<calls, reader, handling, pings>>
    BY <1>5 DEF Sender, SenderTakes, SenderWrites
  <2>2. EachOnce'
    <3>1. \A x \in Ends : Line(x)' = Line(x)
      BY <1>5, LineSent, Callers
    <3> QED
      BY <2>1, <3>1, SameLines
  <2>3. /\ \A x \in Ends : /\ tx'[x] \in Seq(Message) /\ Len(tx'[x]) <= QueueCap
                           /\ wire'[x] \in Seq(Message) /\ Len(wire'[x]) <= WireCap
                           /\ writer'[x] \in Message \cup {Nothing}
        /\ DOMAIN tx' = Ends /\ DOMAIN wire' = Ends /\ DOMAIN writer' = Ends
    <3>1. CASE SenderTakes(s)
      <4>1. tx[s] \in Seq(Message) /\ tx[s] # <<>> /\ Len(tx[s]) \in Nat
        BY <3>1, LenProperties DEF SenderTakes, TypeOK
      <4>2. /\ Head(tx[s]) \in Message /\ Tail(tx[s]) \in Seq(Message)
            /\ Len(Tail(tx[s])) = Len(tx[s]) - 1
        BY <4>1, HeadTailProperties
      <4>3. Len(Tail(tx[s])) <= QueueCap
        BY <4>1, <4>2, PeerPairAssumption DEF TypeOK
      <4> QED
        BY <3>1, <4>2, <4>3 DEF SenderTakes, TypeOK, Shape
    <3>2. CASE SenderWrites(s)
      <4>1. wire[s] \in Seq(Message) /\ Len(wire[s]) \in Nat /\ writer[s] \in Message
        BY <3>2, LenProperties DEF SenderWrites, TypeOK
      <4>2. /\ Append(wire[s], writer[s]) \in Seq(Message)
            /\ Len(Append(wire[s], writer[s])) = Len(wire[s]) + 1
        BY <4>1, AppendProperties
      <4>3. Len(Append(wire[s], writer[s])) <= WireCap
        BY <3>2, <4>1, <4>2, PeerPairAssumption DEF SenderWrites
      <4> QED
        BY <3>2, <4>2, <4>3 DEF SenderWrites, TypeOK, Shape
    <3> QED
      BY <1>5, <3>1, <3>2 DEF Sender
  <2>4. TypeOK' /\ Shape'
    BY <2>1, <2>3 DEF TypeOK, Shape
  <2> QED
    BY <2>2, <2>4
<1>6. ASSUME NEW s \in Ends, TakesResponse(s) \/ TakesPong(s) \/ TakesPing(s) \/ TakesRequest(s)
      PROVE  PairInv'
  <2> DEFINE m == Head(wire[Other(s)])
  <2>1. PICK kind \in {"REQUEST", "RESPONSE", "PING", "PONG"} :
          /\ Reads(s, kind) /\ UNCHANGED <<tx, writer, pings>>
          /\ calls' = IF kind = "RESPONSE" THEN [calls EXCEPT ![m.of] = "answered"] ELSE calls
          /\ handling' = IF kind = "REQUEST" THEN [handling EXCEPT ![s] = @ \cup {m.of}]
                         ELSE handling
          /\ reader' = reader \/ reader' = [reader EXCEPT ![s] = "pong"]
    <3>1. CASE TakesResponse(s)
      BY <3>1 DEF TakesResponse
    <3>2. CASE TakesPong(s)
      BY <3>2 DEF TakesPong
    <3>3. CASE TakesPing(s)
      BY <3>3 DEF TakesPing
    <3>4. CASE TakesRequest(s)
      BY <3>4 DEF TakesRequest
    <3> QED
      BY <1>6, <3>1, <3>2, <3>3, <3>4
  <2> HIDE DEF m
  <2>2. /\ EachOnce'
        /\ kind = "REQUEST" => m.of \in Calls[Other(s)] /\ calls[m.of] = "waiting"
        /\ kind = "RESPONSE" => m.of \in AllCalls /\ \A x \in Ends : m.of \notin handling[x]
    BY <2>1, ReadOnce DEF m
  <2>3. /\ DOMAIN wire' = Ends
        /\ \A x \in Ends : wire'[x] \in Seq(Message) /\ Len(wire'[x]) <= WireCap
    <3> DEFINE w == wire[Other(s)]
    <3>1. w \in Seq(Message) /\ w # <<>> /\ Len(w) \in Nat /\ Len(w) <= WireCap
      BY <2>1, LenProperties, Callers DEF Reads, TypeOK
    <3>2. Tail(w) \in Seq(Message) /\ Len(Tail(w)) = Len(w) - 1
      BY <3>1, HeadTailProperties
    <3>3. Len(Tail(w)) <= WireCap
      BY <3>1, <3>2, PeerPairAssumption
    <3>4. wire' = [wire EXCEPT ![Other(s)] = Tail(w)]
      BY <2>1 DEF Reads
    <3> HIDE DEF w
    <3> QED
      BY <3>2, <3>3, <3>4 DEF Shape, TypeOK
  <2>4. /\ calls' \in [AllCalls -> {"idle", "sending", "waiting", "answered"}]
        /\ DOMAIN handling' = Ends
        /\ \A x \in Ends : handling'[x] \subseteq {c \in Calls[Other(x)] : calls'[c] = "waiting"}
    <3>1. /\ calls \in [AllCalls -> {"idle", "sending", "waiting", "answered"}]
          /\ DOMAIN handling = Ends
          /\ \A x \in Ends : handling[x] \subseteq {c \in Calls[Other(x)] : calls[c] = "waiting"}
          /\ \A x \in Ends : Calls[Other(x)] \subseteq AllCalls
      BY Callers DEF TypeOK, Shape
    <3>2. CASE kind = "REQUEST"
      BY <2>1, <2>2, <3>1, <3>2
    <3>3. CASE kind = "RESPONSE"
      BY <2>1, <2>2, <3>1, <3>3
    <3>4. CASE kind \notin {"REQUEST", "RESPONSE"}
      BY <2>1, <3>1, <3>4
    <3> QED
      BY <3>2, <3>3, <3>4
  <2>5. TypeOK' /\ Shape'
    BY <2>1, <2>3, <2>4 DEF TypeOK, Shape
  <2> QED
    BY <2>2, <2>5
<1>7. CASE UNCHANGED vars
  <2>1. TypeOK' /\ Shape'
    BY <1>7 DEF vars, TypeOK, Shape
  <2>2. EachOnce'
    BY <1>7, SameLines DEF vars, Line, Written
  <2> QED
    BY <2>1, <2>2
<1>8. CASE Next
  BY <1>1, <1>2, <1>3, <1>4, <1>5, <1>6, <1>8 DEF Next, Reader
<1> QED
  BY <1>7, <1>8

\* What the channels, writers and sockets hold fits in them, and a server handles only what
\* is waited for: the response is the last that is seen of a request (peer_task).
THEOREM TypeCorrect == Spec => []TypeOK
<1>1. PairInv => TypeOK
  BY DEF PairInv
<1> QED
  BY <1>1, PairInit, PairStep, PTL DEF Spec
=============================================================================
