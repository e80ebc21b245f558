----------------------- MODULE ReplicationAgreementProofs -----------------------
(***************************************************************************)
(* The two owners of a name agree when nothing is under way: for any       *)
(* requests and clients that go away, as long as no server has crashed and *)
(* no replica has panicked, and provided that the joins and leaves of one  *)
(* user are asked one after the other. And what clients are told of the    *)
(* members of a channel follows its last acknowledged change, whatever     *)
(* servers crash. Last, as long as no server fails, all that clients are   *)
(* told could have been told by one server that carries out one request    *)
(* after the other: the three servers implement module Chat.               *)
(***************************************************************************)
EXTENDS ReplicationSafetyProofs

(***************************************************************************)
(* The invariant                                                           *)
(***************************************************************************)
Calm == up = Servers /\ poisoned = {}

\* A client asks to leave a channel when it knows that it has joined, and the other way
\* round; it does not go away before it knows.
MembershipOrdered ==
  \A q, r \in Requests :
    /\ q.op = "join_channel" /\ r.op = "leave_channel"
    /\ q.user = r.user /\ q.channel = r.channel
    => \/ Follows(r, q) /\ q \notin MayDisconnect
       \/ Follows(q, r) /\ r \notin MayDisconnect

\* The handlers of a client that does not go away are waited for.
Attended ==
  \A i \in InUse : ~Top(i) /\ task[i].req \notin MayDisconnect =>
    Awaited(i) /\ task[i].parent \in InUse

\* What was carried out at the primary and is yet to be done at the backup.
Underway(x) == \/ x.kind = "op" /\ x.pc = "replicate"
               \/ x.kind = "replicate" /\ x.pc = "start"
Written(r, value) == [req |-> r, value |-> value]
Coming == {Written(task[i].req, task[i].result.value) : i \in {j \in InUse : Underway(task[j])}}

\* Of states p and b of the primary and the backup, and what is coming: a user that the
\* backup lacks is coming.
UserCopied(p, b, u, coming) ==
  /\ UserExists(b, u) => UserExists(p, u)
  /\ UserExists(p, u) =>
       UserExists(b, u) \/ \E c \in coming : c.req.op = "create_user" /\ c.req.user = u

\* So is a channel, a message, and a change of members. The primary has counted its
\* messages, and the backup those it has received. Of the changes of one member that are
\* coming all say what the primary has.
About(r, op, ch) == r.op = op /\ r.channel = ch

ChannelCopied(p, b, ch, coming) ==
  LET c == Chan(p, ch)
      d == Chan(b, ch)
  IN /\ ChannelExists(b, ch) => ChannelExists(p, ch)
     /\ ChannelExists(p, ch) =>
          ChannelExists(b, ch) \/ \E x \in coming : About(x.req, "join_channel", ch)
     /\ \A k \in DOMAIN c.messages :
          \/ k \in DOMAIN d.messages
          \/ \E x \in coming : About(x.req, "send_message", ch) /\ x.value = {k}
     /\ DOMAIN c.messages = 0 .. (c.next - 1)
     /\ IsFiniteSet(DOMAIN d.messages) /\ d.next = Cardinality(DOMAIN d.messages)
     /\ \A u \in Users : ~(u \in c.users <=> u \in d.users) =>
          \E x \in coming : ChangesMembership(x.req, u, ch)
     /\ \A x \in coming : ChangesMembership(x.req, x.req.user, ch) =>
          (x.req.user \in c.users <=> x.req.op = "join_channel")

AtPrimary(name) == state[Owner(name).primary]
AtBackup(name) == state[Owner(name).backup]

Copies ==
  /\ \A u \in Users : UserCopied(AtPrimary(u), AtBackup(u), u, Coming)
  /\ \A ch \in Channels : ChannelCopied(AtPrimary(ch), AtBackup(ch), ch, Coming)

Agreeing == Calm => Attended /\ Copies

-----------------------------------------------------------------------------
(***************************************************************************)
(* What changes of the two copies do                                       *)
(***************************************************************************)
\* The channel is left alone on both, and nothing that is about it comes or is done.
LEMMA ChannelRest ==
  ASSUME NEW p, NEW b, NEW ch, NEW C, ChannelCopied(p, b, ch, C),
         NEW q, ChannelExists(q, ch) <=> ChannelExists(p, ch), Chan(q, ch) = Chan(p, ch),
         NEW d, ChannelExists(d, ch) <=> ChannelExists(b, ch), Chan(d, ch) = Chan(b, ch),
         NEW D, \A x : x.req.op # "create_user" /\ x.req.channel = ch => (x \in D <=> x \in C)
  PROVE  ChannelCopied(q, d, ch, D)
<1>1. \A x, op : op # "create_user" /\ About(x.req, op, ch) => (x \in D <=> x \in C)
  BY DEF About
<1>2. \A x, u : ChangesMembership(x.req, u, ch) => (x \in D <=> x \in C)
  BY DEF ChangesMembership
<1> QED
  BY <1>1, <1>2 DEF ChannelCopied

LEMMA UserRest ==
  ASSUME NEW p, NEW b, NEW u, NEW C, UserCopied(p, b, u, C),
         NEW q, UserExists(q, u) <=> UserExists(p, u),
         NEW d, UserExists(d, u) <=> UserExists(b, u),
         NEW D, \A x : x.req.op = "create_user" /\ x.req.user = u => (x \in D <=> x \in C)
  PROVE  UserCopied(q, d, u, D)
BY DEF UserCopied

\* The operations on a channel, and what they make of it.
OnChannel == {"join_channel", "leave_channel", "send_message"}
WritesTo(r, ch) == r.op \in OnChannel /\ r.channel = ch

LEMMA OpElsewhere ==
  ASSUME NEW st, StateOK(st), NEW r, r.op \in Ops \ Gathers,
         r.op \in {"leave_channel", "send_message"} => ChannelExists(st, r.channel),
         NEW ch, ~WritesTo(r, ch)
  PROVE  LET tt == OpEffect(st, r).state
         IN (ChannelExists(tt, ch) <=> ChannelExists(st, ch)) /\ Chan(tt, ch) = Chan(st, ch)
<1>1. CASE r.op = "create_user"
  BY <1>1, CreateUserAdds DEF OpEffect, Chan, ChannelExists
<1>2. CASE r.op = "join_channel"
  BY <1>2, JoinChannelMakes DEF OpEffect, Only, WritesTo, OnChannel
<1>3. CASE r.op = "leave_channel"
  BY <1>3, LeaveChannelMakes DEF OpEffect, Only, WritesTo, OnChannel
<1>4. CASE r.op = "send_message"
  BY <1>4, SendMessageMakes DEF OpEffect, Only, WritesTo, OnChannel
<1>5. CASE r.op \in {"list_channel_users", "get_messages"}
  BY <1>5, ReadsGrow DEF OpEffect
<1> QED
  BY <1>1, <1>2, <1>3, <1>4, <1>5 DEF Ops, Gathers

LEMMA ReplicaElsewhere ==
  ASSUME NEW st, StateOK(st), NEW r, r.op \in Writes, NEW result,
         r.op = "send_message" => ChannelExists(st, r.channel),
         NEW ch, ~WritesTo(r, ch)
  PROVE  LET tt == ReplicaEffect(st, r, result).state
         IN (ChannelExists(tt, ch) <=> ChannelExists(st, ch)) /\ Chan(tt, ch) = Chan(st, ch)
<1>1. CASE r.op = "create_user"
  BY <1>1, CreateUserAdds DEF ReplicaEffect, Chan, ChannelExists
<1>2. CASE r.op = "join_channel"
  BY <1>2, JoinChannelMakes DEF ReplicaEffect, Only, WritesTo, OnChannel
<1>3. CASE r.op = "leave_channel" /\ ChannelExists(st, r.channel)
  BY <1>3, LeaveChannelMakes DEF ReplicaEffect, Only, WritesTo, OnChannel
<1>4. CASE r.op = "leave_channel" /\ ~ChannelExists(st, r.channel)
  BY <1>4 DEF ReplicaEffect, Effect
<1>5. CASE r.op = "send_message"
  BY <1>5, ReplicateMakes DEF ReplicaEffect, Only, WritesTo, OnChannel
<1> QED
  BY <1>1, <1>2, <1>3, <1>4, <1>5 DEF Writes

\* The primary changes a channel: what it does is coming to the backup.
LEMMA OpCopied ==
  ASSUME NEW p, StateOK(p), NEW b, NEW ch, NEW C, ChannelCopied(p, b, ch, C),
         NEW r \in Requests, WritesTo(r, ch), OpEffect(p, r).result.code = "OK",
         r.op \in {"leave_channel", "send_message"} => ChannelExists(p, ch),
         \A x \in C : ChangesMembership(x.req, r.user, ch) /\ r.op # "send_message" =>
           x.req.op = r.op
  PROVE  LET e == OpEffect(p, r)
         IN ChannelCopied(e.state, b, ch, C \cup {Written(r, e.result.value)})
<1> DEFINE e == OpEffect(p, r)
           c == Chan(p, ch)
           d == Chan(b, ch)
           a == Chan(e.state, ch)
           new == Written(r, e.result.value)
           D == C \cup {new}
<1>0. /\ r.channel = ch /\ r.user \in Users /\ new.req = r /\ new.value = e.result.value
      /\ \A x : ChangesMembership(x.req, x.req.user, ch) <=>
                  x.req.op \in {"join_channel", "leave_channel"} /\ x.req.channel = ch
  BY ReplicationAssumption DEF WritesTo, Written, ChangesMembership
<1>1. /\ ChannelExists(b, ch) => ChannelExists(p, ch)
      /\ ChannelExists(p, ch) =>
           ChannelExists(b, ch) \/ \E x \in C : About(x.req, "join_channel", ch)
      /\ \A k \in DOMAIN c.messages :
           \/ k \in DOMAIN d.messages
           \/ \E x \in C : About(x.req, "send_message", ch) /\ x.value = {k}
      /\ DOMAIN c.messages = 0 .. (c.next - 1)
      /\ IsFiniteSet(DOMAIN d.messages) /\ d.next = Cardinality(DOMAIN d.messages)
      /\ \A u \in Users : ~(u \in c.users <=> u \in d.users) =>
           \E x \in C : ChangesMembership(x.req, u, ch)
      /\ \A x \in C : ChangesMembership(x.req, x.req.user, ch) =>
           (x.req.user \in c.users <=> x.req.op = "join_channel")
  BY DEF ChannelCopied
<1>d. new \in D /\ \A x \in D : x \in C \/ x = new
  OBVIOUS
<1>e. \A x \in C : x \in D
  OBVIOUS
<1> HIDE DEF c, d, a, e, new, D
<1>2. ASSUME ChannelExists(e.state, ch),
             ChannelExists(p, ch) \/ r.op = "join_channel",
             \A k \in DOMAIN a.messages :
               k \in DOMAIN c.messages \/ (r.op = "send_message" /\ new.value = {k}),
             DOMAIN a.messages = 0 .. (a.next - 1),
             \A u : (u \in a.users <=> u \in c.users) \/ (u = r.user /\ r.op # "send_message"),
             r.op # "send_message" => (r.user \in a.users <=> r.op = "join_channel")
      PROVE  ChannelCopied(e.state, b, ch, D)
  <2>1. \/ ChannelExists(b, ch)
        \/ \E x \in D : About(x.req, "join_channel", ch)
    BY <1>0, <1>d, <1>e, <1>1, <1>2 DEF About
  <2>2. ASSUME NEW k \in DOMAIN a.messages
        PROVE  \/ k \in DOMAIN d.messages
               \/ \E x \in D : About(x.req, "send_message", ch) /\ x.value = {k}
    BY <1>0, <1>d, <1>e, <1>1, <1>2 DEF About
  <2>3. ASSUME NEW u \in Users, ~(u \in a.users <=> u \in d.users)
        PROVE  \E x \in D : ChangesMembership(x.req, u, ch)
    <3>1. CASE u = r.user /\ r.op # "send_message"
      BY <1>0, <1>d, <3>1 DEF ChangesMembership, WritesTo, OnChannel
    <3>2. CASE u \in a.users <=> u \in c.users
      BY <1>1, <1>e, <2>3, <3>2
    <3> QED
      BY <1>2, <3>1, <3>2
  <2>4. ASSUME NEW x \in D, ChangesMembership(x.req, x.req.user, ch)
        PROVE  x.req.user \in a.users <=> x.req.op = "join_channel"
    <3>1. CASE x.req.user = r.user /\ r.op # "send_message"
      <4>1. x.req.op = r.op
        BY <1>0, <1>d, <2>4, <3>1
      <4> QED
        BY <1>2, <3>1, <4>1
    <3>2. CASE ~(x.req.user = r.user /\ r.op # "send_message")
      <4>1. x # new
        BY <1>0, <2>4, <3>2
      <4> QED
        BY <1>d, <1>1, <1>2, <2>4, <3>2, <4>1
    <3> QED
      BY <3>1, <3>2
  <2> QED
    BY <1>1, <1>2, <2>1, <2>2, <2>3, <2>4 DEF ChannelCopied, a, d
<1>3. ASSUME r.op = "join_channel" PROVE ChannelCopied(e.state, b, ch, D)
  <2>1. /\ Only(p, e.state, ch) /\ a.users = c.users \cup {r.user}
        /\ a.messages = c.messages /\ a.next = c.next
    BY <1>0, <1>3, JoinChannelMakes DEF OpEffect, e, a, c
  <2>2. /\ ChannelExists(e.state, ch) /\ DOMAIN a.messages = 0 .. (a.next - 1)
        /\ \A u : (u \in a.users <=> u \in c.users) \/ u = r.user
        /\ r.user \in a.users
    BY <1>1, <2>1 DEF Only
  <2> QED
    BY <1>2, <1>3, <2>1, <2>2
<1>4. ASSUME r.op = "leave_channel" PROVE ChannelCopied(e.state, b, ch, D)
  <2>1. /\ Only(p, e.state, ch) /\ a.users = c.users \ {r.user}
        /\ a.messages = c.messages /\ a.next = c.next
    BY <1>0, <1>4, LeaveChannelMakes DEF OpEffect, e, a, c
  <2>2. /\ ChannelExists(e.state, ch) /\ DOMAIN a.messages = 0 .. (a.next - 1)
        /\ \A u : (u \in a.users <=> u \in c.users) \/ u = r.user
        /\ r.user \notin a.users
    BY <1>1, <2>1 DEF Only
  <2> QED
    BY <1>2, <1>4, <2>1, <2>2
<1>5. ASSUME r.op = "send_message" PROVE ChannelCopied(e.state, b, ch, D)
  <2>1. /\ Only(p, e.state, ch) /\ a.users = c.users
        /\ new.value = {c.next}
        /\ DOMAIN a.messages = DOMAIN c.messages \cup {c.next} /\ a.next = c.next + 1
    <3>1. e = SendMessage(p, r.user, ch, r.id) /\ ChannelExists(p, ch)
      BY <1>0, <1>5 DEF OpEffect, e
    <3>2. e.result.code = "OK"
      BY DEF e
    <3>3. new.value = e.result.value
      BY <1>0
    <3> HIDE DEF e
    <3> QED
      BY <3>1, <3>2, <3>3, SendMessageMakes DEF a, c
  <2>2. c.next \in Nat
    BY ChanOK DEF c, ChannelOK
  <2>3. DOMAIN a.messages = 0 .. (a.next - 1)
    BY <1>1, <2>1, <2>2
  <2>4. /\ ChannelExists(e.state, ch)
        /\ \A k \in DOMAIN a.messages : k \in DOMAIN c.messages \/ new.value = {k}
    BY <2>1 DEF Only
  <2> QED
    BY <1>2, <1>5, <2>1, <2>3, <2>4
<1> QED
  BY <1>3, <1>4, <1>5 DEF WritesTo, OnChannel, e, D, new

\* The backup makes a change that the primary has made.
LEMMA ReplicaCopied ==
  ASSUME NEW p, StateOK(p), NEW b, StateOK(b), NEW ch, NEW C, ChannelCopied(p, b, ch, C),
         NEW r \in Requests, WritesTo(r, ch), NEW result, Written(r, result.value) \in C,
         r.op = "join_channel" => ChannelExists(p, ch),
         r.op = "send_message" =>
           /\ ChannelExists(b, ch)
           /\ \E k \in DOMAIN Chan(p, ch).messages : result.value = {k},
         NEW D, D \subseteq C, \A x \in C \ D : x = Written(r, result.value)
  PROVE  ChannelCopied(p, ReplicaEffect(b, r, result).state, ch, D)
<1> DEFINE s == ReplicaEffect(b, r, result).state
           c == Chan(p, ch)
           d == Chan(b, ch)
           a == Chan(s, ch)
           x0 == Written(r, result.value)
<1>0. /\ r.channel = ch /\ r.user \in Users /\ x0.req = r /\ x0.value = result.value
      /\ \A x : ChangesMembership(x.req, x.req.user, ch) <=>
                  x.req.op \in {"join_channel", "leave_channel"} /\ x.req.channel = ch
  BY ReplicationAssumption DEF WritesTo, Written, ChangesMembership
<1>1. /\ ChannelExists(b, ch) => ChannelExists(p, ch)
      /\ ChannelExists(p, ch) =>
           ChannelExists(b, ch) \/ \E x \in C : About(x.req, "join_channel", ch)
      /\ \A k \in DOMAIN c.messages :
           \/ k \in DOMAIN d.messages
           \/ \E x \in C : About(x.req, "send_message", ch) /\ x.value = {k}
      /\ DOMAIN c.messages = 0 .. (c.next - 1)
      /\ IsFiniteSet(DOMAIN d.messages) /\ d.next = Cardinality(DOMAIN d.messages)
      /\ \A u \in Users : ~(u \in c.users <=> u \in d.users) =>
           \E x \in C : ChangesMembership(x.req, u, ch)
      /\ \A x \in C : ChangesMembership(x.req, x.req.user, ch) =>
           (x.req.user \in c.users <=> x.req.op = "join_channel")
  BY DEF ChannelCopied
<1>2. /\ x0 \in C /\ \A x \in C : x \in D \/ x = x0
      /\ r.op = "join_channel" => ChannelExists(p, ch)
      /\ r.op = "send_message" => ChannelExists(b, ch)
  OBVIOUS
<1> HIDE DEF c, d, a, s, x0
<1>3. ASSUME ChannelExists(s, ch) => ChannelExists(p, ch),
             ChannelExists(b, ch) \/ r.op = "join_channel" => ChannelExists(s, ch),
             \A k : k \in DOMAIN d.messages \/ (r.op = "send_message" /\ x0.value = {k}) =>
               k \in DOMAIN a.messages,
             IsFiniteSet(DOMAIN a.messages), a.next = Cardinality(DOMAIN a.messages),
             \A u : (u \in a.users <=> u \in d.users) \/ (u = r.user /\ r.op # "send_message"),
             r.op # "send_message" => (r.user \in a.users <=> r.op = "join_channel")
      PROVE  ChannelCopied(p, s, ch, D)
  <2>1. ChannelExists(p, ch) =>
          ChannelExists(s, ch) \/ \E x \in D : About(x.req, "join_channel", ch)
    BY <1>0, <1>1, <1>2, <1>3 DEF About
  <2>2. ASSUME NEW k \in DOMAIN c.messages
        PROVE  \/ k \in DOMAIN a.messages
               \/ \E x \in D : About(x.req, "send_message", ch) /\ x.value = {k}
    BY <1>0, <1>1, <1>2, <1>3 DEF About
  <2>3. ASSUME NEW u \in Users, ~(u \in c.users <=> u \in a.users)
        PROVE  \E x \in D : ChangesMembership(x.req, u, ch)
    <3>1. CASE u = r.user /\ r.op # "send_message"
      <4>1. ChangesMembership(x0.req, x0.req.user, ch)
        BY <1>0, <3>1 DEF WritesTo, OnChannel
      <4>2. r.user \in c.users <=> r.op = "join_channel"
        BY <1>0, <1>1, <1>2, <4>1
      <4> QED
        BY <1>3, <2>3, <3>1, <4>2
    <3>2. CASE ~(u = r.user /\ r.op # "send_message")
      <4>1. PICK x \in C : ChangesMembership(x.req, u, ch)
        BY <1>1, <1>3, <2>3, <3>2
      <4>2. x # x0
        BY <1>0, <3>2, <4>1 DEF ChangesMembership
      <4> QED
        BY <1>2, <4>1, <4>2
    <3> QED
      BY <3>1, <3>2
  <2> QED
    BY <1>1, <1>3, <2>1, <2>2, <2>3 DEF ChannelCopied, a, c
<1>4. ASSUME r.op = "join_channel"
      PROVE  ChannelCopied(p, s, ch, D)
  <2>1. /\ Only(b, s, ch) /\ a.users = d.users \cup {r.user}
        /\ a.messages = d.messages /\ a.next = d.next
    <3>1. s = JoinChannel(b, r.user, ch).state
      BY <1>0, <1>4 DEF ReplicaEffect, s
    <3> QED
      BY <3>1, JoinChannelMakes DEF a, d
  <2>2. /\ ChannelExists(s, ch) /\ DOMAIN a.messages = DOMAIN d.messages
        /\ \A u : (u \in a.users <=> u \in d.users) \/ u = r.user
        /\ r.user \in a.users
    BY <2>1 DEF Only
  <2> QED
    BY <1>1, <1>2, <1>3, <1>4, <2>1, <2>2
<1>5. ASSUME r.op = "leave_channel" /\ ChannelExists(b, ch)
      PROVE  ChannelCopied(p, s, ch, D)
  <2>1. /\ Only(b, s, ch) /\ a.users = d.users \ {r.user}
        /\ a.messages = d.messages /\ a.next = d.next
    <3>1. s = LeaveChannel(b, r.user, ch).state
      BY <1>0, <1>5 DEF ReplicaEffect, s
    <3> QED
      BY <1>5, <3>1, LeaveChannelMakes DEF a, d
  <2>2. /\ ChannelExists(s, ch) /\ DOMAIN a.messages = DOMAIN d.messages
        /\ \A u : (u \in a.users <=> u \in d.users) \/ u = r.user
        /\ r.user \notin a.users
    BY <2>1 DEF Only
  <2> QED
    BY <1>1, <1>3, <1>5, <2>1, <2>2
<1>6. ASSUME r.op = "leave_channel" /\ ~ChannelExists(b, ch)
      PROVE  ChannelCopied(p, s, ch, D)
  <2>1. s = b /\ a = d /\ d.users = {}
    BY <1>0, <1>6 DEF ReplicaEffect, Effect, s, a, d, Chan, NewChannel
  <2> QED
    <3>1. \A u : (u \in a.users <=> u \in d.users) /\ u \notin a.users
      BY <2>1
    <3> QED
      BY <1>1, <1>3, <1>6, <2>1, <3>1
<1>7. ASSUME r.op = "send_message"
      PROVE  ChannelCopied(p, s, ch, D)
  <2>1. PICK k \in DOMAIN c.messages : x0.value = {k}
    BY <1>0, <1>7 DEF c
  <2>2. (CHOOSE id \in result.value : TRUE) = k
    BY <1>0, <2>1
  <2>3. s = ReplicateSendMessage(b, ch, r.id, k).state
    BY <1>0, <1>7, <2>2 DEF ReplicaEffect, s
  <2>4. /\ Only(b, s, ch) /\ a.users = d.users
        /\ DOMAIN a.messages = DOMAIN d.messages \cup {k}
        /\ a.next = IF k \in DOMAIN d.messages THEN d.next ELSE d.next + 1
    BY <1>2, <1>7, <2>3, ReplicateMakes DEF a, d
  <2>5. IsFiniteSet(DOMAIN a.messages) /\ a.next = Cardinality(DOMAIN a.messages)
    <3> DEFINE S == DOMAIN d.messages
    <3>1. IsFiniteSet(S) /\ d.next = Cardinality(S)
      BY <1>1
    <3> HIDE DEF S
    <3>2. /\ IsFiniteSet(S \cup {k})
          /\ Cardinality(S \cup {k}) = IF k \in S THEN Cardinality(S) ELSE Cardinality(S) + 1
      BY <3>1, FS_AddElement
    <3>3. DOMAIN a.messages = S \cup {k} /\ a.next = IF k \in S THEN d.next ELSE d.next + 1
      BY <2>4 DEF S
    <3> QED
      BY <3>1, <3>2, <3>3
  <2>6. /\ ChannelExists(s, ch)
        /\ \A l : l \in DOMAIN d.messages \/ x0.value = {l} => l \in DOMAIN a.messages
    BY <2>1, <2>4 DEF Only
  <2> QED
    BY <1>1, <1>2, <1>3, <1>7, <2>4, <2>5, <2>6
<1> QED
  BY <1>4, <1>5, <1>6, <1>7 DEF WritesTo, OnChannel, s

\* The operations on a user.
LEMMA CreateUserMakes ==
  ASSUME NEW st, StateOK(st), NEW u
  PROVE  LET tt == CreateUser(st, u).state
         IN \A v : UserExists(tt, v) <=> UserExists(st, v) \/ v = u
<1>1. st = [users |-> st.users, channels |-> st.channels]
  BY DEF StateOK
<1>2. [st EXCEPT !.users = @ \cup {u}].users = st.users \cup {u}
  BY <1>1
<1> QED
  BY <1>2 DEF CreateUser, Effect, UserExists

LEMMA OpUsers ==
  ASSUME NEW st, StateOK(st), NEW r, r.op \in Ops \ Gathers,
         r.op \in {"leave_channel", "send_message"} => ChannelExists(st, r.channel),
         NEW u, ~(r.op = "create_user" /\ r.user = u)
  PROVE  UserExists(OpEffect(st, r).state, u) <=> UserExists(st, u)
<1>1. CASE r.op = "create_user"
  BY <1>1, CreateUserMakes DEF OpEffect
<1>2. CASE r.op = "join_channel"
  BY <1>2, JoinChannelMakes DEF OpEffect, Only, UserExists
<1>3. CASE r.op = "leave_channel"
  BY <1>3, LeaveChannelMakes DEF OpEffect, Only, UserExists
<1>4. CASE r.op = "send_message"
  BY <1>4, SendMessageMakes DEF OpEffect, Only, UserExists
<1>5. CASE r.op \in {"list_channel_users", "get_messages"}
  BY <1>5, ReadsGrow DEF OpEffect
<1> QED
  BY <1>1, <1>2, <1>3, <1>4, <1>5 DEF Ops, Gathers

LEMMA ReplicaUsers ==
  ASSUME NEW st, StateOK(st), NEW r, r.op \in Writes, NEW result,
         r.op = "send_message" => ChannelExists(st, r.channel),
         NEW u, ~(r.op = "create_user" /\ r.user = u)
  PROVE  UserExists(ReplicaEffect(st, r, result).state, u) <=> UserExists(st, u)
<1>1. CASE r.op = "create_user"
  BY <1>1, CreateUserMakes DEF ReplicaEffect
<1>2. CASE r.op = "join_channel"
  BY <1>2, JoinChannelMakes DEF ReplicaEffect, Only, UserExists
<1>3. CASE r.op = "leave_channel" /\ ChannelExists(st, r.channel)
  BY <1>3, LeaveChannelMakes DEF ReplicaEffect, Only, UserExists
<1>4. CASE r.op = "leave_channel" /\ ~ChannelExists(st, r.channel)
  BY <1>4 DEF ReplicaEffect, Effect
<1>5. CASE r.op = "send_message"
  BY <1>5, ReplicateMakes DEF ReplicaEffect, Only, UserExists
<1> QED
  BY <1>1, <1>2, <1>3, <1>4, <1>5 DEF Writes

-----------------------------------------------------------------------------
(***************************************************************************)
(* Handlers that are waited for                                            *)
(***************************************************************************)
LEMMA AllAlive ==
  ASSUME Tree, Calm
  PROVE  /\ \A s, t \in Servers : alive[s][t]
         /\ \A i \in InUse : task[i].child # Client =>
              alive[task[i].at][task[task[i].child].at]
<1>1. \A s, t \in Servers : alive[s][t]
  BY DEF Tree, AliveOK, Calm
<1>2. ASSUME NEW i \in InUse, task[i].child # Client
      PROVE  alive[task[i].at][task[task[i].child].at]
  <2>1. HandlerOK(i) /\ task[i].child \in InUse /\ HandlerOK(task[i].child)
    BY <1>2 DEF Tree, CalleeOK
  <2>2. task[i].at \in Servers /\ task[task[i].child].at \in Servers
    BY <2>1 DEF HandlerOK
  <2> QED
    BY <1>1, <2>2
<1> QED
  BY <1>1, <1>2

\* Servers do not come back, nor do locks.
LEMMA CalmBefore ==
  ASSUME IInv, Tree, Next, Calm'
  PROVE  Calm
<1>1. up' \subseteq up /\ up \subseteq Servers
  BY StepLater, NowFields DEF Later, Tree
<1>2. poisoned \subseteq poisoned'
  <2>1. \A i \in InUse : Apply(i) \/ ServeReplicate(i) => poisoned \subseteq poisoned'
    BY DEF Apply, ServeReplicate
  <2> QED
    BY <2>1, WhoPoisons
<1> QED
  BY <1>1, <1>2 DEF Calm

\* A handler that waits goes on when it has its answer.
LEMMA WaiterSteps ==
  ASSUME IInv, Tree, Calm, NEW i \in InUse, Step(i), task[i].child # Client
  PROVE  task[task[i].child].pc = "replied" /\ task'[i].child = Client
<1>0. TasksOK(task, state)
  BY DEF IInv
<1>1. task[i].pc \in {"forwarded", "asked", "replicating", "gathering"}
  BY DEF Tree, CalleeOK, Waits
<1>2. At(i) = task[i].at /\ \A pc : ~Unavailable(i, pc)
  BY SMTT(40), AllAlive DEF Unavailable, At
<1>3. \/ ForwardAnswered(i) \/ ExistsAnswered(i) \/ ReplicateAnswered(i) \/ Gathered(i)
  BY <1>1, <1>2 DEF Step, Route, Forward, ForwardRetries, CheckChannel, ExistsHere,
     ExistsElsewhere, ExistsForward, ExistsRetries, Apply, Replicate, ReplicateUnavailable,
     Gather, GatherNext, GatherSkips, GatherEnds, ServeExists, ServeNames, ServeReplicate
<1>4. task[task[i].child].pc = "replied"
  BY <1>3 DEF ForwardAnswered, ExistsAnswered, ReplicateAnswered, Gathered, Answered
<1>5. \/ \E result : Ends(i, result)
      \/ \E pc, result, todo : Turns(i, pc, result, todo)
  <2>1. CASE ForwardAnswered(i)
    BY <1>0, <2>1, ForwardForms
  <2>2. CASE ExistsAnswered(i)
    BY <1>0, <2>2, ExistsForms
  <2>3. CASE ReplicateAnswered(i)
    BY <1>0, <2>3, ReplicateForms
  <2>4. CASE Gathered(i)
    BY <1>0, <2>4, GatherForms
  <2> QED
    BY <1>3, <2>1, <2>2, <2>3, <2>4
<1>6. \A result : Ending(i, result).child = Client
  BY TaskFields, FreeFields DEF Ending
<1> QED
  BY <1>4, <1>5, <1>6, FormLeaves, TaskFields

\* What the other steps do to handlers: they replicate only what Replicate calls for.
LEMMA OtherForms ==
  ASSUME IInv, Tree, NEW i \in InUse, Step(i) \/ Disconnect(i), ~Apply(i), ~ServeReplicate(i),
         ~Replicate(i)
  PROVE  /\ ~Underway(task[i])
         /\ \/ \E pc, result, todo :
                 Turns(i, pc, result, todo) /\ task[i].kind = "op" /\ pc # "replicate"
            \/ \E result : Ends(i, result)
            \/ \E kind, to, result, pc :
                 /\ Asks(i, kind, to, result, pc)
                 /\ task[i].kind = "op" /\ kind # "replicate" /\ pc # "replicate"
<1>0. TasksOK(task, state) /\ (task[i].pc \notin Over \cup {"start"} => task[i].kind = "op")
  BY InUseOK, Working DEF IInv
<1>1. CASE ServeExists(i) \/ ServeNames(i)
  <2>1. ~Underway(task[i])
    BY <1>1 DEF ServeExists, ServeNames, Underway
  <2> QED
    BY <1>0, <1>1, <2>1, ServeForms
<1>2. CASE Disconnect(i)
  <2>1. Top(i) /\ Becomes(i, Free) /\ answer' = [answer EXCEPT ![Req(i)] = Lost]
    BY <1>0, <1>2, DisconnectForm
  <2>2. ~Awaited(i)
    BY <2>1 DEF Top, Awaited
  <2>3. Ends(i, Lost)
    BY <2>1, <2>2 DEF Ends, Ending
  <2>4. ~Underway(task[i])
    BY <1>2 DEF Disconnect, Underway
  <2> QED
    BY <2>3, <2>4
<1>3. CASE Route(i) \/ Forward(i) \/ ForwardAnswered(i) \/ ForwardRetries(i)
  <2>1. task[i].kind = "op" /\ ~Underway(task[i])
    BY <1>0, <1>3 DEF Route, Forward, ForwardAnswered, ForwardRetries, Answered, Unavailable,
       Over, Underway
  <2>2. Routes(i) # "replicate"
    BY DEF Routes
  <2> QED
    BY <1>0, <1>3, <2>1, <2>2, ForwardForms
<1>4. CASE \/ CheckChannel(i) \/ ExistsHere(i) \/ ExistsElsewhere(i) \/ ExistsForward(i)
           \/ ExistsAnswered(i) \/ ExistsRetries(i)
  <2>1. task[i].kind = "op" /\ ~Underway(task[i])
    BY <1>0, <1>4 DEF CheckChannel, ExistsHere, ExistsElsewhere, ExistsForward, ExistsAnswered,
                      ExistsRetries, Answered, Unavailable, Over, Underway
  <2> QED
    BY <1>0, <1>4, <2>1, ExistsForms
<1>5. CASE ReplicateAnswered(i) \/ ReplicateUnavailable(i)
  <2>1. task[i].kind = "op" /\ ~Underway(task[i])
    BY <1>0, <1>5 DEF ReplicateAnswered, ReplicateUnavailable, Answered, Unavailable, Over,
                      Underway
  <2> QED
    BY <1>0, <1>5, <2>1, ReplicateForms
<1>6. CASE Gather(i) \/ GatherNext(i) \/ Gathered(i) \/ GatherSkips(i) \/ GatherEnds(i)
  <2>1. task[i].kind = "op" /\ ~Underway(task[i])
    <3>1. CASE Gather(i)
      BY <1>0, <3>1 DEF Gather, Over, Underway
    <3>2. CASE GatherNext(i) \/ GatherEnds(i)
      BY <1>0, <3>2 DEF GatherNext, GatherEnds, Over, Underway
    <3>3. CASE Gathered(i) \/ GatherSkips(i)
      BY <1>0, <3>3 DEF Gathered, GatherSkips, Answered, Unavailable, Over, Underway
    <3> QED
      BY <1>6, <3>1, <3>2, <3>3
  <2> QED
    BY <1>0, <1>6, <2>1, GatherForms
<1> QED
  BY <1>1, <1>2, <1>3, <1>4, <1>5, <1>6 DEF Step

\* Handler i becomes y: the others stay, but for one that has ended.
LEMMA BecomesComing ==
  ASSUME IInv, Tree, NEW i \in InUse, NEW y, Becomes(i, y)
  PROVE  /\ Coming' \subseteq Coming \cup {Written(y.req, y.result.value)}
         /\ ~Underway(y) => Coming' \subseteq Coming
         /\ y.pc # "free" /\ Underway(y) => Written(y.req, y.result.value) \in Coming'
         /\ \A c \in Coming : \/ c \in Coming'
                              \/ Underway(task[i]) /\ c = Written(Req(i), task[i].result.value)
<1>1. i \in Slots /\ Req(i) = task[i].req /\ \A j \in InUse : j \in Slots /\ task[j].pc # "free"
  BY InUseOK, Used DEF IInv, Req
<1>2. task'[i] = y /\ \A j \in Slots : task'[j].pc # "free" <=> j \in InUse'
  BY <1>1, NextUsed DEF Becomes
<1>3. ASSUME NEW j \in InUse', j # i PROVE j \in InUse /\ task'[j] = task[j]
  BY <1>3, NextUsed, FreeFields DEF Becomes, InUse
<1>4. ASSUME NEW j \in InUse, j # i, Underway(task[j])
      PROVE  j \in InUse' /\ task'[j] = task[j]
  <2>1. task[j].pc \notin Over
    BY <1>4 DEF Underway, Over
  <2> QED
    BY <1>1, <1>2, <1>4, <2>1 DEF Becomes
<1>5. ASSUME NEW c \in Coming'
      PROVE  c \in Coming \/ (Underway(y) /\ c = Written(y.req, y.result.value))
  <2>1. PICK j \in InUse' : Underway(task'[j]) /\ c = Written(task'[j].req, task'[j].result.value)
    BY <1>5 DEF Coming, Underway
  <2> QED
    BY <1>2, <1>3, <2>1 DEF Coming
<1>6. ASSUME NEW c \in Coming, c \notin Coming'
      PROVE  Underway(task[i]) /\ c = Written(Req(i), task[i].result.value)
  <2>1. PICK j \in InUse : Underway(task[j]) /\ c = Written(task[j].req, task[j].result.value)
    BY <1>6 DEF Coming
  <2>2. j = i
    BY <1>4, <1>6, <2>1 DEF Coming, Underway
  <2> QED
    BY <1>1, <2>1, <2>2
<1>7. ASSUME y.pc # "free", Underway(y) PROVE Written(y.req, y.result.value) \in Coming'
  BY <1>1, <1>2, <1>7 DEF Coming, Underway
<1> QED
  BY <1>5, <1>6, <1>7

\* Handler i calls d.
LEMMA CallsComing ==
  ASSUME IInv, Tree, NEW i \in InUse, NEW d, NEW kind, NEW to, NEW result, NEW pc,
         Calls(i, d, kind, to, result, pc), pc # "replicate", task[i].kind = "op"
  PROVE  LET y == Callee(i, kind, to, result)
         IN /\ Coming' \subseteq Coming \cup {Written(y.req, y.result.value)}
            /\ ~Underway(y) => Coming' \subseteq Coming
            /\ y.pc # "free" /\ Underway(y) => Written(y.req, y.result.value) \in Coming'
            /\ \A c \in Coming : \/ c \in Coming'
                                 \/ Underway(task[i]) /\ c = Written(Req(i), task[i].result.value)
<1> DEFINE y == Callee(i, kind, to, result)
           x == Task(task[i], pc, d, task[i].result, task[i].todo)
<1>1. i \in Slots /\ Req(i) = task[i].req /\ \A j \in InUse : j \in Slots /\ task[j].pc # "free"
  BY InUseOK, Used DEF IInv, Req
<1>2. /\ d \in Slots /\ d \notin InUse /\ d # i /\ task'[i] = x /\ task'[d] = y
      /\ \A j \in Slots \ {i, d} : task'[j] = task[j]
      /\ \A j \in Slots : task'[j].pc # "free" <=> j \in InUse'
  BY NextUsed DEF Calls
<1>3. ~Underway(x)
  BY TaskFields DEF Underway
<1> HIDE DEF x, y
<1>4. ASSUME NEW j \in InUse', j # i, j # d PROVE j \in InUse /\ task'[j] = task[j]
  BY <1>2, <1>4, NextUsed DEF InUse
<1>5. ASSUME NEW j \in InUse, j # i PROVE j \in InUse' /\ task'[j] = task[j]
  BY <1>1, <1>2, <1>5
<1>6. ASSUME NEW c \in Coming'
      PROVE  c \in Coming \/ (Underway(y) /\ c = Written(y.req, y.result.value))
  <2>1. PICK j \in InUse' : Underway(task'[j]) /\ c = Written(task'[j].req, task'[j].result.value)
    BY <1>6 DEF Coming, Underway
  <2> QED
    BY <1>2, <1>3, <1>4, <2>1 DEF Coming
<1>7. ASSUME NEW c \in Coming, c \notin Coming'
      PROVE  Underway(task[i]) /\ c = Written(Req(i), task[i].result.value)
  <2>1. PICK j \in InUse : Underway(task[j]) /\ c = Written(task[j].req, task[j].result.value)
    BY <1>7 DEF Coming
  <2>2. j = i
    BY <1>5, <1>7, <2>1 DEF Coming, Underway
  <2> QED
    BY <1>1, <2>1, <2>2
<1>8. ASSUME y.pc # "free", Underway(y) PROVE Written(y.req, y.result.value) \in Coming'
  BY <1>1, <1>2, <1>8 DEF Coming, Underway
<1> QED
  BY <1>6, <1>7, <1>8 DEF y

LEMMA EndingNotUnderway == \A i, result : ~Underway(Ending(i, result))
BY TaskFields DEF Ending, Underway, Free

\* The primary hands over what it has carried out, and nothing else sets out or arrives.
LEMMA OtherComing ==
  ASSUME IInv, Tree, Safe, Calm, NEW i \in InUse, Step(i) \/ Disconnect(i), ~Apply(i),
         ~ServeReplicate(i)
  PROVE  Coming' = Coming
<1>1. CASE ~Replicate(i)
  <2>1. ~Underway(task[i])
    BY <1>1, OtherForms
  <2>2. CASE \E pc, result, todo :
               Turns(i, pc, result, todo) /\ task[i].kind = "op" /\ pc # "replicate"
    <3>1. PICK pc, result, todo :
            Turns(i, pc, result, todo) /\ task[i].kind = "op" /\ pc # "replicate"
      BY <2>2
    <3>2. ~Underway(Task(task[i], pc, Client, result, todo))
      BY <3>1, TaskFields DEF Underway
    <3> QED
      BY <2>1, <3>1, <3>2, BecomesComing DEF Turns
  <2>3. CASE \E result : Ends(i, result)
    BY <2>1, <2>3, EndingNotUnderway, BecomesComing DEF Ends
  <2>4. CASE \E kind, to, result, pc :
               /\ Asks(i, kind, to, result, pc)
               /\ task[i].kind = "op" /\ kind # "replicate" /\ pc # "replicate"
    <3>1. PICK kind, to, result, pc :
            /\ Asks(i, kind, to, result, pc)
            /\ task[i].kind = "op" /\ kind # "replicate" /\ pc # "replicate"
      BY <2>4
    <3>2. CASE alive[At(i)][to]
      <4>1. PICK d : Calls(i, d, kind, to, result, pc)
        BY <3>1, <3>2 DEF Asks
      <4>2. ~Underway(Callee(i, kind, to, result))
        BY <3>1 DEF Callee, Underway
      <4> QED
        BY <2>1, <3>1, <4>1, <4>2, CallsComing
    <3>3. CASE ~alive[At(i)][to]
      <4>1. Turns(i, pc, task[i].result, task[i].todo)
        BY <3>1, <3>3 DEF Asks
      <4>2. ~Underway(Task(task[i], pc, Client, task[i].result, task[i].todo))
        BY <3>1, TaskFields DEF Underway
      <4> QED
        BY <2>1, <4>1, <4>2, BecomesComing DEF Turns
    <3> QED
      BY <3>2, <3>3
  <2> QED
    BY <1>1, <2>2, <2>3, <2>4, OtherForms
<1>2. CASE Replicate(i)
  <2> DEFINE to == OwnerOf(i).backup
             y == Callee(i, "replicate", to, task[i].result)
  <2>1. /\ task[i].pc = "replicate" /\ task[i].kind = "op" /\ HandledOK(task[i], Now)
        /\ At(i) = task[i].at /\ Req(i) = task[i].req /\ At(i) \in Servers
    BY <1>2, InUseOK DEF Replicate, Over
  <2>2. /\ PrimaryOf(Req(i)) \in Servers /\ to \in Servers /\ to # PrimaryOf(Req(i))
        /\ to = BackupOf(Req(i))
    BY WritersOK DEF BackupOf, OwnerOf
  <2>3. alive[At(i)][to] /\ alive[At(i)][PrimaryOf(Req(i))]
    BY <2>1, <2>2, AllAlive
  <2>4. At(i) = PrimaryOf(Req(i))
    BY <2>1, <2>3, NowFields DEF HandledOK, Placed, Owned
  <2>5. Asks(i, "replicate", to, task[i].result, "replicating")
    BY <1>2, <2>2, <2>3, <2>4, ReplicateForms DEF IInv
  <2>6. PICK d : Calls(i, d, "replicate", to, task[i].result, "replicating")
    BY <2>3, <2>5 DEF Asks
  <2>7. /\ y.req = Req(i) /\ y.result = task[i].result /\ y.pc = "start" /\ y.kind = "replicate"
    BY <2>2 DEF Callee, Calm
  <2>8. Underway(y) /\ y.pc # "free" /\ Written(y.req, y.result.value) \in Coming
    <3>1. Underway(task[i])
      BY <2>1 DEF Underway
    <3>2. Written(Req(i), task[i].result.value) \in Coming
      BY <2>1, <3>1 DEF Coming
    <3> QED
      BY <2>7, <3>2 DEF Underway
  <2> HIDE DEF y, to
  <2> QED
    BY <2>1, <2>6, <2>7, <2>8, CallsComing DEF y
<1> QED
  BY <1>1, <1>2

-----------------------------------------------------------------------------
\* As long as a handler works for a client that does not go away, the client waits: the
\* handler was called for by that of the client, or by one that was.
LEMMA Unanswered ==
  ASSUME IInv, Tree, Safe, Attended, Calm, NEW i \in InUse, Req(i) \notin MayDisconnect
  PROVE  answer[Req(i)] = NoResult
<1>1. ASSUME NEW j \in InUse, task[j].req = Req(i), ~Top(j)
      PROVE  LET m == task[j].parent
             IN /\ m \in InUse /\ task[m].req = Req(i) /\ task[m].kind = "op"
                /\ <<task[m].pc, task[j].kind>> \in Waits
  <2> DEFINE m == task[j].parent
  <2>1. m \in InUse /\ task[m].child = j
    BY <1>1 DEF Attended, Awaited, Req
  <2>2. j # Client
    BY <1>1, InUseOK, ClientNoSlot
  <2>3. task[j].req = task[m].req /\ <<task[m].pc, task[j].kind>> \in Waits
    BY <2>1, <2>2 DEF Tree, CalleeOK
  <2>4. task[m].pc \notin Over \cup {"start"}
    BY <2>3 DEF Waits, Over
  <2> QED
    BY <1>1, <2>1, <2>3, <2>4, InUseOK
<1>2. ASSUME NEW j \in InUse, task[j].req = Req(i), task[j].kind = "op", ~Top(j)
      PROVE  task[j].at = PrimaryOf(Req(i))
  <2>1. Placed(task[j], Now) /\ PrimaryOf(Req(i)) \in Servers
    BY InUseOK, WritersOK DEF HandledOK
  <2> QED
    BY <1>2, <2>1, NowFields DEF Placed, Serves, Top, Calm, PrimaryOf
<1>3. ASSUME NEW j \in InUse, task[j].req = Req(i), task[j].kind = "op"
      PROVE  answer[Req(i)] = NoResult
  <2>1. CASE Top(j)
    BY <1>3, <2>1, InUseOK
  <2>2. CASE ~Top(j)
    <3> DEFINE m == task[j].parent
    <3>1. m \in InUse /\ task[m].req = Req(i) /\ task[m].kind = "op" /\ task[m].pc = "forwarded"
      BY <1>1, <1>3, <2>2 DEF Waits
    <3>2. task[m].at # PrimaryOf(Req(i))
      BY <3>1, InUseOK DEF HandledOK, Placed
    <3>3. Top(m)
      BY <1>2, <3>1, <3>2
    <3> QED
      BY <3>1, <3>3, InUseOK
  <2> QED
    BY <2>1, <2>2
<1> QED
  BY <1>1, <1>3, InUseOK

\* Handlers of a client that does not go away end and go on when they have their answer.
LEMMA AttendedBecomes ==
  ASSUME IInv, Tree, Attended, NEW i \in InUse, NEW y, Becomes(i, y),
         y = Free \/ (y.parent = task[i].parent /\ y.req = Req(i)),
         task[i].child # Client =>
           task[task[i].child].pc \in Over \/ Req(i) \in MayDisconnect
  PROVE  Attended'
<1>0. i \in Slots /\ Req(i) = task[i].req /\ \A j \in InUse : j \in Slots /\ task[j].pc # "free"
  BY Used DEF IInv, Req
<1>1. task'[i] = y /\ \A j \in InUse' : j \in Slots /\ task'[j].pc # "free"
  BY <1>0, NextUsed DEF Becomes
<1>2. ASSUME NEW m \in InUse, m # i, NEW j \in InUse, task[m].child = j
      PROVE  task'[m] = task[m] /\ m \in InUse'
  <2>1. j # Client
    BY <1>0, ClientNoSlot
  <2>2. task[m].pc \notin Over
    BY <1>2, <2>1 DEF Tree, CalleeOK, Waits, Over
  <2> QED
    BY <1>0, <1>2, <2>2, NextUsed DEF Becomes
<1> SUFFICES ASSUME NEW j \in InUse', ~Top(j)', task'[j].req \notin MayDisconnect
             PROVE  Awaited(j)' /\ (task[j].parent)' \in InUse'
  BY DEF Attended
<1>3. CASE j = i
  <2> DEFINE m == task[i].parent
  <2>1. y.parent = m /\ y.req = task[i].req
    BY <1>0, <1>1, <1>3, FreeFields
  <2>2. ~Top(i) /\ task[i].req \notin MayDisconnect
    BY <1>1, <1>3, <2>1 DEF Top
  <2>3. m \in InUse /\ task[m].child = i
    BY <2>2 DEF Attended, Awaited
  <2>4. m # i
    <3>1. i # Client /\ CalleeOK(m)
      BY <1>0, <2>3, ClientNoSlot DEF Tree
    <3>2. task[i].at # task[m].at
      BY <2>3, <3>1 DEF CalleeOK
    <3> QED
      BY <3>2
  <2> QED
    BY <1>1, <1>2, <1>3, <2>1, <2>2, <2>3, <2>4 DEF Awaited, Top
<1>4. CASE j # i
  <2> DEFINE m == task[j].parent
  <2>1. j \in InUse /\ task'[j] = task[j] /\ ~(j = task[i].child /\ task[j].pc \in Over)
    BY <1>1, <1>4, FreeFields DEF Becomes, InUse
  <2>2. m \in InUse /\ task[m].child = j
    BY <2>1 DEF Attended, Awaited, Top
  <2>3. m # i
    <3>1. SUFFICES ASSUME m = i PROVE FALSE
      OBVIOUS
    <3>2. task[i].child = j /\ j # Client
      BY <1>0, <2>1, <2>2, <3>1, ClientNoSlot
    <3>3. task[j].req = task[i].req
      BY <3>2 DEF Tree, CalleeOK
    <3> QED
      BY <1>0, <2>1, <3>2, <3>3
  <2> QED
    BY <1>2, <2>1, <2>2, <2>3 DEF Awaited, Top
<1> QED
  BY <1>3, <1>4

LEMMA AttendedCalls ==
  ASSUME IInv, IInv', Tree, Attended, NEW i \in InUse, NEW d, NEW kind, NEW to, NEW result,
         NEW pc, Calls(i, d, kind, to, result, pc), task[i].child = Client
  PROVE  Attended'
<1>0. i \in Slots /\ \A j \in InUse : j \in Slots /\ task[j].pc # "free"
  BY Used DEF IInv
<1>1. /\ d \in Slots \ InUse /\ d # i
      /\ task'[i].child = d /\ task'[i].parent = task[i].parent /\ task'[i].req = task[i].req
      /\ task'[d].parent = i
      /\ \A j \in Slots \ {i, d} : task'[j] = task[j]
  BY TaskFields DEF Calls, Callee
<1>2. i \in InUse'
  <2>1. task'[i].pc = "free" => task'[i] = Free
    BY <1>0 DEF IInv, TasksOK, TaskOK
  <2> QED
    BY <1>0, <1>1, <2>1, FreeFields, ClientNoSlot, NextUsed
<1>3. \A m \in InUse : m # i => m # d /\ task'[m] = task[m] /\ m \in InUse'
  BY <1>0, <1>1, NextUsed
<1>4. \A j \in InUse' : j = i \/ j = d \/ (j \in InUse /\ task'[j] = task[j])
  BY <1>1, NextUsed DEF InUse
<1> SUFFICES ASSUME NEW j \in InUse', ~Top(j)', task'[j].req \notin MayDisconnect
             PROVE  Awaited(j)' /\ (task[j].parent)' \in InUse'
  BY DEF Attended
<1>5. CASE j = d
  BY <1>1, <1>2, <1>5 DEF Awaited, Top
<1>6. CASE j = i
  <2> DEFINE m == task[i].parent
  <2>1. m \in InUse /\ task[m].child = i
    BY <1>1, <1>6 DEF Attended, Awaited, Top
  <2>2. m # i
    BY <1>0, <2>1, ClientNoSlot
  <2> QED
    BY <1>1, <1>3, <1>6, <2>1, <2>2 DEF Awaited, Top
<1>7. CASE j # d /\ j # i
  <2> DEFINE m == task[j].parent
  <2>1. j \in InUse /\ task'[j] = task[j]
    BY <1>4, <1>7
  <2>2. m \in InUse /\ task[m].child = j
    BY <2>1 DEF Attended, Awaited, Top
  <2>3. m # i
    BY <1>0, <2>1, <2>2, ClientNoSlot
  <2> QED
    BY <1>3, <2>1, <2>2, <2>3 DEF Awaited, Top
<1> QED
  BY <1>5, <1>6, <1>7

LEMMA HandlerAttended ==
  ASSUME IInv, IInv', Tree, Attended, Calm, NEW i \in InUse, Step(i) \/ Disconnect(i)
  PROVE  Attended'
<1>1. CASE Disconnect(i)
  <2>1. Becomes(i, Free) /\ Req(i) \in MayDisconnect
    BY <1>1, DisconnectForm DEF IInv, Disconnect
  <2> QED
    BY <2>1, AttendedBecomes
<1>2. CASE Step(i)
  <2>1. task[i].child # Client => task[task[i].child].pc \in Over /\ task'[i].child = Client
    BY <1>2, WaiterSteps DEF Over
  <2>2. ASSUME NEW pc, NEW result, NEW todo, Turns(i, pc, result, todo) PROVE Attended'
    <3> DEFINE y == Task(task[i], pc, Client, result, todo)
    <3>1. Becomes(i, y) /\ y.parent = task[i].parent /\ y.req = Req(i)
      BY <2>2, TaskFields DEF Turns, Req
    <3> HIDE DEF y
    <3> QED
      BY <2>1, <3>1, AttendedBecomes
  <2>3. ASSUME NEW result, Ends(i, result) PROVE Attended'
    <3> DEFINE y == Ending(i, result)
    <3>1. /\ Becomes(i, y)
          /\ y = Free \/ (y.parent = task[i].parent /\ y.req = Req(i))
      BY <2>3, TaskFields DEF Ends, Ending, Req
    <3> HIDE DEF y
    <3> QED
      BY <2>1, <3>1, AttendedBecomes
  <2>4. ASSUME NEW d, NEW kind, NEW to, NEW result, NEW pc, Calls(i, d, kind, to, result, pc)
        PROVE  Attended'
    <3>1. task'[i].child = d /\ d # Client
      BY <2>4, TaskFields, ClientNoSlot DEF Calls
    <3> QED
      BY <2>1, <2>4, <3>1, AttendedCalls
  <2> QED
    BY <1>2, <2>2, <2>3, <2>4, StepForms DEF Asks
<1> QED
  BY <1>1, <1>2

\* A request that starts.
LEMMA IssueAgreeing ==
  ASSUME IInv, Tree, Attended, NEW r \in Requests, Issue(r)
  PROVE  Attended' /\ Coming' = Coming
<1>1. PICK d : Starts(d, r)
  BY IssueForm DEF IInv
<1>2. /\ d \in Slots \ InUse /\ task'[d].pc = "route" /\ task'[d].parent = Client
      /\ \A j \in Slots \ {d} : task'[j] = task[j]
  BY <1>1 DEF Starts, NewTask
<1>3. \A j \in InUse : j # d /\ task'[j] = task[j] /\ j \in InUse'
  BY <1>2, NextUsed, Used DEF IInv
<1>4. \A j \in InUse' : j = d \/ (j \in InUse /\ task'[j] = task[j])
  BY <1>2, NextUsed DEF InUse
<1>5. Attended'
  BY <1>2, <1>3, <1>4 DEF Attended, Awaited, Top
<1>6. {j \in InUse : Underway(task[j])}' = {j \in InUse : Underway(task[j])}
  BY <1>2, <1>3, <1>4 DEF Underway
<1>7. Coming' = Coming
  <2>1. \A j \in {k \in InUse : Underway(task[k])} : task'[j] = task[j]
    BY <1>3
  <2> QED
    BY <1>6, <2>1 DEF Coming
<1> QED
  BY <1>5, <1>7

\* No other step than of a handler or a client leaves all servers up.
LEMMA CalmSteps ==
  ASSUME IInv, Tree, Next, Calm, Calm'
  PROVE  \/ \E r \in Requests : Issue(r)
         \/ \E i \in InUse : Step(i) \/ Disconnect(i)
<1>1. ASSUME NEW s \in Servers, Crash(s) PROVE FALSE
  <2>1. up' = up \ {s}
    BY <1>1, CrashForm DEF IInv
  <2> QED
    BY <2>1 DEF Calm
<1>2. ASSUME NEW s \in Servers, NEW t \in Servers, MarkDead(s, t) PROVE FALSE
  BY <1>2, AllAlive DEF MarkDead, Calm
<1> QED
  BY <1>1, <1>2 DEF Next

-----------------------------------------------------------------------------
(***************************************************************************)
(* The two copies                                                          *)
(***************************************************************************)
\* A user does not join and leave a channel at the same time.
LEMMA NoOpposite ==
  ASSUME MembershipOrdered, IInv, Tree, Safe, Attended, Calm, NEW i \in InUse, NEW j \in InUse,
         Req(i).user = Req(j).user, Req(i).channel = Req(j).channel,
         Req(i).op \in {"join_channel", "leave_channel"},
         Req(j).op \in {"join_channel", "leave_channel"}
  PROVE  Req(i).op = Req(j).op
<1>1. ASSUME NEW k \in InUse, NEW l \in InUse, Follows(Req(k), Req(l)),
             Req(l) \notin MayDisconnect
      PROVE  FALSE
  <2>1. Informed(Req(k), Now) /\ Req(l) \in Requests /\ answer[Req(l)] = NoResult
    BY <1>1, InUseOK, Unanswered
  <2> QED
    BY <1>1, <2>1, NowFields DEF Informed, Before
<1>2. Req(i) \in Requests /\ Req(j) \in Requests
  BY InUseOK
<1> QED
  BY <1>1, <1>2 DEF MembershipOrdered

LEMMA UserOwners ==
  ASSUME NEW u \in Users
  PROVE  /\ Owner(u).primary \in Servers /\ Owner(u).backup \in Servers
         /\ Owner(u).primary # Owner(u).backup
<1>1. Hash[u] \in 0 .. 2
  BY ReplicationAssumption
<1>2. Hash[u] = 0 \/ Hash[u] = 1 \/ Hash[u] = 2
  BY <1>1
<1> QED
  BY <1>2 DEF Owner, Servers

\* No state changed, and nothing set out or arrived.
LEMMA CopiesStay ==
  ASSUME Copies, \A s \in Servers : state'[s] = state[s], Coming' = Coming
  PROVE  Copies'
<1>1. /\ \A u \in Users : AtPrimary(u)' = AtPrimary(u) /\ AtBackup(u)' = AtBackup(u)
      /\ \A ch \in Channels : AtPrimary(ch)' = AtPrimary(ch) /\ AtBackup(ch)' = AtBackup(ch)
  BY UserOwners, ChannelOwners DEF AtPrimary, AtBackup
<1> QED
  BY <1>1 DEF Copies

\* An operation that fails, or only reads.
LEMMA OpRefused ==
  ASSUME NEW st, NEW r, r.op \in Ops \ Gathers,
         r.op \notin Writes \/ OpEffect(st, r).result.code # "OK"
  PROVE  OpEffect(st, r).state = st
BY DEF OpEffect, Ops, Gathers, Writes, CreateUser, JoinChannel, LeaveChannel, SendMessage,
       ListChannelUsers, GetMessages, Effect

\* The primary carries out an operation: what it did is coming to the backup.
LEMMA PrimaryWrites ==
  ASSUME IInv, Copies, NEW i \in InUse, NEW r \in Requests, NEW p \in Servers,
         p = PrimaryOf(r), r.op \in Writes, OpEffect(state[p], r).result.code = "OK",
         r.op \in {"leave_channel", "send_message"} => ChannelExists(state[p], r.channel),
         \A s \in Servers :
           state'[s] = IF s = p THEN OpEffect(state[p], r).state ELSE state[s],
         Coming' = Coming \cup {Written(r, OpEffect(state[p], r).result.value)},
         \A x \in Coming :
           ChangesMembership(x.req, r.user, r.channel)
             /\ r.op \in {"join_channel", "leave_channel"} => x.req.op = r.op
  PROVE  Copies'
<1> DEFINE e == OpEffect(state[p], r)
           new == Written(r, e.result.value)
<1>0. /\ StateOK(state[p]) /\ new.req = r /\ r.op \in Ops \ Gathers
      /\ \A s \in Servers : state'[s] = IF s = p THEN e.state ELSE state[s]
      /\ Coming' = Coming \cup {new} /\ e.result.code = "OK"
  BY DEF IInv, StatesOK, Written, Writes, Ops, Gathers
<1>1. ASSUME NEW u \in Users PROVE UserCopied(AtPrimary(u)', AtBackup(u)', u, Coming')
  <2>0. UserCopied(AtPrimary(u), AtBackup(u), u, Coming)
    BY DEF Copies
  <2>1. CASE r.op = "create_user" /\ r.user = u
    <3>1. p = Owner(u).primary /\ Owner(u).backup # p /\ Owner(u).backup \in Servers
      BY <2>1, UserOwners DEF PrimaryOf, Subject
    <3>2. UserExists(AtPrimary(u)', u)
      <4>1. AtPrimary(u)' = CreateUser(state[p], u).state
        BY <1>0, <2>1, <3>1 DEF AtPrimary, OpEffect
      <4> QED
        BY <1>0, <4>1, CreateUserMakes
    <3> QED
      BY <1>0, <2>1, <3>2 DEF UserCopied
  <2>2. CASE ~(r.op = "create_user" /\ r.user = u)
    <3>1. UserExists(e.state, u) <=> UserExists(state[p], u)
      BY <1>0, <2>2, OpUsers
    <3> HIDE DEF e, new
    <3>2. \A s \in Servers : UserExists(state'[s], u) <=> UserExists(state[s], u)
      BY <1>0, <3>1
    <3>3. /\ UserExists(AtPrimary(u)', u) <=> UserExists(AtPrimary(u), u)
          /\ UserExists(AtBackup(u)', u) <=> UserExists(AtBackup(u), u)
      BY <3>2, UserOwners DEF AtPrimary, AtBackup
    <3>4. \A x : x.req.op = "create_user" /\ x.req.user = u => (x \in Coming' <=> x \in Coming)
      BY <1>0, <2>2
    <3> QED
      BY <2>0, <3>3, <3>4, UserRest
  <2> QED
    BY <2>1, <2>2
<1>2. ASSUME NEW ch \in Channels PROVE ChannelCopied(AtPrimary(ch)', AtBackup(ch)', ch, Coming')
  <2>0. ChannelCopied(AtPrimary(ch), AtBackup(ch), ch, Coming)
    BY DEF Copies
  <2>1. CASE WritesTo(r, ch)
    <3>1. p = Owner(ch).primary /\ Owner(ch).backup # p /\ Owner(ch).backup \in Servers
          /\ r.channel = ch
      BY <2>1, ChannelOwners DEF PrimaryOf, Subject, WritesTo, OnChannel
    <3>2. /\ AtPrimary(ch)' = e.state /\ AtBackup(ch)' = AtBackup(ch)
          /\ AtPrimary(ch) = state[p]
      BY <1>0, <3>1 DEF AtPrimary, AtBackup
    <3>3. \A x \in Coming : ChangesMembership(x.req, r.user, ch) /\ r.op # "send_message" =>
            x.req.op = r.op
      BY <2>1, <3>1 DEF WritesTo, OnChannel
    <3>4. ChannelCopied(e.state, AtBackup(ch), ch, Coming \cup {new})
      BY <1>0, <2>0, <2>1, <3>1, <3>2, <3>3, OpCopied
    <3> HIDE DEF e, new
    <3> QED
      BY <1>0, <3>2, <3>4
  <2>2. CASE ~WritesTo(r, ch)
    <3>1. (ChannelExists(e.state, ch) <=> ChannelExists(state[p], ch))
            /\ Chan(e.state, ch) = Chan(state[p], ch)
      BY <1>0, <2>2, OpElsewhere
    <3> HIDE DEF e, new
    <3>2. \A s \in Servers : /\ ChannelExists(state'[s], ch) <=> ChannelExists(state[s], ch)
                             /\ Chan(state'[s], ch) = Chan(state[s], ch)
      BY <1>0, <3>1
    <3>3. /\ ChannelExists(AtPrimary(ch)', ch) <=> ChannelExists(AtPrimary(ch), ch)
          /\ Chan(AtPrimary(ch)', ch) = Chan(AtPrimary(ch), ch)
          /\ ChannelExists(AtBackup(ch)', ch) <=> ChannelExists(AtBackup(ch), ch)
          /\ Chan(AtBackup(ch)', ch) = Chan(AtBackup(ch), ch)
      BY <3>2, ChannelOwners DEF AtPrimary, AtBackup
    <3>4. \A x : x.req.op # "create_user" /\ x.req.channel = ch => (x \in Coming' <=> x \in Coming)
      BY <1>0, <2>2 DEF WritesTo, OnChannel, Writes
    <3> QED
      BY <2>0, <3>3, <3>4, ChannelRest
  <2> QED
    BY <2>1, <2>2
<1> QED
  BY <1>1, <1>2 DEF Copies

LEMMA ApplyCopies ==
  ASSUME MembershipOrdered, IInv, Tree, Safe, Attended, Copies, Calm, NEW i \in InUse, Apply(i)
  PROVE  Copies'
<1> DEFINE r == Req(i)
           p == PrimaryOf(r)
           e == OpEffect(state[p], r)
           result == By(p, e.result)
           y == Task(task[i], "replicate", Client, result, task[i].todo)
<1>1. /\ task[i].pc = "apply" /\ task[i].kind = "op" /\ HandledOK(task[i], Now)
      /\ At(i) = task[i].at /\ Req(i) = task[i].req
      /\ r \in Requests /\ p \in Servers /\ At(i) \in Servers /\ DOMAIN state = Servers
  BY InUseOK, WritersOK DEF Apply, Over
<1>2. At(i) = p
  <2>1. alive[At(i)][p]
    BY <1>1, AllAlive
  <2> QED
    BY <1>1, <2>1, NowFields DEF HandledOK, Placed, Owned
<1>3. /\ r.op \in Ops \ Gathers
      /\ r.op \in {"leave_channel", "send_message"} => ChannelExists(state[p], r.channel)
  BY <1>1, <1>2, WritersOK DEF PcOK, Routed, Looked
<1>4. /\ state' = [state EXCEPT ![p] = e.state]
      /\ IF r.op \in Writes /\ result.code = "OK" THEN Turns(i, "replicate", result, task[i].todo)
         ELSE Ends(i, result)
  <2>1. At(i) \notin poisoned
    BY DEF Calm
  <2> QED
    BY <1>2, <2>1, ApplyForms DEF IInv, Applied
<1>5. \A s \in Servers : state'[s] = IF s = p THEN e.state ELSE state[s]
  BY <1>1, <1>4
<1>6. result.code = e.result.code /\ result.value = e.result.value
  BY DEF By
<1>7. CASE r.op \in Writes /\ e.result.code = "OK"
  <2>1. Becomes(i, y) /\ y.req = r /\ y.result = result /\ Underway(y) /\ y.pc # "free"
    BY <1>1, <1>4, <1>6, <1>7, TaskFields DEF Turns, Underway
  <2>2. ~Underway(task[i])
    BY <1>1 DEF Underway
  <2> HIDE DEF y
  <2>3. /\ Coming' \subseteq Coming \cup {Written(r, result.value)}
        /\ Written(r, result.value) \in Coming'
        /\ Coming \subseteq Coming'
    BY <2>1, <2>2, BecomesComing
  <2>4. Coming' = Coming \cup {Written(r, e.result.value)}
    BY <1>6, <2>3
  <2>5. ASSUME NEW x \in Coming, ChangesMembership(x.req, r.user, r.channel),
               r.op \in {"join_channel", "leave_channel"}
        PROVE  x.req.op = r.op
    <3>1. PICK j \in InUse : x.req = Req(j)
      BY DEF Coming, Written, Req
    <3> QED
      BY <2>5, <3>1, NoOpposite DEF ChangesMembership
  <2> HIDE DEF e, result, p, r
  <2> QED
    BY <1>1, <1>3, <1>5, <1>7, <2>4, <2>5, PrimaryWrites DEF e, p
<1>8. CASE ~(r.op \in Writes /\ e.result.code = "OK")
  <2>1. \A s \in Servers : state'[s] = state[s]
    BY <1>3, <1>5, <1>8, OpRefused
  <2>2. Coming' = Coming
    <3>1. Ends(i, result)
      BY <1>4, <1>6, <1>8
    <3>2. ~Underway(task[i])
      BY <1>1 DEF Underway
    <3> HIDE DEF result
    <3> QED
      BY <3>1, <3>2, EndingNotUnderway, BecomesComing DEF Ends
  <2> QED
    BY <2>1, <2>2, CopiesStay
<1> QED
  BY <1>7, <1>8

\* The backup makes the change that has come.
LEMMA BackupWrites ==
  ASSUME IInv, Copies, NEW r \in Requests, NEW b \in Servers, b = BackupOf(r), r.op \in Writes,
         NEW result, Written(r, result.value) \in Coming,
         Kept(state[PrimaryOf(r)], r, result.value),
         r.op = "send_message" => ChannelExists(state[b], r.channel),
         \A s \in Servers :
           state'[s] = IF s = b THEN ReplicaEffect(state[b], r, result).state ELSE state[s],
         Coming' \subseteq Coming, \A x \in Coming \ Coming' : x = Written(r, result.value)
  PROVE  Copies'
<1> DEFINE tt == ReplicaEffect(state[b], r, result).state
           new == Written(r, result.value)
<1>0. /\ StateOK(state[b]) /\ new.req = r
      /\ \A s \in Servers : state'[s] = IF s = b THEN tt ELSE state[s]
      /\ Coming' \subseteq Coming /\ \A x \in Coming : x \in Coming' \/ x = new
  BY DEF IInv, StatesOK, Written
<1>1. ASSUME NEW u \in Users PROVE UserCopied(AtPrimary(u)', AtBackup(u)', u, Coming')
  <2>0. UserCopied(AtPrimary(u), AtBackup(u), u, Coming)
    BY DEF Copies
  <2>1. CASE r.op = "create_user" /\ r.user = u
    <3>1. /\ b = Owner(u).backup /\ Owner(u).primary # b /\ Owner(u).primary \in Servers
          /\ PrimaryOf(r) = Owner(u).primary
      BY <2>1, UserOwners DEF BackupOf, PrimaryOf, Subject
    <3>2. UserExists(AtPrimary(u)', u)
      BY <1>0, <2>1, <3>1 DEF AtPrimary, Kept
    <3>3. UserExists(AtBackup(u)', u)
      <4>1. AtBackup(u)' = CreateUser(state[b], u).state
        BY <1>0, <2>1, <3>1 DEF AtBackup, ReplicaEffect
      <4> QED
        BY <1>0, <4>1, CreateUserMakes
    <3> QED
      BY <3>2, <3>3 DEF UserCopied
  <2>2. CASE ~(r.op = "create_user" /\ r.user = u)
    <3>1. UserExists(tt, u) <=> UserExists(state[b], u)
      BY <1>0, <2>2, ReplicaUsers
    <3> HIDE DEF tt, new
    <3>2. \A s \in Servers : UserExists(state'[s], u) <=> UserExists(state[s], u)
      BY <1>0, <3>1
    <3>3. /\ UserExists(AtPrimary(u)', u) <=> UserExists(AtPrimary(u), u)
          /\ UserExists(AtBackup(u)', u) <=> UserExists(AtBackup(u), u)
      BY <3>2, UserOwners DEF AtPrimary, AtBackup
    <3>4. \A x : x.req.op = "create_user" /\ x.req.user = u => (x \in Coming' <=> x \in Coming)
      BY <1>0, <2>2
    <3> QED
      BY <2>0, <3>3, <3>4, UserRest
  <2> QED
    BY <2>1, <2>2
<1>2. ASSUME NEW ch \in Channels PROVE ChannelCopied(AtPrimary(ch)', AtBackup(ch)', ch, Coming')
  <2>0. ChannelCopied(AtPrimary(ch), AtBackup(ch), ch, Coming)
    BY DEF Copies
  <2>1. CASE WritesTo(r, ch)
    <3>1. /\ b = Owner(ch).backup /\ Owner(ch).primary # b /\ Owner(ch).primary \in Servers
          /\ r.channel = ch /\ PrimaryOf(r) = Owner(ch).primary
      BY <2>1, ChannelOwners DEF BackupOf, PrimaryOf, Subject, WritesTo, OnChannel
    <3>2. /\ AtBackup(ch)' = tt /\ AtPrimary(ch)' = AtPrimary(ch) /\ AtBackup(ch) = state[b]
          /\ AtPrimary(ch) = state[PrimaryOf(r)] /\ StateOK(AtPrimary(ch))
      BY <1>0, <3>1 DEF AtPrimary, AtBackup, IInv, StatesOK
    <3>3. /\ r.op = "join_channel" => ChannelExists(AtPrimary(ch), ch)
          /\ r.op = "send_message" =>
               \E k \in DOMAIN Chan(AtPrimary(ch), ch).messages : result.value = {k}
      BY <3>1, <3>2 DEF Kept, Holds, Chan
    <3>4. ChannelCopied(AtPrimary(ch), tt, ch, Coming')
      <4> HIDE DEF new
      <4>1. StateOK(state[b]) /\ Coming' \subseteq Coming
        BY <1>0
      <4> QED
        BY <2>0, <2>1, <3>1, <3>2, <3>3, <4>1, ReplicaCopied
    <3> HIDE DEF tt, new
    <3> QED
      BY <3>2, <3>4
  <2>2. CASE ~WritesTo(r, ch)
    <3>1. (ChannelExists(tt, ch) <=> ChannelExists(state[b], ch)) /\ Chan(tt, ch) = Chan(state[b], ch)
      BY <1>0, <2>2, ReplicaElsewhere
    <3> HIDE DEF tt, new
    <3>2. \A s \in Servers : /\ ChannelExists(state'[s], ch) <=> ChannelExists(state[s], ch)
                             /\ Chan(state'[s], ch) = Chan(state[s], ch)
      BY <1>0, <3>1
    <3>3. /\ ChannelExists(AtPrimary(ch)', ch) <=> ChannelExists(AtPrimary(ch), ch)
          /\ Chan(AtPrimary(ch)', ch) = Chan(AtPrimary(ch), ch)
          /\ ChannelExists(AtBackup(ch)', ch) <=> ChannelExists(AtBackup(ch), ch)
          /\ Chan(AtBackup(ch)', ch) = Chan(AtBackup(ch), ch)
      BY <3>2, ChannelOwners DEF AtPrimary, AtBackup
    <3>4. \A x : x.req.op # "create_user" /\ x.req.channel = ch => (x \in Coming' <=> x \in Coming)
      BY <1>0, <2>2 DEF WritesTo, OnChannel, Writes
    <3> QED
      BY <2>0, <3>3, <3>4, ChannelRest
  <2> QED
    BY <2>1, <2>2
<1> QED
  BY <1>1, <1>2 DEF Copies

LEMMA ReplicaCopies ==
  ASSUME IInv, Tree, Safe, Copies, Calm, Calm', NEW i \in InUse, ServeReplicate(i)
  PROVE  Copies'
<1> DEFINE r == Req(i)
           b == BackupOf(r)
           result == task[i].result
           e == ReplicaEffect(state[b], r, result)
<1>1. /\ task[i].pc = "start" /\ task[i].kind = "replicate" /\ HandledOK(task[i], Now)
      /\ At(i) = task[i].at /\ Req(i) = task[i].req
      /\ r \in Requests /\ b \in Servers /\ DOMAIN state = Servers
  BY InUseOK, WritersOK DEF ServeReplicate
<1>2. At(i) = b /\ Kept(state[PrimaryOf(r)], r, result.value) /\ r.op \in Writes
  BY <1>1, WritersOK, NowFields DEF HandledOK, Placed, Promised, PcOK
<1>3. At(i) \notin poisoned /\ ~ChannelMissing(i)
  <2>1. ChannelMissing(i) => poisoned' = poisoned \cup {At(i)}
    BY DEF ServeReplicate
  <2> QED
    BY <2>1 DEF Calm
<1>4. state' = [state EXCEPT ![b] = e.state] /\ End(task, i, By(b, e.result))
  BY <1>2, <1>3 DEF ServeReplicate
<1>5. Ends(i, By(b, e.result))
  BY <1>1, <1>4, QuietForms DEF IInv
<1>6. /\ Coming' \subseteq Coming
      /\ \A x \in Coming \ Coming' : x = Written(r, result.value)
  <2> HIDE DEF e, b, r
  <2> QED
    BY <1>5, EndingNotUnderway, BecomesComing DEF Ends, r
<1>7. Written(r, result.value) \in Coming
  BY <1>1 DEF Coming, Underway
<1>8. r.op = "send_message" => ChannelExists(state[b], r.channel)
  BY <1>2, <1>3 DEF ChannelMissing
<1>9. \A s \in Servers : state'[s] = IF s = b THEN e.state ELSE state[s]
  BY <1>1, <1>4
<1> HIDE DEF b, r, result
<1> QED
  BY <1>1, <1>2, <1>6, <1>7, <1>8, <1>9, BackupWrites DEF b

-----------------------------------------------------------------------------
(***************************************************************************)
(* The owners agree                                                        *)
(***************************************************************************)
LEMMA AgreeingStep ==
  ASSUME MembershipOrdered, IInv, IInv', Tree, Safe, Agreeing, Next
  PROVE  Agreeing'
<1> SUFFICES ASSUME Calm' PROVE Attended' /\ Copies'
  BY DEF Agreeing
<1>1. Calm /\ Attended /\ Copies
  BY CalmBefore DEF Agreeing
<1>2. ASSUME NEW i \in InUse, Apply(i) PROVE Attended' /\ Copies'
  BY <1>1, <1>2, HandlerAttended, ApplyCopies DEF Step
<1>3. ASSUME NEW i \in InUse, ServeReplicate(i) PROVE Attended' /\ Copies'
  BY <1>1, <1>3, HandlerAttended, ReplicaCopies DEF Step
<1>4. CASE \A i \in InUse : ~Apply(i) /\ ~ServeReplicate(i)
  <2>1. state' = state
    BY <1>4, WhoWrites
  <2>2. ASSUME NEW i \in InUse, Step(i) \/ Disconnect(i)
        PROVE  Attended' /\ Copies'
    <3>1. Coming' = Coming
      BY <1>1, <1>4, <2>2, OtherComing
    <3> QED
      BY <1>1, <2>1, <2>2, <3>1, HandlerAttended, CopiesStay
  <2>3. ASSUME NEW r \in Requests, Issue(r) PROVE Attended' /\ Copies'
    BY <1>1, <2>1, <2>3, IssueAgreeing, CopiesStay
  <2> QED
    BY <1>1, <2>2, <2>3, CalmSteps
<1> QED
  BY <1>2, <1>3, <1>4

LEMMA AgreeingStutter ==
  ASSUME Agreeing, UNCHANGED vars
  PROVE  Agreeing'
<1>1. UNCHANGED <<state, poisoned, up, task>>
  BY DEF vars
<1>2. InUse' = InUse /\ Calm' = Calm
  BY <1>1 DEF InUse, Calm
<1>3. Attended' = Attended /\ Coming' = Coming
  BY <1>1, <1>2 DEF Attended, Awaited, Top, Coming
<1> QED
  BY <1>1, <1>2, <1>3, CopiesStay DEF Agreeing

LEMMA AgreeingInit == Init => Agreeing
<1> SUFFICES ASSUME Init PROVE Attended /\ Copies
  BY DEF Agreeing
<1>1. InUse = {}
  BY FreeFields DEF Init, InUse
<1>2. Attended /\ Coming = {}
  BY <1>1 DEF Attended, Coming
<1>3. ASSUME NEW s \in Servers
      PROVE  /\ state[s].users = {u \in Registered : s \in Owners(u)}
             /\ state[s].channels =
                  [ch \in {c \in Preset : s \in Owners(c)} |-> InitialChannel(ch)]
  BY DEF Init
<1>4. ASSUME NEW u \in Users PROVE UserCopied(AtPrimary(u), AtBackup(u), u, Coming)
  <2>1. \A s \in Owners(u) : s \in Servers /\ (UserExists(state[s], u) <=> u \in Registered)
    BY <1>3, UserOwners DEF UserExists, Owners
  <2> QED
    BY <2>1 DEF UserCopied, AtPrimary, AtBackup, Owners
<1>5. ASSUME NEW ch \in Channels PROVE ChannelCopied(AtPrimary(ch), AtBackup(ch), ch, Coming)
  <2> DEFINE c == IF ch \in Preset THEN InitialChannel(ch) ELSE NewChannel
  <2>1. \A s \in Owners(ch) : /\ s \in Servers
                              /\ ChannelExists(state[s], ch) <=> ch \in Preset
                              /\ Chan(state[s], ch) = c
    <3> SUFFICES ASSUME NEW s \in Owners(ch)
                 PROVE  /\ s \in Servers
                        /\ ChannelExists(state[s], ch) <=> ch \in Preset
                        /\ ChannelExists(state[s], ch) =>
                             state[s].channels[ch] = InitialChannel(ch)
      BY DEF Chan
    <3>1. s \in Servers
      BY ChannelOwners DEF Owners
    <3>2. /\ DOMAIN state[s].channels = {x \in Preset : s \in Owners(x)}
          /\ \A x \in DOMAIN state[s].channels : state[s].channels[x] = InitialChannel(x)
      BY <1>3, <3>1
    <3> QED
      BY <3>1, <3>2 DEF ChannelExists
  <2>2. DOMAIN c.messages = {} /\ c.next = 0
    BY DEF InitialChannel, NewChannel
  <2>3. IsFiniteSet({}) /\ Cardinality({}) = 0
    BY FS_EmptySet
  <2> HIDE DEF c
  <2>4. /\ ChannelExists(AtPrimary(ch), ch) <=> ch \in Preset
        /\ ChannelExists(AtBackup(ch), ch) <=> ch \in Preset
        /\ Chan(AtPrimary(ch), ch) = c /\ Chan(AtBackup(ch), ch) = c
    BY <2>1 DEF AtPrimary, AtBackup, Owners
  <2>5. 0 .. (0 - 1) = {}
    OBVIOUS
  <2> QED
    BY <1>2, <2>2, <2>3, <2>4, <2>5 DEF ChannelCopied
<1> QED
  BY <1>2, <1>4, <1>5 DEF Copies

\* When nothing is coming, the two copies are one.
LEMMA NothingComing ==
  ASSUME IInv, Safe, TypeOK, Agreeing, Calm, InUse = {}
  PROVE  ReplicasAgree
<1>1. Copies /\ Coming = {}
  BY DEF Agreeing, Coming
<1>2. ASSUME NEW u \in Users
      PROVE  UserExists(AtPrimary(u), u) <=> UserExists(AtBackup(u), u)
  BY <1>1 DEF Copies, UserCopied
<1>3. ASSUME NEW ch \in Channels
      PROVE  SameChannel(Owner(ch).primary, Owner(ch).backup, ch)
  <2> DEFINE p == AtPrimary(ch)
             b == AtBackup(ch)
             c == Chan(p, ch)
             d == Chan(b, ch)
  <2>1. ChannelCopied(p, b, ch, {})
    BY <1>1 DEF Copies
  <2>2. /\ ChannelExists(p, ch) <=> ChannelExists(b, ch)
        /\ DOMAIN c.messages \subseteq DOMAIN d.messages
        /\ DOMAIN c.messages = 0 .. (c.next - 1)
        /\ d.next = Cardinality(DOMAIN d.messages)
        /\ \A u \in Users : u \in c.users <=> u \in d.users
    BY <2>1 DEF ChannelCopied
  <2>3. ASSUME ChannelExists(p, ch) PROVE c = d
    <3>1. /\ ChannelExists(b, ch) /\ c = p.channels[ch] /\ d = b.channels[ch]
          /\ c.users \subseteq Users /\ d.users \subseteq Users
      <4>1. ChannelExists(b, ch) /\ c = p.channels[ch] /\ d = b.channels[ch]
        BY <2>2, <2>3 DEF Chan
      <4>2. IsChannel(p.channels[ch]) /\ IsChannel(b.channels[ch])
        BY <2>3, <4>1, ChannelOwners DEF TypeOK, AtPrimary, AtBackup, ChannelExists
      <4> QED
        BY <4>1, <4>2 DEF IsChannel
    <3>2. ASSUME NEW k \in DOMAIN d.messages
          PROVE  k \in DOMAIN c.messages /\ c.messages[k] = d.messages[k]
      <4>1. Holds(b, ch, k, d.messages[k])
        BY <3>1, <3>2 DEF Holds
      <4>2. Holds(p, ch, k, d.messages[k])
        <5>1. StoredOK(ch, Now) /\ Owner(ch).primary \in up
          BY ChannelOwners DEF Safe, Calm
        <5> QED
          BY <4>1, <5>1, NowFields DEF StoredOK, AtPrimary, AtBackup
      <4> QED
        BY <3>1, <4>2 DEF Holds
    <3>3. DOMAIN c.messages = DOMAIN d.messages
      BY <2>2, <3>2
    <3>4. ChannelOK(c) /\ ChannelOK(d)
      <4>1. StateOK(p) /\ StateOK(b)
        BY ChannelOwners DEF IInv, StatesOK, AtPrimary, AtBackup
      <4> QED
        BY <4>1, ChanOK
    <3>5. c.next = d.next
      <4>1. c.next \in Nat
        BY <3>4 DEF ChannelOK
      <4>2. Cardinality(0 .. (c.next - 1)) = c.next
        BY <4>1, FS_Interval
      <4> QED
        BY <2>2, <3>3, <4>2
    <3> HIDE DEF c, d
    <3>6. c.messages = d.messages /\ c.users = d.users
      BY <2>2, <3>1, <3>2, <3>3, <3>4 DEF ChannelOK
    <3> QED
      BY <3>4, <3>5, <3>6 DEF ChannelOK
  <2> QED
    BY <2>2, <2>3 DEF SameChannel, AtPrimary, AtBackup, Chan
<1> QED
  BY <1>2, <1>3 DEF ReplicasAgree, Owners, SameChannel, AtPrimary, AtBackup

\* In every reachable state in which no server has failed, a handler that a client waits for
\* is waited for, and what a backup lacks of what its primary has is under way to it.
LEMMA AgreeingInvariance ==
  ASSUME MembershipOrdered
  PROVE  Spec => []Agreeing
<1>1. IInv /\ IInv' /\ Tree /\ Safe /\ Agreeing /\ [Next]_vars => Agreeing'
  BY AgreeingStep, AgreeingStutter
<1> QED
  BY <1>1, AgreeingInit, Invariance, TreeInvariance, SafeInvariance, PTL DEF Spec

\* As long as no replica has panicked, and the joins and leaves of one user are asked one
\* after the other, the two owners of a name hold the same whenever nothing is under way,
\* in whatever order the replication requests were served. (They do not when a message is
\* replicated before the join that creates its channel, or a leave before the join that it
\* followed at the primary.)
THEOREM OwnersAgree ==
  ASSUME MembershipOrdered
  PROVE  Spec => [](poisoned = {} => ReplicasAgree)
<1>1. IInv /\ Safe /\ TypeOK /\ Agreeing => (poisoned = {} => ReplicasAgree)
  <2> SUFFICES ASSUME IInv, Safe, TypeOK, Agreeing, poisoned = {} PROVE ReplicasAgree
    OBVIOUS
  <2>1. CASE Calm /\ InUse = {}
    BY <2>1, NothingComing
  <2>2. CASE ~(Calm /\ InUse = {})
    BY <2>2 DEF ReplicasAgree, Calm
  <2> QED
    BY <2>1, <2>2
<1> QED
  BY <1>1, AgreeingInvariance, Invariance, SafeInvariance, TypeCorrect, PTL

-----------------------------------------------------------------------------
(***************************************************************************)
(* Handlers that are waited for, also when servers crash                   *)
(***************************************************************************)
\* As long as the primary is up and the client is there, the handlers of its request are
\* waited for.
Answering ==
  \A i \in InUse :
    ~Top(i) /\ PrimaryOf(task[i].req) \in up /\ answer[task[i].req].code # "LOST" =>
      Awaited(i) /\ task[i].parent \in InUse

\* A handler that waits goes on when its call is over.
LEMMA WaiterGoesOn ==
  ASSUME IInv, Tree, NEW i \in InUse, Step(i), task[i].child # Client
  PROVE  task[task[i].child].pc \in Over /\ task'[i].child = Client
<1>0. TasksOK(task, state)
  BY DEF IInv
<1>1. /\ task[i].pc \in {"forwarded", "asked", "replicating", "gathering"}
      /\ task[i].child \in InUse /\ At(i) = task[i].at
  BY DEF Tree, CalleeOK, Waits, At
<1>2. \/ ForwardAnswered(i) \/ ExistsAnswered(i) \/ ReplicateAnswered(i) \/ Gathered(i)
      \/ ForwardRetries(i) \/ ExistsRetries(i) \/ ReplicateUnavailable(i) \/ GatherSkips(i)
  BY <1>1 DEF Step, Route, Forward, CheckChannel, ExistsHere,
     ExistsElsewhere, ExistsForward, Apply, Replicate,
     Gather, GatherNext, GatherEnds, ServeExists, ServeNames, ServeReplicate
<1>3. \E pc : Answered(i, pc) \/ Unavailable(i, pc)
  BY <1>2 DEF ForwardAnswered, ExistsAnswered, ReplicateAnswered, Gathered, ForwardRetries,
     ExistsRetries, ReplicateUnavailable, GatherSkips
<1>4. task[task[i].child].pc \in Over
  <2> DEFINE c == task[i].child
  <2>1. CASE \E pc : Answered(i, pc)
    BY <2>1 DEF Answered, Over
  <2>2. CASE \E pc : Unavailable(i, pc)
    <3>1. ~alive[task[i].at][task[c].at]
      BY <1>1, <2>2 DEF Unavailable
    <3>2. task[i].at \in Servers /\ task[c].at \in Servers /\ task[i].at \in up
      BY <1>0, <1>1, Working DEF Tree, HandlerOK, Over
    <3>3. task[c].at \notin up
      BY <3>1, <3>2 DEF Tree, AliveOK
    <3> QED
      BY <1>1, <3>3 DEF Tree, HandlerOK
  <2> QED
    BY <1>3, <2>1, <2>2
<1>5. \/ \E result : Ends(i, result)
      \/ \E pc, result, todo : Turns(i, pc, result, todo)
  <2>1. CASE ForwardAnswered(i) \/ ForwardRetries(i)
    BY <1>0, <2>1, ForwardForms
  <2>2. CASE ExistsAnswered(i) \/ ExistsRetries(i)
    BY <1>0, <2>2, ExistsForms
  <2>3. CASE ReplicateAnswered(i) \/ ReplicateUnavailable(i)
    BY <1>0, <2>3, ReplicateForms
  <2>4. CASE Gathered(i) \/ GatherSkips(i)
    BY <1>0, <2>4, GatherForms
  <2> QED
    BY <1>2, <2>1, <2>2, <2>3, <2>4
<1>6. \A result : Ending(i, result).child = Client
  BY TaskFields, FreeFields DEF Ending
<1> QED
  BY <1>4, <1>5, <1>6, FormLeaves, TaskFields

\* Handlers of a client that is there end and go on when their calls are over.
LEMMA AnsweringBecomes ==
  ASSUME IInv, Tree, Answering, NEW i \in InUse, NEW y, Becomes(i, y), up' = up,
         y = Free \/ (y.parent = task[i].parent /\ y.req = Req(i)),
         \A r \in Requests : answer'[r].code # "LOST" => answer[r].code # "LOST",
         task[i].child # Client =>
           task[task[i].child].pc \in Over \/ answer'[Req(i)].code = "LOST"
  PROVE  Answering'
<1>0. /\ i \in Slots /\ Req(i) = task[i].req
      /\ \A j \in InUse : j \in Slots /\ task[j].pc # "free" /\ task[j].req \in Requests
  BY Used DEF IInv, Req
<1>1. task'[i] = y /\ \A j \in InUse' : j \in Slots /\ task'[j].pc # "free"
  BY <1>0, NextUsed DEF Becomes
<1>2. ASSUME NEW m \in InUse, m # i, NEW j \in InUse, task[m].child = j
      PROVE  task'[m] = task[m] /\ m \in InUse'
  <2>1. j # Client
    BY <1>0, ClientNoSlot
  <2>2. task[m].pc \notin Over
    BY <1>2, <2>1 DEF Tree, CalleeOK, Waits, Over
  <2> QED
    BY <1>0, <1>2, <2>2, NextUsed DEF Becomes
<1> SUFFICES ASSUME NEW j \in InUse', ~Top(j)', PrimaryOf(task'[j].req) \in up,
                    answer'[task'[j].req].code # "LOST"
             PROVE  Awaited(j)' /\ (task[j].parent)' \in InUse'
  BY DEF Answering, PrimaryOf, Owner, Subject
<1>3. CASE j = i
  <2> DEFINE m == task[i].parent
  <2>1. y.parent = m /\ y.req = task[i].req
    BY <1>0, <1>1, <1>3, FreeFields
  <2>2. ~Top(i) /\ PrimaryOf(task[i].req) \in up /\ answer[task[i].req].code # "LOST"
    BY <1>0, <1>1, <1>3, <2>1 DEF Top
  <2>3. m \in InUse /\ task[m].child = i
    BY <2>2 DEF Answering, Awaited
  <2>4. m # i
    <3>1. i # Client /\ CalleeOK(m)
      BY <1>0, <2>3, ClientNoSlot DEF Tree
    <3>2. task[i].at # task[m].at
      BY <2>3, <3>1 DEF CalleeOK
    <3> QED
      BY <3>2
  <2> QED
    BY <1>1, <1>2, <1>3, <2>1, <2>2, <2>3, <2>4 DEF Awaited, Top
<1>4. CASE j # i
  <2> DEFINE m == task[j].parent
  <2>1. j \in InUse /\ task'[j] = task[j] /\ ~(j = task[i].child /\ task[j].pc \in Over)
    BY <1>1, <1>4, FreeFields DEF Becomes, InUse
  <2>2. m \in InUse /\ task[m].child = j
    BY <1>0, <2>1 DEF Answering, Awaited, Top
  <2>3. m # i
    <3>1. SUFFICES ASSUME m = i PROVE FALSE
      OBVIOUS
    <3>2. task[i].child = j /\ j # Client
      BY <1>0, <2>1, <2>2, <3>1, ClientNoSlot
    <3>3. task[j].req = task[i].req
      BY <3>2 DEF Tree, CalleeOK
    <3> QED
      BY <1>0, <2>1, <3>2, <3>3
  <2> QED
    BY <1>2, <2>1, <2>2, <2>3 DEF Awaited, Top
<1> QED
  BY <1>3, <1>4

\* Nor does a call leave a handler alone.
LEMMA AnsweringCalls ==
  ASSUME IInv, IInv', Tree, Answering, NEW i \in InUse, NEW d, NEW kind, NEW to, NEW result,
         NEW pc, Calls(i, d, kind, to, result, pc), task[i].child = Client, up' = up
  PROVE  Answering'
<1>0. i \in Slots /\ \A j \in InUse : j \in Slots /\ task[j].pc # "free"
  BY Used DEF IInv
<1>1. /\ d \in Slots \ InUse /\ d # i
      /\ task'[i].child = d /\ task'[i].parent = task[i].parent /\ task'[i].req = task[i].req
      /\ task'[d].parent = i /\ answer' = answer
      /\ \A j \in Slots \ {i, d} : task'[j] = task[j]
  BY TaskFields DEF Calls, Callee
<1>2. i \in InUse'
  <2>1. task'[i].pc = "free" => task'[i] = Free
    BY <1>0 DEF IInv, TasksOK, TaskOK
  <2> QED
    BY <1>0, <1>1, <2>1, FreeFields, ClientNoSlot, NextUsed
<1>3. \A m \in InUse : m # i => m # d /\ task'[m] = task[m] /\ m \in InUse'
  BY <1>0, <1>1, NextUsed
<1>4. \A j \in InUse' : j = i \/ j = d \/ (j \in InUse /\ task'[j] = task[j])
  BY <1>1, NextUsed DEF InUse
<1> SUFFICES ASSUME NEW j \in InUse', ~Top(j)', PrimaryOf(task'[j].req) \in up,
                    answer'[task'[j].req].code # "LOST"
             PROVE  Awaited(j)' /\ (task[j].parent)' \in InUse'
  BY DEF Answering, PrimaryOf, Owner, Subject
<1>5. CASE j = d
  BY <1>1, <1>2, <1>5 DEF Awaited, Top
<1>6. CASE j = i
  <2> DEFINE m == task[i].parent
  <2>1. m \in InUse /\ task[m].child = i
    BY <1>1, <1>6 DEF Answering, Awaited, Top
  <2>2. m # i
    BY <1>0, <2>1, ClientNoSlot
  <2> QED
    BY <1>1, <1>3, <1>6, <2>1, <2>2 DEF Awaited, Top
<1>7. CASE j # d /\ j # i
  <2> DEFINE m == task[j].parent
  <2>1. j \in InUse /\ task'[j] = task[j]
    BY <1>4, <1>7
  <2>2. m \in InUse /\ task[m].child = j
    BY <1>1, <2>1 DEF Answering, Awaited, Top
  <2>3. m # i
    BY <1>0, <2>1, <2>2, ClientNoSlot
  <2> QED
    BY <1>3, <2>1, <2>2, <2>3 DEF Awaited, Top
<1> QED
  BY <1>5, <1>6, <1>7

\* What a client was told is not told again.
LEMMA StillLost ==
  ASSUME IInv, Tree, Next
  PROVE  \A r \in Requests : answer'[r].code # "LOST" => answer[r].code # "LOST"
<1>1. \A r \in Requests : answer[r] # NoResult => answer'[r] = answer[r]
  BY StepLater, NowFields DEF Later
<1> QED
  BY <1>1 DEF NoResult

\* So whatever handlers and clients do, handlers are waited for,
LEMMA HandlerAnswering ==
  ASSUME IInv, IInv', Tree, Answering, Next, NEW i \in InUse, Step(i) \/ Disconnect(i)
  PROVE  Answering'
<1>0. up' = up
  BY DEF Step, Disconnect, Route, Forward, ForwardAnswered, ForwardRetries, CheckChannel,
     ExistsHere, ExistsElsewhere, ExistsForward, ExistsAnswered, ExistsRetries, Apply, Replicate,
     ReplicateAnswered, ReplicateUnavailable, Gather, GatherNext, Gathered, GatherSkips,
     GatherEnds, ServeExists, ServeNames, ServeReplicate
<1>1. CASE Disconnect(i)
  <2>1. Becomes(i, Free) /\ answer' = [answer EXCEPT ![Req(i)] = Lost]
    BY <1>1, DisconnectForm DEF IInv
  <2>2. Req(i) \in DOMAIN answer
    BY Working DEF IInv, Tree
  <2>3. answer'[Req(i)].code = "LOST"
    BY <2>1, <2>2 DEF Lost, NoResult
  <2> QED
    BY <1>0, <2>1, <2>3, StillLost, AnsweringBecomes
<1>2. CASE Step(i)
  <2>1. task[i].child # Client => task[task[i].child].pc \in Over /\ task'[i].child = Client
    BY <1>2, WaiterGoesOn
  <2>2. ASSUME NEW pc, NEW result, NEW todo, Turns(i, pc, result, todo) PROVE Answering'
    <3> DEFINE y == Task(task[i], pc, Client, result, todo)
    <3>1. Becomes(i, y) /\ y.parent = task[i].parent /\ y.req = Req(i)
      BY <2>2, TaskFields DEF Turns, Req
    <3> HIDE DEF y
    <3> QED
      BY <1>0, <2>1, <3>1, StillLost, AnsweringBecomes
  <2>3. ASSUME NEW result, Ends(i, result) PROVE Answering'
    <3> DEFINE y == Ending(i, result)
    <3>1. /\ Becomes(i, y)
          /\ y = Free \/ (y.parent = task[i].parent /\ y.req = Req(i))
      BY <2>3, TaskFields DEF Ends, Ending, Req
    <3> HIDE DEF y
    <3> QED
      BY <1>0, <2>1, <3>1, StillLost, AnsweringBecomes
  <2>4. ASSUME NEW d, NEW kind, NEW to, NEW result, NEW pc, Calls(i, d, kind, to, result, pc)
        PROVE  Answering'
    <3>1. task'[i].child = d /\ d # Client
      BY <2>4, TaskFields, ClientNoSlot DEF Calls
    <3> QED
      BY <1>0, <2>1, <2>4, <3>1, AnsweringCalls
  <2> QED
    BY <1>2, <2>2, <2>3, <2>4, StepForms DEF Asks
<1> QED
  BY <1>1, <1>2

\* and when a request starts,
LEMMA IssueAnswering ==
  ASSUME IInv, Tree, Answering, NEW r \in Requests, Issue(r)
  PROVE  Answering'
<1>1. PICK d : Starts(d, r)
  BY IssueForm DEF IInv
<1>2. /\ d \in Slots \ InUse /\ task'[d].pc = "route" /\ task'[d].parent = Client
      /\ \A j \in Slots \ {d} : task'[j] = task[j]
      /\ answer' = answer /\ up' = up
  BY <1>1 DEF Starts, NewTask, Issue
<1>3. \A j \in InUse : j # d /\ task'[j] = task[j] /\ j \in InUse'
  BY <1>2, NextUsed, Used DEF IInv
<1>4. \A j \in InUse' : j = d \/ (j \in InUse /\ task'[j] = task[j])
  BY <1>2, NextUsed DEF InUse
<1> SUFFICES ASSUME NEW j \in InUse', ~Top(j)', PrimaryOf(task'[j].req) \in up,
                    answer'[task'[j].req].code # "LOST"
             PROVE  Awaited(j)' /\ (task[j].parent)' \in InUse'
  BY <1>2 DEF Answering, PrimaryOf, Owner, Subject
<1>5. j \in InUse /\ task'[j] = task[j]
  BY <1>2, <1>4 DEF Top
<1>6. Awaited(j) /\ task[j].parent \in InUse
  BY <1>2, <1>5 DEF Answering, Top
<1> QED
  BY <1>3, <1>5, <1>6 DEF Awaited

\* A crash loses the answer of its clients, and leaves no caller of an operation but a primary.
LEMMA CrashAnswering ==
  ASSUME IInv, Tree, Safe, Answering, Next, NEW s \in Servers, Crash(s)
  PROVE  Answering'
<1>0. /\ TasksOK(task, state) /\ \A j \in InUse : j \in Slots /\ task[j].req \in Requests
      /\ \A j \in InUse : j # Client
  BY Used, ClientNoSlot DEF IInv
<1> SUFFICES ASSUME NEW j \in InUse', ~Top(j)', PrimaryOf(task'[j].req) \in up',
                    answer'[task'[j].req].code # "LOST"
             PROVE  Awaited(j)' /\ (task[j].parent)' \in InUse'
  BY DEF Answering, PrimaryOf, Owner, Subject
<1> DEFINE m == task[j].parent
           r == task[j].req
<1>1. /\ j \in InUse /\ task'[j].req = r /\ task'[j].parent = m
  BY <1>0, CrashLeaves
<1>2. up' = up \ {s} /\ up' \subseteq up
  BY CrashForm, <1>0
<1>3. m \in InUse /\ task[m].child = j /\ m # Client /\ m \in Slots
  <2>1. answer[r].code # "LOST" /\ ~Top(j)
    BY <1>0, <1>1, StillLost DEF Top
  <2> QED
    BY <1>0, <1>1, <1>2, <2>1 DEF Answering, Awaited, Top
<1>4. task[m].req = r /\ <<task[m].pc, task[j].kind>> \in Waits /\ task[m].kind = "op"
      /\ task[m].at \in Servers /\ task[m].pc \notin Over
  <2>1. task[m].req = r /\ <<task[m].pc, task[j].kind>> \in Waits
    <3>1. CalleeOK(m)
      BY <1>3 DEF Tree
    <3>2. task[m].child # Client /\ task[m].child = j
      BY <1>3, <1>1, <1>0
    <3> HIDE DEF m, r
    <3>3. task[j].req = task[m].req /\ <<task[m].pc, task[j].kind>> \in Waits
      BY <3>1, <3>2 DEF CalleeOK
    <3> QED
      BY <3>3 DEF r
  <2>2. task[m].pc \notin Over \cup {"start"}
    BY <2>1 DEF Waits, Over
  <2> QED
    BY <1>0, <1>3, <2>1, <2>2, Working DEF At
<1>5. task[m].at # s
  <2> SUFFICES ASSUME task[m].at = s PROVE FALSE
    OBVIOUS
  <2>1. ~Top(m)
    <3> SUFFICES ASSUME Top(m) PROVE FALSE
      OBVIOUS
    <3>1. answer'[r] = Lost
      BY <1>0, <1>1, <1>3, <1>4, CrashForm
    <3> QED
      BY <1>1, <3>1 DEF Lost, NoResult
  <2>2. Placed(task[m], Now)
    BY <1>3, InUseOK DEF HandledOK
  <2>3. Serves(s, Owner(Subject(r)), Now)
    BY <1>4, <2>1, <2>2 DEF Placed, Top
  <2> QED
    BY <1>1, <1>2, <2>3, NowFields DEF Serves, PrimaryOf
<1>6. task'[m] = task[m]
  BY <1>0, <1>3, <1>4, <1>5, CrashForm
<1>7. m \in InUse'
  BY <1>3, <1>6, NextUsed, Used DEF IInv
<1> QED
  BY <1>1, <1>3, <1>6, <1>7 DEF Awaited

\* So in every step,
LEMMA AnsweringStep ==
  ASSUME IInv, IInv', Tree, Safe, Answering, [Next]_vars
  PROVE  Answering'
<1>1. ASSUME UNCHANGED <<task, answer, up>> PROVE Answering'
  <2>1. InUse' = InUse /\ \A i \in InUse : Awaited(i)' = Awaited(i) /\ Top(i)' = Top(i)
    BY <1>1 DEF InUse, Awaited, Top
  <2> SUFFICES ASSUME NEW i \in InUse', ~Top(i)', PrimaryOf(task'[i].req) \in up',
                      answer'[task'[i].req].code # "LOST"
               PROVE  Awaited(i)' /\ (task[i].parent)' \in InUse'
    BY DEF Answering, PrimaryOf, Owner, Subject
  <2>2. Awaited(i) /\ task[i].parent \in InUse
    BY <1>1, <2>1 DEF Answering
  <2> QED
    BY <1>1, <2>1, <2>2
<1>2. CASE \E s, t \in Servers : MarkDead(s, t)
  BY <1>1, <1>2 DEF MarkDead
<1> QED
  BY <1>1, <1>2, HandlerAnswering, IssueAnswering, CrashAnswering DEF Next, vars

\* and from the start.
LEMMA AnsweringInit == Init => Answering
<1> SUFFICES ASSUME Init PROVE Answering
  OBVIOUS
<1>1. InUse = {}
  BY DEF Init, InUse, Free
<1> QED
  BY <1>1 DEF Answering

\* The requests that a handler works for.
Busy == {task[i].req : i \in InUse}

\* Once its client has an answer, a request has no handlers.
LEMMA AnsweredFinished ==
  ASSUME IInv, Tree, Safe, Answering, NEW r \in Requests, PrimaryOf(r) \in up,
         answer[r].code # "LOST", answer[r] # NoResult
  PROVE  r \notin Busy
<1> SUFFICES ASSUME NEW i \in InUse, task[i].req = r
             PROVE  answer[r] = NoResult
  BY DEF Busy
<1>1. ASSUME NEW j \in InUse, task[j].req = r, ~Top(j)
      PROVE  LET m == task[j].parent
             IN /\ m \in InUse /\ task[m].req = r /\ task[m].kind = "op"
                /\ <<task[m].pc, task[j].kind>> \in Waits
  <2> DEFINE m == task[j].parent
  <2>1. m \in InUse /\ task[m].child = j
    BY <1>1 DEF Answering, Awaited
  <2>2. j # Client
    BY <1>1, InUseOK, ClientNoSlot
  <2>3. task[j].req = task[m].req /\ <<task[m].pc, task[j].kind>> \in Waits
    <3>1. CalleeOK(m)
      BY <2>1 DEF Tree
    <3> QED
      BY <2>1, <2>2, <3>1 DEF CalleeOK
  <2>4. task[m].pc \notin Over \cup {"start"}
    BY <2>3 DEF Waits, Over
  <2> QED
    BY <1>1, <2>1, <2>3, <2>4, InUseOK
<1>2. ASSUME NEW j \in InUse, task[j].req = r, task[j].kind = "op", ~Top(j)
      PROVE  task[j].at = PrimaryOf(r)
  <2>1. Placed(task[j], Now)
    BY InUseOK DEF HandledOK
  <2> QED
    BY <1>2, <2>1, NowFields DEF Placed, Serves, Top, PrimaryOf
<1>3. ASSUME NEW j \in InUse, task[j].req = r, task[j].kind = "op"
      PROVE  answer[r] = NoResult
  <2>1. CASE Top(j)
    BY <1>3, <2>1, InUseOK
  <2>2. CASE ~Top(j)
    <3> DEFINE m == task[j].parent
    <3>1. m \in InUse /\ task[m].req = r /\ task[m].kind = "op" /\ task[m].pc = "forwarded"
      BY <1>1, <1>3, <2>2 DEF Waits
    <3>2. task[m].at # PrimaryOf(r)
      BY <3>1, InUseOK DEF HandledOK, Placed
    <3>3. Top(m)
      BY <1>2, <3>1, <3>2
    <3> QED
      BY <3>1, <3>3, InUseOK
  <2> QED
    BY <2>1, <2>2
<1> QED
  BY <1>1, <1>3, InUseOK

\* A request that was answered and has no handlers gets none.
LEMMA FinishedStays ==
  ASSUME IInv, Tree, Next, NEW r \in Requests, answer[r] # NoResult, r \notin Busy
  PROVE  r \notin Busy'
<1> SUFFICES ASSUME NEW j \in InUse'
             PROVE  \/ \E i \in InUse : task'[j].req = task[i].req
                    \/ answer[task'[j].req] = NoResult
  BY DEF Busy
<1>0. TasksOK(task, state) /\ \A i \in InUse : i \in Slots /\ Req(i) = task[i].req
  BY Used DEF IInv, Req
<1>1. ASSUME NEW i \in InUse, Step(i) \/ Disconnect(i)
      PROVE  \E k \in InUse : task'[j].req = task[k].req
  <2>1. ASSUME Leaves(i), task'[i] = Free \/ task'[i].req = task[i].req
        PROVE  \E k \in InUse : task'[j].req = task[k].req
    BY <2>1, NextUsed, FreeFields DEF Leaves
  <2>2. ASSUME NEW pc, NEW result, NEW todo, Turns(i, pc, result, todo)
        PROVE  \E k \in InUse : task'[j].req = task[k].req
    BY <2>1, <2>2, FormLeaves, TaskFields
  <2>3. ASSUME NEW result, Ends(i, result)
        PROVE  \E k \in InUse : task'[j].req = task[k].req
    BY <2>1, <2>3, FormLeaves, TaskFields DEF Ending
  <2>4. ASSUME NEW d, NEW kind, NEW to, NEW result, NEW pc, Calls(i, d, kind, to, result, pc)
        PROVE  \E k \in InUse : task'[j].req = task[k].req
    <3>1. /\ task'[i].req = task[i].req /\ task'[d].req = task[i].req
          /\ \A k \in Slots \ {i, d} : task'[k] = task[k]
      BY <1>0, <2>4, TaskFields DEF Calls, Callee
    <3> QED
      BY <3>1, NextUsed DEF InUse
  <2> QED
    BY <1>1, <2>2, <2>3, <2>4, StepForms DEF Asks
<1>2. ASSUME NEW q \in Requests, Issue(q)
      PROVE  \/ \E i \in InUse : task'[j].req = task[i].req
             \/ answer[task'[j].req] = NoResult
  <2>1. PICK d : Starts(d, q)
    BY <1>0, <1>2, IssueForm
  <2>2. /\ task'[d].req = q /\ answer[q] = NoResult
        /\ \A k \in Slots \ {d} : task'[k] = task[k]
    BY <1>2, <2>1 DEF Starts, NewTask, Issue
  <2> QED
    BY <2>2, NextUsed DEF InUse
<1>3. ASSUME NEW s \in Servers, Crash(s)
      PROVE  \E i \in InUse : task'[j].req = task[i].req
  BY <1>0, <1>3, CrashLeaves
<1>4. ASSUME NEW s \in Servers, NEW t \in Servers, MarkDead(s, t)
      PROVE  \E i \in InUse : task'[j].req = task[i].req
  BY <1>4 DEF MarkDead, InUse
<1> QED
  BY <1>1, <1>2, <1>3, <1>4 DEF Next

-----------------------------------------------------------------------------
(***************************************************************************)
(* What steps do to the members of a channel                               *)
(***************************************************************************)
\* What the operations make of the members of a channel.
LEMMA OpMembers ==
  ASSUME NEW st, StateOK(st), NEW r, r.op \in Ops \ Gathers,
         r.op \in {"leave_channel", "send_message"} => ChannelExists(st, r.channel),
         NEW u, NEW ch
  PROVE  LET tt == OpEffect(st, r).state
         IN u \in Chan(tt, ch).users <=>
              IF ChangesMembership(r, u, ch) THEN r.op = "join_channel"
              ELSE u \in Chan(st, ch).users
<1>1. CASE ~WritesTo(r, ch)
  <2>1. ~ChangesMembership(r, u, ch)
    BY <1>1 DEF WritesTo, OnChannel, ChangesMembership
  <2> QED
    BY <1>1, <2>1, OpElsewhere
<1>2. CASE WritesTo(r, ch) /\ r.op = "join_channel"
  BY <1>2, JoinChannelMakes DEF OpEffect, WritesTo, ChangesMembership
<1>3. CASE WritesTo(r, ch) /\ r.op = "leave_channel"
  BY <1>3, LeaveChannelMakes DEF OpEffect, WritesTo, ChangesMembership
<1>4. CASE WritesTo(r, ch) /\ r.op = "send_message"
  BY <1>4, SendMessageMakes DEF OpEffect, WritesTo, ChangesMembership
<1> QED
  BY <1>1, <1>2, <1>3, <1>4 DEF WritesTo, OnChannel

\* What a replicated operation makes of them at the backup.
LEMMA ReplicaMembers ==
  ASSUME NEW st, StateOK(st), NEW r, r.op \in Writes, NEW result,
         r.op = "send_message" => ChannelExists(st, r.channel),
         NEW u, NEW ch
  PROVE  LET tt == ReplicaEffect(st, r, result).state
         IN u \in Chan(tt, ch).users <=>
              IF ChangesMembership(r, u, ch) THEN r.op = "join_channel"
              ELSE u \in Chan(st, ch).users
<1>1. CASE ~WritesTo(r, ch)
  <2>1. ~ChangesMembership(r, u, ch)
    BY <1>1 DEF WritesTo, OnChannel, ChangesMembership
  <2> QED
    BY <1>1, <2>1, ReplicaElsewhere
<1>2. CASE WritesTo(r, ch) /\ r.op = "join_channel"
  BY <1>2, JoinChannelMakes DEF ReplicaEffect, WritesTo, ChangesMembership
<1>3. CASE WritesTo(r, ch) /\ r.op = "leave_channel" /\ ChannelExists(st, ch)
  BY <1>3, LeaveChannelMakes DEF ReplicaEffect, WritesTo, ChangesMembership
<1>4. CASE WritesTo(r, ch) /\ r.op = "leave_channel" /\ ~ChannelExists(st, ch)
  <2>1. ReplicaEffect(st, r, result).state = st
    BY <1>4 DEF ReplicaEffect, WritesTo, Effect
  <2>2. Chan(st, ch).users = {}
    BY <1>4 DEF Chan, NewChannel
  <2> QED
    BY <1>4, <2>1, <2>2 DEF ChangesMembership, WritesTo
<1>5. CASE WritesTo(r, ch) /\ r.op = "send_message"
  BY <1>5, ReplicateMakes DEF ReplicaEffect, WritesTo, ChangesMembership
<1> QED
  BY <1>1, <1>2, <1>3, <1>4, <1>5 DEF WritesTo, OnChannel

\* What the servers hold, who is up, what clients were told, and what is under way.
Here == [state |-> state, up |-> up, answer |-> answer, busy |-> Busy]

LEMMA HereFields ==
  /\ Here.state = state /\ Here.up = up /\ Here.answer = answer /\ Here.busy = Busy
  /\ Here'.state = state' /\ Here'.up = up' /\ Here'.answer = answer' /\ Here'.busy = Busy'
BY DEF Here

\* From v to w no server comes back, nothing is told again, what was answered and is over
\* does not begin again, and who changes a member works for a change of that member.
Makes(o, u, ch, st) == u \in Chan(st, ch).users <=> o.op = "join_channel"

Passes(v, w) ==
  /\ w.up \subseteq v.up
  /\ \A r \in Requests : v.answer[r] # NoResult =>
       /\ w.answer[r] = v.answer[r]
       /\ r \notin v.busy => r \notin w.busy
  /\ \A s \in Servers : \A u, ch :
       \/ u \in Chan(w.state[s], ch).users <=> u \in Chan(v.state[s], ch).users
       \/ \E o \in v.busy \cap Requests : /\ ChangesMembership(o, u, ch)
                                          /\ Informed(o, v)
                                          /\ Makes(o, u, ch, w.state[s])

\* Every step leaves the members as they are, or makes a change that is under way.
LEMMA StepPasses ==
  ASSUME IInv, Tree, Safe, Next
  PROVE  Passes(Here, Here')
<1>1. /\ up' \subseteq up
      /\ \A r \in Requests : answer[r] # NoResult => answer'[r] = answer[r]
  BY StepLater, NowFields DEF Later
<1>2. \A r \in Requests : answer[r] # NoResult /\ r \notin Busy => r \notin Busy'
  BY FinishedStays
<1>3. ASSUME NEW s \in Servers, NEW u, NEW ch
      PROVE  \/ u \in Chan(state'[s], ch).users <=> u \in Chan(state[s], ch).users
             \/ \E o \in Busy \cap Requests : /\ ChangesMembership(o, u, ch)
                                              /\ Informed(o, Here)
                                              /\ Makes(o, u, ch, state'[s])
  <2>0. ASSUME NEW i \in InUse, NEW tt, state' = [state EXCEPT ![At(i)] = tt],
               LET r == Req(i)
               IN u \in Chan(tt, ch).users <=>
                    IF ChangesMembership(r, u, ch) THEN r.op = "join_channel"
                    ELSE u \in Chan(state[At(i)], ch).users
        PROVE  \/ u \in Chan(state'[s], ch).users <=> u \in Chan(state[s], ch).users
               \/ \E o \in Busy \cap Requests : /\ ChangesMembership(o, u, ch)
                                                /\ Informed(o, Here)
                                                /\ Makes(o, u, ch, state'[s])
    <3>1. Req(i) \in Busy \cap Requests
      BY InUseOK DEF Busy
    <3>2. Informed(Req(i), Here)
      BY InUseOK, NowFields, HereFields DEF Informed
    <3>3. s # At(i) => state'[s] = state[s]
      BY <2>0, WritersOK
    <3>4. s = At(i) => state'[s] = tt
      BY <2>0, WritersOK
    <3>5. CASE s = At(i) /\ ChangesMembership(Req(i), u, ch)
      BY <2>0, <3>1, <3>2, <3>4, <3>5 DEF Makes
    <3> QED
      BY <2>0, <3>3, <3>4, <3>5
  <2>1. ASSUME NEW i \in InUse, Apply(i)
        PROVE  \/ u \in Chan(state'[s], ch).users <=> u \in Chan(state[s], ch).users
               \/ \E o \in Busy \cap Requests : /\ ChangesMembership(o, u, ch)
                                                /\ Informed(o, Here)
                                                /\ Makes(o, u, ch, state'[s])
    <3>0. TasksOK(task, state) /\ task[i].pc = "apply"
      BY <2>1 DEF IInv, Apply
    <3>1. \/ state' = state
          \/ state' = [state EXCEPT ![At(i)] = Applied(i).state]
      BY <2>1, <3>0, ApplyForms
    <3>2. /\ StateOK(state[At(i)]) /\ Req(i).op \in Ops \ Gathers
          /\ Req(i).op \in {"leave_channel", "send_message"} =>
               ChannelExists(state[At(i)], Req(i).channel)
      BY <3>0, WritersOK DEF PcOK, Routed, Looked
    <3>3. LET r == Req(i)
          IN u \in Chan(Applied(i).state, ch).users <=>
               IF ChangesMembership(r, u, ch) THEN r.op = "join_channel"
               ELSE u \in Chan(state[At(i)], ch).users
      BY <3>2, OpMembers DEF Applied
    <3> QED
      BY <2>0, <3>1, <3>3
  <2>2. ASSUME NEW i \in InUse, ServeReplicate(i)
        PROVE  \/ u \in Chan(state'[s], ch).users <=> u \in Chan(state[s], ch).users
               \/ \E o \in Busy \cap Requests : /\ ChangesMembership(o, u, ch)
                                                /\ Informed(o, Here)
                                                /\ Makes(o, u, ch, state'[s])
    <3>0. TasksOK(task, state) /\ task[i].pc = "start" /\ task[i].kind = "replicate"
      BY <2>2 DEF IInv, ServeReplicate
    <3>1. \/ state' = state
          \/ ~ChannelMissing(i) /\ state' = [state EXCEPT ![At(i)] = Replicated(i).state]
      BY <2>2, <3>0, ServeForms
    <3>2. StateOK(state[At(i)]) /\ Req(i).op \in Writes
      BY <3>0, WritersOK DEF PcOK
    <3>3. ~ChannelMissing(i) =>
            LET r == Req(i)
            IN u \in Chan(Replicated(i).state, ch).users <=>
                 IF ChangesMembership(r, u, ch) THEN r.op = "join_channel"
                 ELSE u \in Chan(state[At(i)], ch).users
      BY <3>2, ReplicaMembers DEF Replicated, ChannelMissing
    <3> QED
      BY <2>0, <3>1, <3>3
  <2> QED
    BY <2>1, <2>2, WhoWrites
<1> QED
  BY <1>1, <1>2, <1>3, HereFields DEF Passes

-----------------------------------------------------------------------------
(***************************************************************************)
(* The members that clients are told of                                    *)
(***************************************************************************)
Change(q) == q.op \in {"join_channel", "leave_channel"}
SameMember(o, q) == ChangesMembership(o, q.user, q.channel)

\* For one who asks r, change q is the last of its member: the others came before q, and
\* their clients were there to be told, or they come after r.
Last(q, r, w) ==
  \A o \in Requests \ {q} : SameMember(o, q) =>
    (Follows(q, o) /\ w.answer[o].code # "LOST") \/ Follows(o, r)

\* As long as such a client waits, server s has what q made of the member.
Waiting(q, r, w) == w.answer[r] = NoResult /\ Last(q, r, w)
Shows(s, q, w) ==
  \A r \in Requests : Waiting(q, r, w) => Makes(q, q.user, q.channel, w.state[s])

\* The primary carried q out, when the changes before it were over; and so did the backup.
MadeOK(q, w) ==
  /\ \A o \in Before(q) : SameMember(o, q) /\ w.answer[o].code # "LOST" => o \notin w.busy
  /\ Shows(PrimaryOf(q), q, w)
CopiedOK(q, w) == BackupOf(q) \in w.up => Shows(BackupOf(q), q, w)

\* What r is told is true of the last changes before it (MembershipSeen).
Tells(r, q, result) ==
  /\ r.op = "list_channel_users" /\ result.code \in {"OK", "UNKNOWN_CHANNEL"} =>
       (q.user \in result.value <=> q.op = "join_channel")
  /\ r.op = "send_message" /\ r.user = q.user =>
       /\ q.op = "join_channel" => result.code \notin {"NOT_A_MEMBER", "UNKNOWN_CHANNEL"}
       /\ q.op = "leave_channel" => result.code # "OK"

Seen(r, result, w) ==
  \A q \in Before(r) :
    Change(q) /\ q.channel = r.channel /\ Acked(q, w) /\ Last(q, r, w) => Tells(r, q, result)

\* What a handler of r that ends may say, and what one has that replicates.
SaysOK(kind, r, result, w) ==
  /\ kind = "op" /\ Change(r) /\ result.code = "OK" /\ result.by = PrimaryOf(r) =>
       MadeOK(r, w) /\ CopiedOK(r, w)
  /\ kind = "replicate" /\ Change(r) => MadeOK(r, w) /\ CopiedOK(r, w)
  /\ kind \in {"exists", "replicate"} /\ r.op = "send_message" =>
       result.code \in {"OK", "UNKNOWN_USER"}
  /\ kind = "op" /\ w.answer[r] = NoResult => Seen(r, result, w)

MemberOK(x, w) ==
  /\ x.pc = "replied" => SaysOK(x.kind, x.req, x.result, w)
  /\ x.pc \in {"replicate", "replicating"} =>
       /\ Change(x.req) /\ x.result.by = PrimaryOf(x.req) => MadeOK(x.req, w)
       /\ w.answer[x.req] = NoResult => Seen(x.req, x.result, w)
  /\ x.pc = "start" /\ x.kind = "replicate" /\ Change(x.req) => MadeOK(x.req, w)

ToldMembers(r, w) ==
  w.answer[r] # NoResult =>
    /\ Change(r) /\ Acked(r, w) => MadeOK(r, w) /\ CopiedOK(r, w)
    /\ Seen(r, w.answer[r], w)

Members ==
  /\ \A i \in InUse : MemberOK(task[i], Here)
  /\ \A r \in Requests : ToldMembers(r, Here)

\* What was told is not lost, and the last change was the last before.
LEMMA LastBefore ==
  ASSUME NEW v, NEW w, Passes(v, w), NEW q \in Requests, Informed(q, v), NEW r, Last(q, r, w)
  PROVE  Last(q, r, v)
BY DEF Passes, Last, Informed, Before

\* Nobody undoes a change as long as a client waits to whom it is the last.
LEMMA ShowsStays ==
  ASSUME NEW v, NEW w, Passes(v, w), NEW q \in Requests, Informed(q, v), MadeOK(q, v),
         NEW s \in Servers, Shows(s, q, v)
  PROVE  Shows(s, q, w)
<1> SUFFICES ASSUME NEW r \in Requests, Waiting(q, r, w)
             PROVE  Makes(q, q.user, q.channel, w.state[s])
  BY DEF Shows
<1>1. Last(q, r, v) /\ v.answer[r] = NoResult
  BY LastBefore DEF Waiting, Passes
<1>2. Makes(q, q.user, q.channel, v.state[s])
  BY <1>1 DEF Shows, Waiting
<1>3. ASSUME NEW o \in v.busy \cap Requests, SameMember(o, q), Informed(o, v)
      PROVE  o = q
  <2>1. CASE Follows(o, r)
    BY <1>1, <1>3, <2>1 DEF Informed, Before
  <2>2. CASE Follows(q, o) /\ v.answer[o].code # "LOST"
    BY <1>3, <2>2 DEF MadeOK, Before
  <2> QED
    BY <1>1, <1>3, <2>1, <2>2 DEF Last
<1>4. \/ q.user \in Chan(w.state[s], q.channel).users
           <=> q.user \in Chan(v.state[s], q.channel).users
      \/ Makes(q, q.user, q.channel, w.state[s])
  BY <1>3 DEF Passes, SameMember
<1> QED
  BY <1>2, <1>4 DEF Makes

\* So an owner that has the change keeps it,
LEMMA MadeStays ==
  ASSUME NEW v, NEW w, Passes(v, w), NEW q \in Requests, Informed(q, v), MadeOK(q, v)
  PROVE  MadeOK(q, w)
<1>1. \A o \in Before(q) : SameMember(o, q) /\ w.answer[o].code # "LOST" => o \notin w.busy
  BY DEF MadeOK, Passes, Informed, Before
<1>2. PrimaryOf(q) \in Servers
  BY OwnersOf DEF PrimaryOf
<1>3. Shows(PrimaryOf(q), q, w)
  BY <1>2, ShowsStays DEF MadeOK
<1> QED
  BY <1>1, <1>3 DEF MadeOK

\* and so do both.
LEMMA CopiedStays ==
  ASSUME NEW v, NEW w, Passes(v, w), NEW q \in Requests, Informed(q, v), MadeOK(q, v),
         CopiedOK(q, v)
  PROVE  CopiedOK(q, w)
<1>1. BackupOf(q) \in Servers
  BY OwnersOf DEF BackupOf
<1>2. BackupOf(q) \in w.up => BackupOf(q) \in v.up
  BY DEF Passes
<1> QED
  BY <1>1, <1>2, ShowsStays DEF CopiedOK

\* What a client was told, or is to be told, stays true.
LEMMA SeenStays ==
  ASSUME NEW v, NEW w, Passes(v, w), \A q \in Requests : v.answer[q] # NoResult => Informed(q, v),
         NEW r \in Requests, Informed(r, v), NEW result, Seen(r, result, v)
  PROVE  Seen(r, result, w)
<1> SUFFICES ASSUME NEW q \in Before(r), Change(q), q.channel = r.channel, Acked(q, w),
                    Last(q, r, w)
             PROVE  Tells(r, q, result)
  BY DEF Seen
<1>1. q \in Requests /\ v.answer[q] # NoResult
  BY DEF Before, Informed
<1>2. Acked(q, v)
  BY <1>1 DEF Acked, Passes
<1>3. Last(q, r, v)
  BY <1>1, LastBefore
<1> QED
  BY <1>2, <1>3 DEF Seen

LEMMA SaysStays ==
  ASSUME NEW v, NEW w, Passes(v, w), \A q \in Requests : v.answer[q] # NoResult => Informed(q, v),
         NEW r \in Requests, Informed(r, v), NEW kind, NEW result, SaysOK(kind, r, result, v)
  PROVE  SaysOK(kind, r, result, w)
<1>1. w.answer[r] = NoResult => v.answer[r] = NoResult
  BY DEF Passes
<1> QED
  BY <1>1, MadeStays, CopiedStays, SeenStays DEF SaysOK

LEMMA MemberStays ==
  ASSUME NEW v, NEW w, Passes(v, w), \A q \in Requests : v.answer[q] # NoResult => Informed(q, v),
         NEW x, x.req \in Requests, Informed(x.req, v), MemberOK(x, v)
  PROVE  MemberOK(x, w)
<1>1. w.answer[x.req] = NoResult => v.answer[x.req] = NoResult
  BY DEF Passes
<1> QED
  BY <1>1, SaysStays, MadeStays, SeenStays DEF MemberOK

LEMMA ToldMembersStays ==
  ASSUME NEW v, NEW w, Passes(v, w), \A q \in Requests : v.answer[q] # NoResult => Informed(q, v),
         NEW r \in Requests, v.answer[r] # NoResult, ToldMembers(r, v)
  PROVE  ToldMembers(r, w)
<1>1. w.answer[r] = v.answer[r] /\ Informed(r, v)
  BY DEF Passes
<1>2. Acked(r, w) => Acked(r, v)
  BY <1>1 DEF Acked
<1> QED
  BY <1>1, <1>2, MadeStays, CopiedStays, SeenStays DEF ToldMembers

\* Requests under way, and those that were answered, were sent when those before them were.
LEMMA HereInformed ==
  ASSUME IInv, Tree, Safe
  PROVE  /\ \A r \in Requests : answer[r] # NoResult => Informed(r, Here)
         /\ \A i \in InUse : Informed(Req(i), Here)
<1>1. \A r : Informed(r, Now) <=> Informed(r, Here)
  BY NowFields, HereFields DEF Informed
<1>2. \A r \in Requests : ToldOK(r, Now)
  BY DEF Safe
<1> QED
  BY <1>1, <1>2, InUseOK, NowFields DEF ToldOK

\* What stays as it is when a handler takes a step.
LEMMA MembersStay ==
  ASSUME IInv, Tree, Safe, Members, Next
  PROVE  /\ \A j \in InUse : /\ MemberOK(task[j], Here')
                             /\ \A kind, result : SaysOK(kind, Req(j), result, Here) =>
                                  SaysOK(kind, Req(j), result, Here')
                             /\ \A result : Seen(Req(j), result, Here) =>
                                  Seen(Req(j), result, Here')
                             /\ Change(Req(j)) /\ MadeOK(Req(j), Here) => MadeOK(Req(j), Here')
         /\ \A r \in Requests : answer'[r] = answer[r] => ToldMembers(r, Here')
<1>1. Passes(Here, Here')
  BY StepPasses
<1>2. /\ \A r \in Requests : Here.answer[r] # NoResult => Informed(r, Here)
      /\ \A i \in InUse : Informed(Req(i), Here) /\ Req(i) \in Requests /\ Req(i) = task[i].req
  BY HereInformed, HereFields, InUseOK
<1>3. ASSUME NEW r \in Requests, answer'[r] = answer[r]
      PROVE  ToldMembers(r, Here')
  <2>1. CASE answer[r] = NoResult
    BY <1>3, <2>1, HereFields DEF ToldMembers
  <2>2. CASE answer[r] # NoResult
    BY <1>1, <1>2, <2>2, ToldMembersStays, HereFields DEF Members
  <2> QED
    BY <2>1, <2>2
<1>4. ASSUME NEW j \in InUse
      PROVE  MemberOK(task[j], Here')
  BY <1>1, <1>2, MemberStays DEF Members
<1> QED
  BY <1>1, <1>2, <1>3, <1>4, SaysStays, SeenStays, MadeStays

\* What has to be shown of a step: the handlers and the answers that it changes.
LEMMA MembersRest ==
  ASSUME IInv, Tree, Safe, Members, Next,
         \A j \in InUse' : \/ j \in InUse /\ task'[j] = task[j]
                           \/ MemberOK(task'[j], Here'),
         \A r \in Requests : \/ answer'[r] = answer[r]
                             \/ answer'[r].code \in {"LOST", "PANIC"}
                             \/ ToldMembers(r, Here')
  PROVE  Members'
<1>1. \A r \in Requests : answer'[r].code \in {"LOST", "PANIC"} => ToldMembers(r, Here')
  BY HereFields DEF ToldMembers, Acked, Seen, Tells
<1> QED
  BY <1>1, MembersStay DEF Members

\* A handler that goes on.
LEMMA TurnMembers ==
  ASSUME IInv, Tree, Safe, Members, Next, NEW i \in InUse, NEW pc, NEW result, NEW todo,
         Turns(i, pc, result, todo),
         MemberOK(Task(task[i], pc, Client, result, todo), Here')
  PROVE  Members'
<1>1. /\ Leaves(i) /\ task'[i] = Task(task[i], pc, Client, result, todo) /\ answer' = answer
  BY FormLeaves
<1> QED
  BY <1>1, MembersRest DEF Leaves

\* A handler that ends, with a result it may give.
LEMMA EndMembers ==
  ASSUME IInv, Tree, Safe, Members, Next, NEW i \in InUse, NEW result, Ends(i, result),
         \/ result = Panicked
         \/ /\ SaysOK(task[i].kind, Req(i), result, Here')
            /\ Top(i) => Seen(Req(i), result, Here')
            /\ Top(i) /\ Change(Req(i)) /\ result.code = "OK" /\ result.by = PrimaryOf(Req(i)) =>
                 MadeOK(Req(i), Here') /\ CopiedOK(Req(i), Here')
  PROVE  Members'
<1>1. /\ Leaves(i) /\ task'[i] = Ending(i, result)
      /\ Req(i) \in Requests /\ DOMAIN answer = Requests /\ Req(i) = task[i].req
  BY FormLeaves, InUseOK DEF Tree
<1>2. i \in InUse' => MemberOK(task'[i], Here')
  <2>1. CASE task'[i] = Free
    BY <2>1, NextUsed, FreeFields
  <2>2. CASE task'[i] = Task(task[i], "lost", Client, task[i].result, task[i].todo)
    BY <2>2, TaskFields DEF MemberOK
  <2>3. CASE result # Panicked /\ task'[i] = Task(task[i], "replied", Client, result, task[i].todo)
    BY <1>1, <2>3, TaskFields DEF MemberOK
  <2> QED
    BY <1>1, <2>1, <2>2, <2>3 DEF Ending
<1>3. ASSUME NEW r \in Requests, answer'[r] # answer[r], result # Panicked
      PROVE  ToldMembers(r, Here')
  <2>1. Top(i) /\ r = Req(i) /\ answer'[r] = result
    BY <1>1, <1>3 DEF Ends
  <2> QED
    BY <1>3, <2>1, HereFields DEF ToldMembers, Acked
<1>4. ASSUME NEW r \in Requests, answer'[r] # answer[r], result = Panicked
      PROVE  answer'[r].code = "PANIC"
  BY <1>1, <1>4 DEF Ends, Panicked
<1> QED
  BY <1>1, <1>2, <1>3, <1>4, MembersRest DEF Leaves

\* It may give what it could give before the step.
LEMMA EndKnown ==
  ASSUME IInv, Tree, Safe, Members, Next, NEW i \in InUse, NEW result, Ends(i, result),
         result = Panicked \/ SaysOK(task[i].kind, Req(i), result, Here)
  PROVE  Members'
<1>1. Top(i) => task[i].kind = "op" /\ answer[Req(i)] = NoResult
  BY InUseOK
<1>2. ASSUME SaysOK(task[i].kind, Req(i), result, Here)
      PROVE  /\ SaysOK(task[i].kind, Req(i), result, Here')
             /\ Top(i) => Seen(Req(i), result, Here')
  <2>1. SaysOK(task[i].kind, Req(i), result, Here')
    BY <1>2, MembersStay
  <2>2. Top(i) => Seen(Req(i), result, Here)
    BY <1>1, <1>2, HereFields DEF SaysOK
  <2> QED
    BY <2>1, <2>2, MembersStay
<1> QED
  BY <1>1, <1>2, EndMembers DEF SaysOK

\* A handler that calls another.
LEMMA AskMembers ==
  ASSUME IInv, Tree, Safe, Members, Next, NEW i \in InUse, NEW kind, NEW to, NEW result, NEW pc,
         Asks(i, kind, to, result, pc),
         \A d : MemberOK(Task(task[i], pc, d, task[i].result, task[i].todo), Here'),
         kind = "replicate" /\ Change(Req(i)) => MadeOK(Req(i), Here')
  PROVE  Members'
<1>1. CASE Turns(i, pc, task[i].result, task[i].todo)
  BY <1>1, TurnMembers
<1>2. ASSUME NEW d, Calls(i, d, kind, to, result, pc)
      PROVE  Members'
  <2>1. /\ task'[i] = Task(task[i], pc, d, task[i].result, task[i].todo)
        /\ task'[d] = Callee(i, kind, to, result)
        /\ \A j \in Slots \ {i, d} : task'[j] = task[j]
        /\ answer' = answer
    BY <1>2 DEF Calls
  <2>2. MemberOK(Callee(i, kind, to, result), Here')
    BY DEF MemberOK, Callee
  <2>3. ASSUME NEW j \in InUse'
        PROVE  (j \in InUse /\ task'[j] = task[j]) \/ MemberOK(task'[j], Here')
    BY <2>1, <2>2, <2>3, NextUsed DEF InUse
  <2> QED
    BY <2>1, <2>3, MembersRest
<1> QED
  BY <1>1, <1>2 DEF Asks

\* A step that says nothing of members, and the answer of a call.
LEMMA QuietMember ==
  ASSUME NEW x, NEW w, x.pc \notin {"start", "replicate", "replicating", "replied"}
  PROVE  MemberOK(x, w)
BY DEF MemberOK

LEMMA AnswerSays ==
  ASSUME IInv, Tree, Safe, Members, NEW i \in InUse, NEW pc, Answered(i, pc)
  PROVE  SaysOK(task[task[i].child].kind, Req(i), Answer(i), Here)
<1>1. LET c == task[i].child
      IN /\ c \in InUse /\ task[c].pc = "replied" /\ task[c].req = Req(i)
         /\ Answer(i) = task[c].result
  BY AnswerForm DEF IInv
<1>2. MemberOK(task[task[i].child], Here)
  BY <1>1 DEF Members
<1> QED
  BY <1>1, <1>2 DEF MemberOK

\* Forwarding, and what comes back.
LEMMA ForwardMembers ==
  ASSUME IInv, Tree, Safe, Members, Next, NEW i \in InUse,
         Route(i) \/ Forward(i) \/ ForwardAnswered(i) \/ ForwardRetries(i)
  PROVE  Members'
<1>0. TasksOK(task, state)
  BY DEF IInv
<1>1. CASE Route(i)
  <2>1. Turns(i, Routes(i), task[i].result, task[i].todo)
    BY <1>0, <1>1, ForwardForms
  <2>2. Routes(i) \in {"forward", "apply", "exists", "check"}
    BY DEF Routes
  <2> QED
    BY <2>1, <2>2, TurnMembers, QuietMember, TaskFields
<1>2. CASE Forward(i)
  <2>1. \/ Ends(i, Panicked)
        \/ Asks(i, "op", Location(At(i), OwnerOf(i)), NoResult, "forwarded")
    BY <1>0, <1>2, ForwardForms
  <2>2. \A d : MemberOK(Task(task[i], "forwarded", d, task[i].result, task[i].todo), Here')
    BY QuietMember, TaskFields
  <2> QED
    BY <2>1, <2>2, EndKnown, AskMembers
<1>3. CASE ForwardAnswered(i)
  <2>1. Ends(i, Answer(i)) /\ Answered(i, "forwarded")
    BY <1>0, <1>3, ForwardForms DEF ForwardAnswered
  <2>2. task[i].kind = "op" /\ task[task[i].child].kind = "op"
    BY <1>0, <2>1, InUseOK, AnswerForm DEF Answered, Waits, Over
  <2> QED
    BY <2>1, <2>2, AnswerSays, EndKnown
<1>4. CASE ForwardRetries(i)
  <2>1. Turns(i, "route", task[i].result, task[i].todo)
    BY <1>0, <1>4, ForwardForms
  <2> QED
    BY <2>1, TurnMembers, QuietMember, TaskFields
<1> QED
  BY <1>1, <1>2, <1>3, <1>4

\* A server that carries out a request shows the last changes before it.
LEMMA OwnerShows ==
  ASSUME IInv, Tree, Safe, Members, NEW i \in InUse, task[i].kind = "op", task[i].pc \in Owned,
         Subject(Req(i)) = Req(i).channel, answer[Req(i)] = NoResult,
         NEW q \in Before(Req(i)), Change(q), q.channel = Req(i).channel,
         Acked(q, Here), Last(q, Req(i), Here)
  PROVE  q.user \in Chan(state[At(i)], Req(i).channel).users <=> q.op = "join_channel"
<1> DEFINE r == Req(i)
<1>1. /\ r \in Requests /\ q \in Requests /\ task[i].req = r /\ task[i].at = At(i)
      /\ At(i) \in up /\ HandledOK(task[i], Now)
  BY InUseOK DEF Before, Owned, Over
<1>2. Subject(q) = Subject(r)
  BY Subjects DEF Change
<1>3. At(i) = PrimaryOf(q) \/ At(i) = BackupOf(q)
  BY <1>1, <1>2 DEF HandledOK, Placed, PrimaryOf, BackupOf
<1>4. MadeOK(q, Here) /\ CopiedOK(q, Here)
  <2>1. answer[q] # NoResult
    BY HereFields DEF Acked, NoResult
  <2> QED
    BY <1>1, <2>1, HereFields DEF Members, ToldMembers
<1>5. Waiting(q, r, Here)
  BY HereFields DEF Waiting
<1>6. Shows(At(i), q, Here)
  BY <1>1, <1>3, <1>4, HereFields DEF MadeOK, CopiedOK
<1> QED
  BY <1>1, <1>5, <1>6, HereFields DEF Shows, Makes

\* Asking for the channel, and for the user.
LEMMA ExistsMembers ==
  ASSUME IInv, Tree, Safe, Members, Next, NEW i \in InUse,
         \/ CheckChannel(i) \/ ExistsHere(i) \/ ExistsElsewhere(i) \/ ExistsForward(i)
         \/ ExistsAnswered(i) \/ ExistsRetries(i)
  PROVE  Members'
<1>0. TasksOK(task, state) /\ task[i].kind = "op"
      /\ Req(i).op \in {"join_channel", "leave_channel", "send_message"}
  <2>1. task[i].pc \in {"check", "exists", "existsForward", "asked"}
    BY DEF CheckChannel, ExistsHere, ExistsElsewhere, ExistsForward, ExistsAnswered, ExistsRetries,
       Answered, Unavailable
  <2> QED
    BY <2>1, Working DEF IInv, StandsOK, Over
<1>1. ASSUME NEW pc \in {"exists", "apply", "existsForward"},
             Turns(i, pc, task[i].result, task[i].todo)
      PROVE  Members'
  BY <1>1, TurnMembers, QuietMember, TaskFields
<1>2. SaysOK("op", Req(i), NoUser, Here)
  BY <1>0 DEF SaysOK, NoUser, NoResult, Seen, Tells
<1>3. CASE CheckChannel(i)
  <2>1. \/ Ends(i, Panicked) \/ Turns(i, "exists", task[i].result, task[i].todo)
        \/ Ends(i, NoChannel) /\ ~ChannelExists(state[At(i)], Req(i).channel)
    BY <1>0, <1>3, QuietForms DEF CheckChannel, NoChannel
  <2>2. ASSUME ~ChannelExists(state[At(i)], Req(i).channel)
        PROVE  SaysOK("op", Req(i), NoChannel, Here)
    <3>1. Subject(Req(i)) = Req(i).channel /\ task[i].pc \in Owned
      BY <1>0, <1>3, Subjects DEF CheckChannel, Owned
    <3>2. Chan(state[At(i)], Req(i).channel).users = {}
      BY <2>2 DEF Chan, NewChannel
    <3>3. NoChannel.code = "UNKNOWN_CHANNEL"
      BY DEF NoChannel, NoResult
    <3>4. answer[Req(i)] = NoResult => Seen(Req(i), NoChannel, Here)
      BY <1>0, <3>1, <3>2, <3>3, OwnerShows DEF Seen, Tells
    <3> QED
      BY <1>0, <3>3, <3>4, HereFields DEF SaysOK
  <2> QED
    BY <1>0, <1>1, <2>1, <2>2, EndKnown
<1>4. CASE ExistsHere(i)
  BY <1>0, <1>1, <1>2, <1>4, ExistsForms, EndKnown
<1>5. CASE ExistsElsewhere(i)
  BY <1>0, <1>1, <1>5, ExistsForms
<1>6. CASE ExistsForward(i)
  <2>1. \/ Ends(i, Panicked)
        \/ Asks(i, "exists", Location(At(i), Owner(Req(i).user)), NoResult, "asked")
    BY <1>0, <1>6, ExistsForms
  <2>2. \A d : MemberOK(Task(task[i], "asked", d, task[i].result, task[i].todo), Here')
    BY QuietMember, TaskFields
  <2> QED
    BY <2>1, <2>2, EndKnown, AskMembers
<1>7. CASE ExistsAnswered(i)
  <2>1. /\ Answered(i, "asked")
        /\ \/ Turns(i, "apply", task[i].result, task[i].todo)
           \/ Answer(i).code # "OK" /\ Ends(i, Answer(i))
    BY <1>0, <1>7, ExistsForms DEF ExistsAnswered
  <2>2. task[task[i].child].kind = "exists"
    BY <1>0, <2>1, AnswerForm DEF Waits
  <2>3. SaysOK("exists", Req(i), Answer(i), Here)
    BY <2>1, <2>2, AnswerSays
  <2>4. Answer(i).code # "OK" => SaysOK("op", Req(i), Answer(i), Here)
    BY <1>0, <2>3 DEF SaysOK, Seen, Tells
  <2> QED
    BY <1>0, <1>1, <2>1, <2>4, EndKnown
<1>8. CASE ExistsRetries(i)
  BY <1>0, <1>1, <1>8, ExistsForms
<1> QED
  BY <1>3, <1>4, <1>5, <1>6, <1>7, <1>8

\* What the operation says of a member.
LEMMA OpTells ==
  ASSUME NEW st, NEW r, r.op \in Ops \ Gathers,
         r.op = "send_message" => ChannelExists(st, r.channel),
         NEW q, Change(q),
         q.user \in Chan(st, r.channel).users <=> q.op = "join_channel"
  PROVE  Tells(r, q, OpEffect(st, r).result)
<1>1. CASE r.op = "list_channel_users"
  BY <1>1 DEF OpEffect, ListChannelUsers, Effect, Chan, NewChannel, Tells
<1>2. CASE r.op = "send_message"
  BY <1>2 DEF OpEffect, SendMessage, Effect, Chan, Tells, Change
<1> QED
  BY <1>1, <1>2 DEF Tells

\* The operation on this server's own state.
LEMMA ApplyMembers ==
  ASSUME IInv, Tree, Safe, Answering, Members, Next, NEW i \in InUse, Apply(i)
  PROVE  Members'
<1> DEFINE r == Req(i)
           s == At(i)
           e == OpEffect(state[s], r)
           result == By(s, e.result)
<1>0. /\ TasksOK(task, state) /\ task[i].pc = "apply" /\ task[i].kind = "op" /\ up' = up
      /\ s \in up /\ s \in Servers /\ r \in Requests /\ task[i].req = r
      /\ StateOK(state[s]) /\ DOMAIN state = Servers /\ r.op \in Ops \ Gathers
      /\ r.op \in {"leave_channel", "send_message"} => ChannelExists(state[s], r.channel)
  BY InUseOK, WritersOK DEF IInv, Apply, PcOK, Routed, Looked, Over
<1>1. result.code = e.result.code /\ result.value = e.result.value /\ result.by = s
  BY DEF By
<1>2. \/ Ends(i, Panicked)
      \/ /\ state' = [state EXCEPT ![s] = e.state]
         /\ IF r.op \in Writes /\ result.code = "OK"
            THEN Turns(i, "replicate", result, task[i].todo)
            ELSE Ends(i, result)
  BY <1>0, ApplyForms DEF Applied
<1>3. answer[r] = NoResult => Seen(r, result, Here)
  <2> SUFFICES ASSUME answer[r] = NoResult, r.op \in {"list_channel_users", "send_message"},
                      NEW q \in Before(r), Change(q), q.channel = r.channel,
                      Acked(q, Here), Last(q, r, Here)
               PROVE  Tells(r, q, result)
    BY DEF Seen, Tells
  <2>1. q.user \in Chan(state[s], r.channel).users <=> q.op = "join_channel"
    <3>1. Subject(r) = r.channel /\ task[i].pc \in Owned
      BY <1>0, Subjects DEF Owned
    <3> QED
      BY <1>0, <3>1, OwnerShows
  <2>2. Tells(r, q, e.result)
    BY <1>0, <2>1, OpTells
  <2> QED
    BY <1>1, <2>2 DEF Tells
<1> HIDE DEF result
<1>4. CASE Ends(i, result) /\ ~(r.op \in Writes /\ result.code = "OK")
  <2>1. SaysOK("op", r, result, Here)
    BY <1>3, <1>4, HereFields DEF SaysOK, Change, Writes
  <2> QED
    BY <1>0, <1>4, <2>1, EndKnown
<1>5. CASE state' = [state EXCEPT ![s] = e.state] /\ Turns(i, "replicate", result, task[i].todo)
  <2>1. ASSUME Change(r), s = PrimaryOf(r)
        PROVE  MadeOK(r, Here')
    <3>1. ASSUME NEW o \in Before(r), SameMember(o, r), answer'[o].code # "LOST"
          PROVE  o \notin Busy'
      <4>1. o \in Requests /\ answer[o] # NoResult
        BY HereInformed, HereFields DEF Before, Informed
      <4>2. answer[o].code # "LOST"
        BY <3>1, <4>1, StillLost
      <4>3. PrimaryOf(o) = s
        <5>1. Change(o) /\ o.channel = r.channel
          BY <3>1 DEF SameMember, ChangesMembership, Change
        <5> QED
          BY <2>1, <5>1, Subjects DEF PrimaryOf, Change
      <4>4. o \notin Busy
        BY <1>0, <4>1, <4>2, <4>3, AnsweredFinished
      <4> QED
        BY <4>1, <4>4, FinishedStays
    <3>2. Makes(r, r.user, r.channel, state'[s])
      <4>1. ChangesMembership(r, r.user, r.channel)
        BY <2>1 DEF ChangesMembership, Change
      <4>2. state'[s] = e.state
        BY <1>0, <1>5
      <4> QED
        BY <1>0, <4>1, <4>2, OpMembers DEF Makes
    <3> QED
      BY <2>1, <3>1, <3>2, HereFields DEF MadeOK, Shows
  <2>2. answer'[r] = NoResult => Seen(r, result, Here')
    BY <1>3, <1>5, MembersStay DEF Turns
  <2>3. MemberOK(Task(task[i], "replicate", Client, result, task[i].todo), Here')
    BY <1>0, <1>1, <2>1, <2>2, TaskFields, HereFields DEF MemberOK
  <2> QED
    BY <1>5, <2>3, TurnMembers
<1> QED
  BY <1>2, <1>4, <1>5, EndKnown

\* Replicating, and what comes back.
LEMMA ReplicateMembers ==
  ASSUME IInv, Tree, Safe, Members, Next, NEW i \in InUse,
         Replicate(i) \/ ReplicateAnswered(i) \/ ReplicateUnavailable(i)
  PROVE  Members'
<1> DEFINE r == Req(i)
           s == At(i)
           p == PrimaryOf(r)
           b == BackupOf(r)
           result == task[i].result
<1>0. TasksOK(task, state) /\ task[i].pc \in {"replicate", "replicating"}
  BY DEF IInv, Replicate, ReplicateAnswered, ReplicateUnavailable, Answered, Unavailable
<1>1. /\ task[i].kind = "op" /\ s \in up /\ HandledOK(task[i], Now)
      /\ task[i].req = r /\ task[i].at = s /\ r.op \in Writes
      /\ p \in Servers /\ b \in Servers /\ s \in Servers /\ p # b
      /\ result.code = "OK" /\ (task[i].pc = "replicating" => task[i].child # Client)
      /\ OwnerOf(i).backup = b
  BY <1>0, InUseOK, WritersOK, Working DEF Over, PcOK, StandsOK, OwnerOf, BackupOf
<1>2. (s = p \/ s = b) /\ result.by = s
  BY <1>0, <1>1, NowFields DEF HandledOK, Placed, Promised, Owned
<1>3. /\ Change(r) /\ result.by = p => MadeOK(r, Here)
      /\ answer[r] = NoResult => Seen(r, result, Here)
  <2>1. MemberOK(task[i], Here)
    BY DEF Members
  <2> QED
    BY <1>0, <1>1, <2>1, HereFields DEF MemberOK
<1>4. task[i].child # Client =>
        /\ task[task[i].child].at = b /\ task[task[i].child].kind = "replicate"
        /\ s = p
  <2> DEFINE c == task[i].child
  <2> SUFFICES ASSUME c # Client PROVE task[c].at = b /\ task[c].kind = "replicate" /\ s = p
    OBVIOUS
  <2>1. /\ c \in InUse /\ task[c].req = r /\ task[c].at # s
        /\ <<task[i].pc, task[c].kind>> \in Waits
    BY <1>1 DEF Tree, CalleeOK
  <2>2. task[c].kind = "replicate"
    BY <1>0, <2>1 DEF Waits
  <2>3. task[c].at = b
    BY <2>1, <2>2, InUseOK DEF HandledOK, Placed
  <2> QED
    BY <1>2, <2>1, <2>2, <2>3
<1> HIDE DEF r, s, p, b, result
<1>5. ASSUME Ends(i, result), s = p => b \notin up
      PROVE  Members'
  <2>1. SaysOK("op", r, result, Here)
    BY <1>1, <1>2, <1>3, <1>5, HereFields DEF SaysOK, CopiedOK, p, b
  <2> QED
    BY <1>1, <1>5, <2>1, EndKnown DEF r
<1>6. CASE Replicate(i)
  <2>1. CASE b = s \/ ~alive[s][b]
    <3>1. Ends(i, result)
      BY <1>0, <1>1, <1>6, <2>1, ReplicateForms DEF s, result
    <3>2. s = p => b \notin up
      BY <1>1, <2>1, MarkedDead
    <3> QED
      BY <1>5, <3>1, <3>2
  <2>2. CASE ~(b = s \/ ~alive[s][b])
    <3>1. Asks(i, "replicate", b, result, "replicating") /\ s = p
      BY <1>0, <1>1, <1>2, <1>6, <2>2, ReplicateForms DEF s, result
    <3>2. /\ Change(r) => MadeOK(r, Here')
          /\ answer'[r] = NoResult => Seen(r, result, Here')
      <4>1. answer'[r] = NoResult => answer[r] = NoResult
        BY StepPasses, HereFields, InUseOK DEF Passes, r
      <4> QED
        BY <1>2, <1>3, <3>1, <4>1, MembersStay DEF r
    <3>3. \A d : MemberOK(Task(task[i], "replicating", d, task[i].result, task[i].todo), Here')
      BY <1>1, <3>2, TaskFields, HereFields DEF MemberOK, result
    <3> QED
      BY <3>1, <3>2, <3>3, AskMembers DEF r
  <2> QED
    BY <2>1, <2>2
<1>7. CASE ReplicateAnswered(i)
  <2> DEFINE told == By(s, Answer(i))
  <2>1. Ends(i, told) /\ Answered(i, "replicating")
    BY <1>0, <1>7, ReplicateForms DEF ReplicateAnswered, s
  <2>2. task[task[i].child].kind = "replicate"
    BY <1>4, <2>1 DEF Answered
  <2>3. SaysOK("replicate", r, Answer(i), Here)
    BY <2>1, <2>2, AnswerSays DEF r
  <2>4. told.code = Answer(i).code
    BY DEF By
  <2> HIDE DEF told
  <2>5. answer[r] = NoResult => Seen(r, told, Here)
    BY <1>1, <1>3, <2>3, <2>4 DEF Seen, Tells, SaysOK, Writes
  <2>6. SaysOK("op", r, told, Here)
    BY <2>3, <2>5, HereFields DEF SaysOK
  <2> QED
    BY <1>1, <2>1, <2>6, EndKnown DEF r
<1>8. CASE ReplicateUnavailable(i)
  <2>1. /\ Ends(i, result) /\ task[i].child # Client
        /\ ~alive[s][task[task[i].child].at]
    BY <1>0, <1>1, <1>8, ReplicateForms DEF ReplicateUnavailable, Unavailable, s, result
  <2>2. b \notin up
    BY <1>1, <1>4, <2>1, MarkedDead
  <2> QED
    BY <1>5, <2>1, <2>2
<1> QED
  BY <1>6, <1>7, <1>8

\* The backup carries out what it is sent.
LEMMA ReplicaMember ==
  ASSUME IInv, Tree, Safe, Members, Next, NEW i \in InUse, ServeReplicate(i)
  PROVE  Members'
<1> DEFINE r == Req(i)
           s == At(i)
           e == ReplicaEffect(state[s], r, task[i].result)
           result == By(s, e.result)
<1>0. /\ TasksOK(task, state) /\ task[i].pc = "start" /\ task[i].kind = "replicate"
      /\ s = BackupOf(r) /\ s \in Servers /\ r \in Requests /\ task[i].req = r
      /\ StateOK(state[s]) /\ DOMAIN state = Servers /\ r.op \in Writes
  BY InUseOK, WritersOK DEF IInv, ServeReplicate, PcOK, HandledOK, Placed
<1>1. result.code = e.result.code
  BY DEF By
<1>2. CASE Ends(i, Panicked)
  BY <1>2, EndKnown
<1>3. CASE /\ r.op = "send_message" => ChannelExists(state[s], r.channel)
           /\ state' = [state EXCEPT ![s] = e.state]
           /\ Ends(i, result)
  <2>1. ASSUME Change(r)
        PROVE  MadeOK(r, Here') /\ CopiedOK(r, Here')
    <3>1. MadeOK(r, Here')
      <4>1. MemberOK(task[i], Here)
        BY DEF Members
      <4> QED
        BY <1>0, <2>1, <4>1, MembersStay DEF MemberOK
    <3>2. Makes(r, r.user, r.channel, state'[s])
      <4>1. ChangesMembership(r, r.user, r.channel)
        BY <2>1 DEF ChangesMembership, Change
      <4>2. state'[s] = e.state
        BY <1>0, <1>3
      <4> QED
        BY <1>0, <1>3, <4>1, <4>2, ReplicaMembers DEF Makes
    <3> QED
      BY <1>0, <3>1, <3>2, HereFields DEF CopiedOK, Shows
  <2>2. r.op = "send_message" => result.code = "OK"
    BY <1>1 DEF ReplicaEffect, ReplicateSendMessage, Effect
  <2> HIDE DEF result, e
  <2>3. SaysOK("replicate", r, result, Here')
    BY <2>1, <2>2 DEF SaysOK
  <2>4. ~Top(i)
    BY <1>0, InUseOK
  <2> QED
    BY <1>0, <1>3, <2>3, <2>4, EndMembers
<1>4. ServeReplicate(i) =>
        \/ Ends(i, Panicked)
        \/ /\ r.op = "send_message" => ChannelExists(state[s], r.channel)
           /\ state' = [state EXCEPT ![s] = e.state]
           /\ Ends(i, result)
  BY <1>0, ServeForms DEF Replicated, ChannelMissing
<1> QED
  BY <1>2, <1>3, <1>4

\* Asking the servers for their names, and answering from one's own state.
LEMMA GatherMembers ==
  ASSUME IInv, Tree, Safe, Members, Next, NEW i \in InUse,
         Gather(i) \/ GatherNext(i) \/ Gathered(i) \/ GatherSkips(i) \/ GatherEnds(i)
  PROVE  Members'
<1>0. /\ TasksOK(task, state) /\ task[i].kind = "op" /\ Req(i).op \in Gathers
  <2>1. /\ task[i].pc \in {"route", "gather", "gathering"}
        /\ task[i].pc = "route" => Req(i).op \in Gathers
    BY DEF Gather, GatherNext, Gathered, GatherSkips, GatherEnds, Answered, Unavailable
  <2> QED
    BY <2>1, Working DEF IInv, StandsOK, Over
<1>1. \A pc \in {"gather", "gathering"} : \A d, result, todo :
        MemberOK(Task(task[i], pc, d, result, todo), Here')
  BY QuietMember, TaskFields
<1>2. CASE Gather(i)
  BY <1>0, <1>1, <1>2, GatherForms, TurnMembers, EndKnown
<1>3. CASE GatherNext(i)
  BY <1>0, <1>1, <1>3, GatherForms, AskMembers
<1>4. CASE Gathered(i) \/ GatherSkips(i)
  BY <1>0, <1>1, <1>4, GatherForms, TurnMembers
<1>5. CASE GatherEnds(i)
  <2>1. SaysOK("op", Req(i), task[i].result, Here)
    BY <1>0 DEF SaysOK, Seen, Tells, Change, Gathers
  <2> QED
    BY <1>0, <1>5, <2>1, GatherForms, EndKnown
<1> QED
  BY <1>2, <1>3, <1>4, <1>5

\* What the other servers answer.
LEMMA ServeMembers ==
  ASSUME IInv, Tree, Safe, Members, Next, NEW i \in InUse, ServeExists(i) \/ ServeNames(i)
  PROVE  Members'
<1>0. TasksOK(task, state)
  BY DEF IInv
<1>1. CASE ServeExists(i)
  <2>1. task[i].kind = "exists" /\ Found(i).code \in {"OK", "UNKNOWN_USER"}
    BY <1>1 DEF ServeExists, Found, NoResult
  <2>2. SaysOK("exists", Req(i), Found(i), Here)
    BY <2>1 DEF SaysOK
  <2> QED
    BY <1>0, <1>1, <2>1, <2>2, ServeForms, EndKnown
<1>2. CASE ServeNames(i)
  <2>1. task[i].kind = "names"
    BY <1>2 DEF ServeNames
  <2>2. SaysOK("names", Req(i), TheirNames(i), Here)
    BY DEF SaysOK
  <2> QED
    BY <1>0, <1>2, <2>1, <2>2, ServeForms, EndKnown
<1> QED
  BY <1>1, <1>2

\* Clients and failures.
LEMMA FailureMembers ==
  ASSUME IInv, Tree, Safe, Members, Next,
         \/ \E r \in Requests : Issue(r)
         \/ \E i \in InUse : Disconnect(i)
         \/ \E s \in Servers : Crash(s)
         \/ \E s, t \in Servers : MarkDead(s, t)
  PROVE  Members'
<1>0. TasksOK(task, state) /\ Lost.code = "LOST" /\ DOMAIN answer = Requests
  BY DEF IInv, Tree, Lost, NoResult
<1>1. ASSUME NEW r \in Requests, Issue(r)
      PROVE  Members'
  <2>1. PICK d : Starts(d, r)
    BY <1>0, <1>1, IssueForm
  <2>2. /\ MemberOK(task'[d], Here') /\ answer' = answer
        /\ \A j \in Slots \ {d} : task'[j] = task[j]
    BY <1>1, <2>1 DEF Starts, NewTask, MemberOK, Issue
  <2> QED
    BY <2>2, MembersRest, NextUsed DEF InUse
<1>2. ASSUME NEW i \in InUse, Disconnect(i)
      PROVE  Members'
  <2>1. /\ Becomes(i, Free)
        /\ answer' = [answer EXCEPT ![Req(i)] = Lost]
    BY <1>0, <1>2, DisconnectForm
  <2>2. \A j \in InUse' : j \in InUse /\ task'[j] = task[j]
    BY <2>1, NextUsed, FreeFields DEF Becomes, InUse
  <2>3. \A r \in Requests : answer'[r] = answer[r] \/ answer'[r].code = "LOST"
    BY <1>0, <2>1
  <2> QED
    BY <2>2, <2>3, MembersRest
<1>3. ASSUME NEW s \in Servers, Crash(s)
      PROVE  Members'
  <2>1. \A r \in Requests : answer'[r] = answer[r] \/ answer'[r].code = "LOST"
    BY <1>0, <1>3, CrashForm
  <2>2. \A j \in InUse' : j \in InUse /\ (task'[j] = task[j] \/ task'[j].pc = "lost")
    BY <1>0, <1>3, CrashLeaves
  <2>3. \A j \in InUse' : (j \in InUse /\ task'[j] = task[j]) \/ MemberOK(task'[j], Here')
    BY <2>2, QuietMember
  <2> QED
    BY <2>1, <2>3, MembersRest
<1>4. ASSUME NEW s \in Servers, NEW t \in Servers, MarkDead(s, t)
      PROVE  Members'
  <2>1. UNCHANGED <<task, answer>> /\ InUse' = InUse
    BY <1>4 DEF MarkDead, InUse
  <2> QED
    BY <2>1, MembersRest
<1> QED
  BY <1>1, <1>2, <1>3, <1>4

\* So in every step.
LEMMA MembersStep ==
  ASSUME IInv, Tree, Safe, Answering, Members, [Next]_vars
  PROVE  Members'
<1>1. CASE Next
  BY <1>1, ForwardMembers, ExistsMembers, ApplyMembers, ReplicateMembers, GatherMembers,
     ServeMembers, ReplicaMember, FailureMembers DEF Next, Step
<1>2. CASE UNCHANGED vars
  <2>1. UNCHANGED <<state, up, task, answer>>
    BY <1>2 DEF vars
  <2>2. InUse' = InUse /\ Here' = Here
    BY <2>1 DEF InUse, Here, Busy
  <2> QED
    BY <2>1, <2>2 DEF Members
<1> QED
  BY <1>1, <1>2

\* At the start nobody was told anything.
LEMMA MembersInit == Init => Members
<1> SUFFICES ASSUME Init PROVE Members
  OBVIOUS
<1>1. InUse = {} /\ \A r \in Requests : answer[r] = NoResult
  BY FreeFields DEF Init, InUse
<1> QED
  BY <1>1, HereFields DEF Members, ToldMembers

\* In every reachable state the handlers of a client that is there are waited for, and what
\* a channel's owners hold of a member is what the last acknowledged change made of it.
THEOREM MembersInvariance == Spec => [](Answering /\ Members)
<1>1. IInv /\ IInv' /\ Tree /\ Safe /\ Answering /\ Members /\ [Next]_vars =>
        Answering' /\ Members'
  BY AnsweringStep, MembersStep
<1> QED
  BY <1>1, AnsweringInit, MembersInit, Invariance, TreeInvariance, SafeInvariance, PTL DEF Spec

\* No client was cut off that had asked for a change of a member before another one.
NothingLost ==
  \A q, o \in Requests : Change(q) /\ SameMember(o, q) /\ Follows(q, o) =>
    answer[o].code # "LOST"

\* Whatever servers crash, a member can send and is listed, and one that has left cannot and
\* is not, if no earlier join or leave of it lost its client: what such a client asked for
\* may be carried out late, after the join or leave that followed it.
THEOREM MembersKnown == Spec => [](NothingLost => MembershipSeen)
<1>1. Members /\ NothingLost => MembershipSeen
  <2> SUFFICES ASSUME Members, NothingLost,
                      NEW r \in Requests, answer[r] # NoResult,
                      NEW q \in Before(r), LastChange(q, r)
               PROVE  Tells(r, q, answer[r])
    BY DEF MembershipSeen, Tells
  <2>1. Change(q) /\ q.channel = r.channel /\ Acked(q, Here)
    BY HereFields DEF LastChange, ChangesMembership, Change, Acked, Acknowledged, PrimaryOf
  <2>2. Last(q, r, Here)
    BY <2>1, HereFields DEF LastChange, Last, SameMember, NothingLost, Before
  <2>3. Seen(r, answer[r], Here)
    BY HereFields DEF Members, ToldMembers
  <2> QED
    BY <2>1, <2>2, <2>3 DEF Seen
<1> QED
  BY <1>1, MembersInvariance, PTL

-----------------------------------------------------------------------------
(***************************************************************************)
(* What the chat of one server does                                        *)
(***************************************************************************)
\* What the operation of one chat does: the checks, then what a server does (OpEffect).
ByMember == {"join_channel", "leave_channel", "send_message"}

PerformOne(st, r) ==
  IF r.op \in {"leave_channel", "send_message"} /\ ~ChannelExists(st, r.channel)
    THEN Effect(st, "UNKNOWN_CHANNEL", {})
  ELSE IF r.op \in ByMember /\ ~UserExists(st, r.user)
    THEN Effect(st, "UNKNOWN_USER", {})
  ELSE OpEffect(st, r)

\* It is what module Chat says.
LEMMA OneEffect ==
  ASSUME NEW st, NEW r, r.op \in Ops \ Gathers
  PROVE  OneServer!Perform(st, r) = PerformOne(st, r)
<1>1. /\ \A x : OneServer!ChannelExists(st, x) = ChannelExists(st, x)
      /\ \A x : OneServer!UserExists(st, x) = UserExists(st, x)
      /\ \A code, value : OneServer!Effect(st, code, value) = Effect(st, code, value)
  BY DEF OneServer!ChannelExists, ChannelExists, OneServer!UserExists, UserExists,
     OneServer!Effect, Effect
<1>2. CASE r.op = "create_user"
  BY <1>2 DEF OneServer!Perform, PerformOne, OpEffect, ByMember, OneServer!CreateUser, CreateUser,
     OneServer!UserExists, UserExists, OneServer!Effect, Effect
<1>3. CASE r.op = "join_channel"
  <2>1. OneServer!JoinChannel(st, r.user, r.channel) = JoinChannel(st, r.user, r.channel)
    BY DEF OneServer!JoinChannel, JoinChannel, OneServer!ChannelExists, ChannelExists,
       OneServer!Effect, Effect, OneServer!WithChannel, WithChannel,
       OneServer!NewChannel, NewChannel
  <2> QED
    BY <1>1, <1>3, <2>1 DEF OneServer!Perform, PerformOne, OpEffect, ByMember
<1>4. CASE r.op = "leave_channel"
  <2>1. OneServer!LeaveChannel(st, r.user, r.channel) = LeaveChannel(st, r.user, r.channel)
    BY DEF OneServer!LeaveChannel, LeaveChannel,
       OneServer!Effect, Effect, OneServer!WithChannel, WithChannel
  <2> QED
    BY <1>1, <1>4, <2>1 DEF OneServer!Perform, PerformOne, OpEffect, ByMember
<1>5. CASE r.op = "send_message"
  <2>1. OneServer!SendMessage(st, r.user, r.channel, r.id)
          = SendMessage(st, r.user, r.channel, r.id)
    BY DEF OneServer!SendMessage, SendMessage, OneServer!Insert, Insert,
       OneServer!Effect, Effect, OneServer!WithChannel, WithChannel
  <2> QED
    BY <1>1, <1>5, <2>1 DEF OneServer!Perform, PerformOne, OpEffect, ByMember
<1>6. CASE r.op = "list_channel_users"
  BY <1>1, <1>6 DEF OneServer!Perform, PerformOne, OpEffect, ByMember,
     OneServer!ListChannelUsers, ListChannelUsers
<1>7. CASE r.op = "get_messages"
  BY <1>1, <1>7 DEF OneServer!Perform, PerformOne, OpEffect, ByMember,
     OneServer!GetMessages, GetMessages, OneServer!Range, Range
<1> QED
  BY <1>2, <1>3, <1>4, <1>5, <1>6, <1>7 DEF Ops, Gathers

\* The chat is what the primaries hold.
LEMMA OneFields ==
  /\ OneChat.users = {u \in Users : HasUser(u)}
  /\ DOMAIN OneChat.channels = {c \in Channels : HasChannel(c)}
  /\ \A c \in Channels : /\ ChannelExists(OneChat, c) <=> HasChannel(c)
                         /\ HasChannel(c) => OneChat.channels[c] = state[Primary(c)].channels[c]
  /\ \A u \in Users : UserExists(OneChat, u) <=> HasUser(u)
BY DEF OneChat, ChannelExists, UserExists

\* The primary's change of a channel is one of the chat.
LEMMA OneWith ==
  ASSUME NEW ch \in Channels, NEW d, NEW p \in Servers, p = Primary(ch), StateOK(state[p]),
         \A s \in Servers :
           state'[s] = IF s = p THEN WithChannel(state[p], ch, d) ELSE state[s]
  PROVE  OneChat' = WithChannel(OneChat, ch, d)
<1>1. /\ \A c \in Channels : Primary(c) \in Servers
      /\ \A u \in Users : Primary(u) \in Servers
  BY ChannelOwners, UserOwners DEF Primary
<1>2. /\ \A c : Primary(c)' = Primary(c)
  BY DEF Primary, Owner
<1>3. \A u \in Users : HasUser(u)' <=> HasUser(u)
  BY <1>1, <1>2, WithChannelFields DEF HasUser, UserExists
<1>4. \A c \in Channels : /\ HasChannel(c)' <=> HasChannel(c) \/ c = ch
                          /\ c # ch /\ HasChannel(c) =>
                               state'[Primary(c)].channels[c] = state[Primary(c)].channels[c]
                          /\ state'[Primary(ch)].channels[ch] = d
  BY <1>1, <1>2, WithChannelFields DEF HasChannel, ChannelExists
<1>5. OneChat' = [users |-> {u \in Users : HasUser(u)},
                  channels |-> [c \in {c \in Channels : HasChannel(c)} \cup {ch} |->
                                  IF c = ch THEN d ELSE OneChat.channels[c]]]
  BY <1>2, <1>3, <1>4, OneFields DEF OneChat
<1>6. WithChannel(OneChat, ch, d)
        = [users |-> OneChat.users,
           channels |-> [c \in DOMAIN OneChat.channels \cup {ch} |->
                           IF c = ch THEN d ELSE OneChat.channels[c]]]
  <2> DEFINE us == {u \in Users : HasUser(u)}
             cs == [c \in {c \in Channels : HasChannel(c)} |-> state[Primary(c)].channels[c]]
  <2>1. OneChat = [users |-> us, channels |-> cs]
    BY DEF OneChat
  <2> HIDE DEF us, cs
  <2> QED
    BY <2>1 DEF WithChannel
<1> QED
  BY <1>5, <1>6, OneFields

\* What the primary carries out, the chat does, with the same result.
LEMMA OneWrites ==
  ASSUME IInv, NEW r \in Requests, r.op \in Ops \ Gathers, NEW p \in Servers, p = PrimaryOf(r),
         r.op \in {"leave_channel", "send_message"} => ChannelExists(state[p], r.channel),
         \A s \in Servers :
           state'[s] = IF s = p THEN OpEffect(state[p], r).state ELSE state[s]
  PROVE  /\ OneChat' = OpEffect(OneChat, r).state
         /\ OpEffect(OneChat, r).result = OpEffect(state[p], r).result
<1>0. /\ StateOK(state[p]) /\ r.user \in Users /\ r.channel \in Channels
      /\ \A s \in Servers : StateOK(state[s])
  BY ReplicationAssumption DEF IInv, StatesOK
<1>1. /\ r.op # "create_user" => p = Primary(r.channel)
      /\ r.op = "create_user" => p = Primary(r.user)
  BY DEF PrimaryOf, Subject, Primary
<1>2. ASSUME \A s \in Servers : state'[s] = state[s] PROVE OneChat' = OneChat
  <2>1. /\ \A c \in Channels : Primary(c) \in Servers /\ Primary(c)' = Primary(c)
        /\ \A u \in Users : Primary(u) \in Servers /\ Primary(u)' = Primary(u)
    BY ChannelOwners, UserOwners DEF Primary, Owner
  <2> QED
    BY <1>2, <2>1 DEF OneChat, HasUser, HasChannel
<1> DEFINE ch == r.channel
           has == ChannelExists(state[p], ch)
           c == state[p].channels[ch]
<1>3. r.op # "create_user" => /\ ChannelExists(OneChat, ch) <=> has
                              /\ has => OneChat.channels[ch] = c
  BY <1>0, <1>1, OneFields DEF HasChannel
<1>4. CASE r.op = "create_user"
  <2>1. UserExists(OneChat, r.user) <=> UserExists(state[p], r.user)
    BY <1>0, <1>1, <1>4, OneFields DEF HasUser
  <2>2. CASE UserExists(state[p], r.user)
    BY <1>2, <1>4, <2>1, <2>2 DEF OpEffect, CreateUser, Effect
  <2>3. CASE ~UserExists(state[p], r.user)
    <3>1. /\ OpEffect(state[p], r).state = [state[p] EXCEPT !.users = @ \cup {r.user}]
          /\ OpEffect(OneChat, r).state = [OneChat EXCEPT !.users = @ \cup {r.user}]
          /\ OpEffect(OneChat, r).result = OpEffect(state[p], r).result
      BY <1>4, <2>1, <2>3 DEF OpEffect, CreateUser, Effect
    <3>2. /\ \A b \in Channels : Primary(b) \in Servers /\ Primary(b)' = Primary(b)
          /\ \A u \in Users : Primary(u) \in Servers /\ Primary(u)' = Primary(u)
      BY ChannelOwners, UserOwners DEF Primary, Owner
    <3>3. \A s \in Servers :
            /\ state'[s].channels = state[s].channels
            /\ state'[s].users = IF s = p THEN state[s].users \cup {r.user} ELSE state[s].users
      <4>1. state'[p] = [state[p] EXCEPT !.users = @ \cup {r.user}]
        BY <3>1
      <4>2. state'[p].channels = state[p].channels /\ state'[p].users = state[p].users \cup {r.user}
        BY <1>0, <4>1 DEF StateOK
      <4> QED
        BY <4>2
    <3>4. /\ \A b \in Channels : HasChannel(b)' <=> HasChannel(b)
          /\ \A u \in Users : HasUser(u)' <=> HasUser(u) \/ u = r.user
      <4>1. \A u \in Users : HasUser(u)' => HasUser(u) \/ u = r.user
        BY <3>2, <3>3 DEF HasUser, UserExists
      <4>2. HasUser(r.user)'
        BY <1>0, <1>1, <1>4, <3>2, <3>3 DEF HasUser, UserExists
      <4>3. \A u \in Users : HasUser(u) => HasUser(u)'
        BY <3>2, <3>3 DEF HasUser, UserExists
      <4> QED
        BY <3>2, <3>3, <4>1, <4>2, <4>3 DEF HasChannel, ChannelExists
    <3>5. OneChat' = [users |-> OneChat.users \cup {r.user}, channels |-> OneChat.channels]
      BY <1>0, <3>2, <3>3, <3>4 DEF OneChat
    <3> QED
      BY <3>1, <3>5 DEF OneChat
  <2> QED
    BY <2>2, <2>3
<1>5. CASE r.op \in {"list_channel_users", "get_messages"}
  BY <1>2, <1>3, <1>5 DEF OpEffect, ListChannelUsers, GetMessages, Effect
<1>6. ASSUME NEW d, r.op # "create_user", OpEffect(state[p], r).state = WithChannel(state[p], ch, d)
      PROVE  OneChat' = WithChannel(OneChat, ch, d)
  BY <1>0, <1>1, <1>6, OneWith
<1>7. CASE r.op = "join_channel"
  BY <1>2, <1>3, <1>6, <1>7 DEF OpEffect, JoinChannel, Effect
<1>8. CASE r.op = "leave_channel"
  BY <1>2, <1>3, <1>6, <1>8 DEF OpEffect, LeaveChannel, Effect
<1>9. CASE r.op = "send_message"
  BY <1>2, <1>3, <1>6, <1>9 DEF OpEffect, SendMessage, Effect
<1> QED
  BY <1>4, <1>5, <1>7, <1>8, <1>9 DEF Ops, Gathers

-----------------------------------------------------------------------------
(***************************************************************************)
(* What a handler has come to                                              *)
(***************************************************************************)
\* No client asks for a list of names, which is put together from one server after another.
NoLists == \A r \in Requests : r.op \notin Gathers

\* What a client is told of a result.
Plain(result) == [code |-> result.code, value |-> result.value]
KnownUser(st, u) == UserExists(st[Primary(u)], u)

\* What a handler shows of its request's result: a user that was found is none yet.
ShownAs(kind, result) ==
  IF kind = "exists" /\ result.code = "OK" THEN NotDecided ELSE Plain(result)
Tip(i) == IF task[i].child = Client THEN i ELSE task[i].child
Shown(i) == ShownAs(task[Tip(i)].kind, task[Tip(i)].result)

\* What is replicated succeeded at the primary, and only a message has an id.
Sent(r, result) == result.code = "OK" /\ (r.op # "send_message" => result.value = {})

VerdictOK(x, st) ==
  /\ x.kind \in {"op", "exists", "replicate"} /\ x.pc \notin {"gather", "gathering", "lost"}
  /\ x.pc \in {"forwarded", "asked", "replicating"} => x.child # Client
  /\ x.kind = "op" =>
       /\ x.pc \notin {"replicate", "replicating", "replied"} => x.result = NoResult
       /\ x.pc = "replied" => x.result.code \notin {"NONE", "LOST", "PANIC"}
       /\ x.pc = "existsForward" => x.at # Primary(x.req.user)
       /\ x.pc = "apply" /\ x.req.op \in ByMember => KnownUser(st, x.req.user)
  /\ x.kind = "exists" =>
       /\ x.req.op \in ByMember
       /\ x.req.op \in {"leave_channel", "send_message"} =>
            ChannelExists(st[PrimaryOf(x.req)], x.req.channel)
       /\ x.pc = "start" => x.result = NoResult
       /\ x.pc = "replied" => \/ x.result.code = "UNKNOWN_USER" /\ x.result.value = {}
                              \/ x.result.code = "OK" /\ KnownUser(st, x.req.user)
  /\ x.pc \in {"replicate", "replicating"} \/ x.kind = "replicate" => Sent(x.req, x.result)

\* The primary waits for what it sent.
SentOn(i) ==
  task[i].pc = "replicating" => Plain(task[task[i].child].result) = Plain(task[i].result)

Verdicts ==
  /\ \A i \in InUse : VerdictOK(task[i], state) /\ SentOn(i)
  /\ \A r \in Requests : answer[r].code = "NONE" => answer[r] = NoResult

\* What a step of a handler of r does to the chat: nothing, and the handler shows what it
\* showed; or r, and the handler shows its result.
Outcome(r, was, is) ==
  \/ is = was /\ OneChat' = OneChat
  \/ /\ was = NotDecided /\ is.code \notin {"NONE", "LOST"}
     /\ OneChat' = PerformOne(OneChat, r).state
     /\ is = PerformOne(OneChat, r).result

\* The steps: a handler goes on, ends, or calls another.
GoesOnWell(i) ==
  \E pc, result :
    /\ Turns(i, pc, result, task[i].todo) /\ task[i].kind = "op"
    /\ pc \notin {"free", "replied"}
    /\ VerdictOK(Task(task[i], pc, Client, result, task[i].todo), state')
    /\ Outcome(Req(i), Shown(i), Plain(result))

EndsWell(i) ==
  \E result :
    /\ Ends(i, result) /\ result # Panicked
    /\ VerdictOK(Task(task[i], "replied", Client, result, task[i].todo), state')
    /\ task[i].kind = "replicate" => Plain(result) = Plain(task[i].result)
    /\ Outcome(Req(i), Shown(i), ShownAs(task[i].kind, result))

CallsWell(i) ==
  \E d, kind, to, result, pc :
    /\ Calls(i, d, kind, to, result, pc) /\ task[i].kind = "op" /\ task[i].child = Client
    /\ pc # "free"
    /\ VerdictOK(Task(task[i], pc, d, task[i].result, task[i].todo), state')
    /\ VerdictOK(Callee(i, kind, to, result), state')
    /\ pc = "replicating" => Plain(result) = Plain(task[i].result)
    /\ Outcome(Req(i), Shown(i), ShownAs(kind, result))

Well(i) == GoesOnWell(i) \/ EndsWell(i) \/ CallsWell(i)

\* Where handlers run as long as all servers are up, and what those that wait wait for.
LEMMA CalmPlaces ==
  ASSUME IInv, Tree, Safe, Verdicts, Calm, NEW i \in InUse, Step(i)
  PROVE  /\ TasksOK(task, state) /\ VerdictOK(task[i], state) /\ SentOn(i)
         /\ Req(i) = task[i].req /\ At(i) = task[i].at /\ At(i) \in Servers
         /\ Req(i) \in Requests /\ Req(i).op \in Ops /\ At(i) \notin poisoned
         /\ task[i].pc \notin Over \cup {"start"} => task[i].kind = "op"
         /\ PcOK(task[i].kind, Req(i), At(i), task[i].pc, state)
         /\ task[i].kind = "op" /\ task[i].pc \in {"forward", "forwarded"} => At(i) # PrimaryOf(Req(i))
         /\ task[i].kind = "op" /\ task[i].pc \in Owned => At(i) = PrimaryOf(Req(i))
         /\ task[i].kind = "exists" => At(i) = Primary(Req(i).user)
         /\ task[i].kind = "replicate" => At(i) = BackupOf(Req(i))
         /\ \A name \in {Subject(Req(i)), Req(i).user} :
              /\ Authoritative(At(i), Owner(name)) <=> At(i) = Primary(name)
              /\ Location(At(i), Owner(name)) = Primary(name)
              /\ Primary(name) \in Servers
         /\ PrimaryOf(Req(i)) = Primary(Subject(Req(i)))
         /\ \A pc : ~Unavailable(i, pc) \/ (task[i].pc = pc /\ task[i].child = Client)
         /\ task[i].child = Client => Tip(i) = i /\ Shown(i) = ShownAs(task[i].kind, task[i].result)
         /\ task[i].child # Client => Tip(i) = task[i].child
<1>1. HandledOK(task[i], Now) /\ i \in Slots
  BY InUseOK
<1>2. \A s, t \in Servers : alive[s][t]
  BY AllAlive
<1>3. /\ TasksOK(task, state) /\ Req(i) = task[i].req /\ At(i) = task[i].at /\ At(i) \in Servers
      /\ Req(i) \in Requests /\ Req(i).op \in Ops
      /\ task[i].pc \notin Over \cup {"start"} => task[i].kind = "op"
      /\ \A name \in {Subject(Req(i)), Req(i).user} :
           Owner(name).primary \in Servers /\ Owner(name).backup \in Servers
  BY Working DEF IInv
<1>4. PcOK(task[i].kind, Req(i), At(i), task[i].pc, state)
  BY WritersOK
<1>5. /\ PrimaryOf(Req(i)) = Primary(Subject(Req(i))) /\ At(i) \notin poisoned
      /\ VerdictOK(task[i], state) /\ SentOn(i)
  BY DEF PrimaryOf, Primary, Calm, Verdicts
<1>6. \A name \in {Subject(Req(i)), Req(i).user} :
        /\ Authoritative(At(i), Owner(name)) <=> At(i) = Primary(name)
        /\ Location(At(i), Owner(name)) = Primary(name)
        /\ Primary(name) \in Servers
  BY <1>2, <1>3 DEF Authoritative, Location, Primary
<1>7. /\ task[i].kind = "op" /\ task[i].pc \in {"forward", "forwarded"} => At(i) # PrimaryOf(Req(i))
      /\ task[i].kind = "op" /\ task[i].pc \in Owned => At(i) = PrimaryOf(Req(i))
      /\ task[i].kind = "replicate" => At(i) = BackupOf(Req(i))
  BY <1>1, <1>2, <1>3, WritersOK, NowFields DEF HandledOK, Placed
<1>8. task[i].kind = "exists" => At(i) = Primary(Req(i).user)
  BY <1>1, <1>3, NowFields DEF HandledOK, Placed, Serves, Primary, Calm
<1>9. \A pc : ~Unavailable(i, pc) \/ (task[i].pc = pc /\ task[i].child = Client)
  BY <1>3, AllAlive DEF Unavailable
<1>10. /\ task[i].child = Client => Tip(i) = i /\ Shown(i) = ShownAs(task[i].kind, task[i].result)
       /\ task[i].child # Client => Tip(i) = task[i].child
  BY DEF Tip, Shown
<1> HIDE DEF Calm
<1> QED
  BY <1>3, <1>4, <1>5, <1>6, <1>7, <1>8, <1>9, <1>10

\* Nothing changes in the chat when no state changes.
LEMMA ChatStays ==
  ASSUME state' = state
  PROVE  OneChat' = OneChat
BY DEF OneChat, HasUser, HasChannel, Primary, Owner

\* A handler without a result shows none.
LEMMA NothingShown ==
  /\ Plain(NoResult) = NotDecided /\ ShownAs("op", NoResult) = NotDecided
  /\ ShownAs("exists", NoResult) = NotDecided
BY DEF Plain, NoResult, NotDecided, ShownAs

\* A handler that has come to nothing goes on.
LEMMA QuietlyOn ==
  ASSUME IInv, Tree, Safe, Verdicts, Calm, NEW i \in InUse, Step(i), state' = state,
         task[i].kind = "op", task[i].result = NoResult, NEW pc,
         pc \in {"route", "forward", "check", "exists", "existsForward", "apply"},
         pc = "existsForward" => At(i) # Primary(Req(i).user),
         pc = "apply" /\ Req(i).op \in ByMember => KnownUser(state, Req(i).user),
         Shown(i) = NotDecided,
         Turns(i, pc, task[i].result, task[i].todo)
  PROVE  Well(i)
<1> DEFINE y == Task(task[i], pc, Client, NoResult, task[i].todo)
<1>1. /\ y.kind = "op" /\ y.pc = pc /\ y.result = NoResult /\ y.req = Req(i)
      /\ y.at = At(i)
  BY TaskFields, CalmPlaces
<1> HIDE DEF y
<1>2. VerdictOK(y, state')
  BY <1>1 DEF VerdictOK
<1>3. Outcome(Req(i), Shown(i), Plain(NoResult))
  BY ChatStays, NothingShown DEF Outcome
<1> QED
  BY <1>2, <1>3 DEF y, Well, GoesOnWell

\* A handler that has come to nothing asks another one.
LEMMA QuietlyAsks ==
  ASSUME IInv, Tree, Safe, Verdicts, Calm, NEW i \in InUse, Step(i), state' = state,
         task[i].kind = "op", task[i].result = NoResult, task[i].child = Client,
         NEW pc, NEW kind, NEW to \in Servers,
         <<pc, kind>> \in {<<"forwarded", "op">>, <<"asked", "exists">>},
         kind = "exists" => Req(i).op \in ByMember,
         kind = "exists" /\ Req(i).op \in {"leave_channel", "send_message"} =>
           ChannelExists(state[PrimaryOf(Req(i))], Req(i).channel),
         Asks(i, kind, to, NoResult, pc)
  PROVE  Well(i)
<1>1. alive[At(i)][to]
  BY CalmPlaces, AllAlive
<1>2. PICK d : Calls(i, d, kind, to, NoResult, pc)
  BY <1>1 DEF Asks
<1> DEFINE y == Task(task[i], pc, d, task[i].result, task[i].todo)
           c == Callee(i, kind, to, NoResult)
<1>3. /\ y.kind = "op" /\ y.pc = pc /\ y.child = d /\ y.result = NoResult /\ y.req = Req(i)
  BY TaskFields, CalmPlaces
<1>4. /\ c.kind = kind /\ c.pc = (IF kind = "op" THEN "route" ELSE "start")
      /\ c.result = NoResult /\ c.req = Req(i)
  BY DEF Callee, Calm
<1>5. d # Client
  BY <1>2, ClientNoSlot DEF Calls
<1> HIDE DEF y, c
<1>6. VerdictOK(y, state') /\ VerdictOK(c, state')
  BY <1>3, <1>4, <1>5 DEF VerdictOK
<1>7. Outcome(Req(i), Shown(i), ShownAs(kind, NoResult))
  BY ChatStays, NothingShown, CalmPlaces DEF Outcome
<1> QED
  BY <1>2, <1>6, <1>7 DEF y, c, Well, CallsWell

\* A handler passes on what it shows.
LEMMA PassesOn ==
  ASSUME IInv, Tree, Safe, Verdicts, Calm, NEW i \in InUse, Step(i), state' = state,
         task[i].kind = "op", NEW result,
         result.code \notin {"NONE", "LOST", "PANIC"}, Plain(result) = Shown(i), Ends(i, result)
  PROVE  Well(i)
<1>0. result # Panicked
  BY DEF Panicked, NoResult
<1> DEFINE y == Task(task[i], "replied", Client, result, task[i].todo)
<1>1. /\ y.kind = "op" /\ y.pc = "replied" /\ y.result = result /\ y.req = Req(i)
  BY TaskFields, CalmPlaces
<1> HIDE DEF y
<1>2. VerdictOK(y, state')
  BY <1>1 DEF VerdictOK
<1>3. Outcome(Req(i), Shown(i), ShownAs("op", result))
  BY ChatStays DEF Outcome, ShownAs
<1> QED
  BY <1>0, <1>2, <1>3 DEF y, Well, EndsWell

\* The answer of a call.
LEMMA CalmAnswer ==
  ASSUME IInv, Tree, Safe, Verdicts, Calm, NEW i \in InUse, Step(i), NEW pc, Answered(i, pc)
  PROVE  LET c == task[i].child
         IN /\ c \in InUse /\ VerdictOK(task[c], state) /\ task[c].pc = "replied"
            /\ task[c].req = Req(i) /\ <<pc, task[c].kind>> \in Waits
            /\ Answer(i) = task[c].result
            /\ Shown(i) = ShownAs(task[c].kind, Answer(i))
<1>1. /\ task[i].child \in InUse /\ task[task[i].child].pc = "replied"
      /\ task[task[i].child].req = Req(i) /\ <<pc, task[task[i].child].kind>> \in Waits
      /\ Answer(i) = task[task[i].child].result
  BY AnswerForm DEF IInv
<1>2. VerdictOK(task[task[i].child], state)
  BY <1>1 DEF Verdicts
<1>3. Shown(i) = ShownAs(task[task[i].child].kind, Answer(i))
  BY <1>1, CalmPlaces DEF Answered, Shown
<1> QED
  BY <1>1, <1>2, <1>3

\* Forwarding, and what comes back.
LEMMA ForwardWell ==
  ASSUME IInv, Tree, Safe, Verdicts, Calm, NEW i \in InUse, Step(i),
         Route(i) \/ Forward(i) \/ ForwardAnswered(i) \/ ForwardRetries(i)
  PROVE  Well(i)
<1>0. TasksOK(task, state)
  BY DEF IInv
<1>1. state' = state
  BY DEF Route, Forward, ForwardAnswered, ForwardRetries
<1>2. CASE Route(i)
  <2>1. task[i].pc = "route" /\ task[i].kind = "op" /\ task[i].child = Client
    BY <1>0, <1>2, CalmPlaces, NoCall DEF Route, Over
  <2>2. task[i].result = NoResult /\ Shown(i) = NotDecided
    BY <2>1, CalmPlaces, NothingShown DEF VerdictOK
  <2>3. Turns(i, Routes(i), task[i].result, task[i].todo)
    BY <1>0, <1>2, ForwardForms
  <2>4. /\ Routes(i) \in {"forward", "check", "exists", "apply"}
        /\ Routes(i) = "apply" => Req(i).op \notin ByMember
    BY <1>2, CalmPlaces DEF Routes, ByMember
  <2> QED
    BY <1>1, <2>1, <2>2, <2>3, <2>4, QuietlyOn
<1>3. CASE Forward(i)
  <2>1. task[i].pc = "forward" /\ task[i].kind = "op" /\ task[i].child = Client
    BY <1>0, <1>3, CalmPlaces, NoCall DEF Forward, Over
  <2>2. task[i].result = NoResult
    BY <2>1, CalmPlaces DEF VerdictOK
  <2>3. /\ Location(At(i), OwnerOf(i)) = PrimaryOf(Req(i)) /\ PrimaryOf(Req(i)) # At(i)
        /\ PrimaryOf(Req(i)) \in Servers
    BY <2>1, CalmPlaces DEF OwnerOf
  <2>4. Asks(i, "op", PrimaryOf(Req(i)), NoResult, "forwarded")
    BY <1>0, <1>3, <2>3, ForwardForms
  <2> QED
    BY <1>1, <2>1, <2>2, <2>3, <2>4, QuietlyAsks
<1>4. CASE ForwardAnswered(i)
  <2>1. Answered(i, "forwarded")
    BY <1>4 DEF ForwardAnswered
  <2>2. task[i].kind = "op"
    BY <2>1, CalmPlaces DEF Answered, Over
  <2>3. /\ Answer(i).code \notin {"NONE", "LOST", "PANIC"} /\ Plain(Answer(i)) = Shown(i)
    BY <2>1, CalmAnswer DEF Waits, VerdictOK, ShownAs
  <2>4. Ends(i, Answer(i))
    BY <1>0, <1>4, ForwardForms
  <2> QED
    BY <1>1, <2>2, <2>3, <2>4, PassesOn
<1>5. CASE ForwardRetries(i)
  <2>1. task[i].pc = "forwarded" /\ task[i].child = Client
    BY <1>5, CalmPlaces DEF ForwardRetries, Unavailable
  <2> QED
    BY <2>1, CalmPlaces DEF VerdictOK
<1> QED
  BY <1>2, <1>3, <1>4, <1>5

\* A check refuses the request, as the chat would.
LEMMA Refuses ==
  ASSUME IInv, Tree, Safe, Verdicts, Calm, NEW i \in InUse, Step(i), state' = state,
         task[i].kind \in {"op", "exists"}, NEW result, Ends(i, result),
         Shown(i) = NotDecided,
         \/ /\ result = NoChannel /\ task[i].kind = "op"
            /\ Req(i).op \in {"leave_channel", "send_message"}
            /\ ~HasChannel(Req(i).channel)
         \/ /\ result = NoUser /\ Req(i).op \in ByMember
            /\ Req(i).op \in {"leave_channel", "send_message"} => HasChannel(Req(i).channel)
            /\ ~HasUser(Req(i).user)
  PROVE  Well(i)
<1> DEFINE y == Task(task[i], "replied", Client, result, task[i].todo)
           r == Req(i)
<1>1. /\ y.kind = task[i].kind /\ y.pc = "replied" /\ y.result = result /\ y.req = r
  BY TaskFields, CalmPlaces
<1>2. /\ result.code \in {"UNKNOWN_CHANNEL", "UNKNOWN_USER"} /\ result.value = {}
      /\ result # Panicked
      /\ result.code = "UNKNOWN_CHANNEL" => task[i].kind = "op"
  BY DEF NoChannel, NoUser, NoResult, Panicked
<1>3. r.user \in Users /\ r.channel \in Channels
  BY CalmPlaces, ReplicationAssumption
<1>4. VerdictOK(task[i], state)
  BY CalmPlaces
<1> HIDE DEF y
<1>5. VerdictOK(y, state')
  BY <1>1, <1>2, <1>4, CalmPlaces DEF VerdictOK
<1>6. PerformOne(OneChat, r) = Effect(OneChat, result.code, result.value)
  BY <1>2, <1>3, OneFields DEF PerformOne, NoChannel, NoUser, NoResult, ByMember
<1>7. Outcome(r, Shown(i), ShownAs(task[i].kind, result))
  BY <1>2, <1>6, ChatStays DEF Outcome, Effect, ShownAs, Plain
<1> QED
  BY <1>2, <1>5, <1>7 DEF y, Well, EndsWell

\* Asking for the channel, and for the user.
LEMMA ExistsWell ==
  ASSUME IInv, Tree, Safe, Verdicts, Calm, NEW i \in InUse, Step(i),
         \/ CheckChannel(i) \/ ExistsHere(i) \/ ExistsElsewhere(i) \/ ExistsForward(i)
         \/ ExistsAnswered(i) \/ ExistsRetries(i)
  PROVE  Well(i)
<1> DEFINE r == Req(i)
<1>0. TasksOK(task, state) /\ HandlerOK(i)
  BY DEF IInv, Tree
<1>1. state' = state
  BY DEF CheckChannel, ExistsHere, ExistsElsewhere, ExistsForward, ExistsAnswered, ExistsRetries
<1>2. /\ task[i].kind = "op" /\ task[i].pc \in {"check", "exists", "existsForward", "asked"}
      /\ task[i].result = NoResult /\ At(i) = PrimaryOf(r)
  <2>1. task[i].pc \in {"check", "exists", "existsForward", "asked"}
    BY DEF CheckChannel, ExistsHere, ExistsElsewhere, ExistsForward, ExistsAnswered,
       ExistsRetries, Answered, Unavailable
  <2>2. task[i].kind = "op" /\ VerdictOK(task[i], state)
    BY <2>1, CalmPlaces DEF Over
  <2> QED
    BY <2>1, <2>2, CalmPlaces DEF VerdictOK, Owned
<1>3. /\ task[i].pc = "check" => r.op \in {"leave_channel", "send_message"}
      /\ task[i].pc # "check" => r.op \in ByMember
      /\ r.op \in ByMember => PrimaryOf(r) = Primary(r.channel)
      /\ task[i].pc # "check" /\ r.op \in {"leave_channel", "send_message"} =>
           ChannelExists(state[PrimaryOf(r)], r.channel) /\ HasChannel(r.channel)
  BY <1>0, <1>2, CalmPlaces DEF HandlerOK, StandsOK, Req, ByMember, PcOK, Looked, HasChannel, Subject
<1>4. task[i].pc # "asked" => task[i].child = Client /\ Shown(i) = NotDecided
  BY <1>0, <1>2, NoCall, CalmPlaces, NothingShown
<1>5. HasUser(r.user) <=> KnownUser(state, r.user)
  BY DEF HasUser, KnownUser
<1>6. CASE CheckChannel(i)
  <2>1. task[i].pc = "check" /\ At(i) \notin poisoned
    BY <1>6, CalmPlaces DEF CheckChannel
  <2>2. CASE ChannelExists(state[At(i)], r.channel)
    <3>1. task' = [task EXCEPT ![i].pc = "exists"] /\ answer' = answer
      BY <1>6, <2>1, <2>2 DEF CheckChannel
    <3>2. Turns(i, "exists", task[i].result, task[i].todo)
      BY <1>0, <2>1, <3>1, QuietForms
    <3> QED
      BY <1>1, <1>2, <1>4, <2>1, <3>2, QuietlyOn
  <2>3. CASE ~ChannelExists(state[At(i)], r.channel)
    <3>1. End(task, i, NoChannel)
      BY <1>6, <2>1, <2>3 DEF CheckChannel, NoChannel
    <3>2. Ends(i, NoChannel)
      BY <1>0, <2>1, <3>1, QuietForms
    <3>3. ~HasChannel(r.channel) /\ r.op \in {"leave_channel", "send_message"}
      BY <1>2, <1>3, <2>1, <2>3 DEF HasChannel, ByMember
    <3> QED
      BY <1>1, <1>2, <1>4, <2>1, <3>2, <3>3, Refuses
  <2> QED
    BY <2>2, <2>3
<1>7. CASE ExistsHere(i)
  <2>1. task[i].pc = "exists" /\ At(i) \notin poisoned /\ At(i) = Primary(r.user)
    BY <1>7, CalmPlaces DEF ExistsHere
  <2>2. CASE UserExists(state[At(i)], r.user)
    <3>1. task' = [task EXCEPT ![i].pc = "apply"] /\ answer' = answer
      BY <1>7, <2>1, <2>2 DEF ExistsHere
    <3>2. Turns(i, "apply", task[i].result, task[i].todo)
      BY <1>0, <2>1, <3>1, QuietForms
    <3>3. KnownUser(state, r.user)
      BY <2>1, <2>2 DEF KnownUser
    <3> QED
      BY <1>1, <1>2, <1>4, <2>1, <3>2, <3>3, QuietlyOn
  <2>3. CASE ~UserExists(state[At(i)], r.user)
    <3>1. End(task, i, NoUser)
      BY <1>7, <2>1, <2>3 DEF ExistsHere, NoUser
    <3>2. Ends(i, NoUser)
      BY <1>0, <2>1, <3>1, QuietForms
    <3>3. ~HasUser(r.user)
      BY <2>1, <2>3 DEF HasUser
    <3> QED
      BY <1>1, <1>2, <1>3, <1>4, <2>1, <3>2, <3>3, Refuses
  <2> QED
    BY <2>2, <2>3
<1>8. CASE ExistsElsewhere(i)
  <2>1. task[i].pc = "exists" /\ At(i) # Primary(r.user)
    BY <1>8, CalmPlaces DEF ExistsElsewhere
  <2>2. Turns(i, "existsForward", task[i].result, task[i].todo)
    BY <1>0, <1>8, ExistsForms
  <2> QED
    BY <1>1, <1>2, <1>4, <2>1, <2>2, QuietlyOn
<1>9. CASE ExistsForward(i)
  <2>1. task[i].pc = "existsForward"
    BY <1>9 DEF ExistsForward
  <2>2. /\ Location(At(i), Owner(r.user)) = Primary(r.user) /\ Primary(r.user) \in Servers
    BY CalmPlaces
  <2>3. IF Primary(r.user) = At(i) THEN Ends(i, Panicked)
        ELSE Asks(i, "exists", Primary(r.user), NoResult, "asked")
    BY <1>0, <1>9, <2>2, ExistsForms
  <2>4. Primary(r.user) # At(i)
    BY <1>2, <2>1, CalmPlaces DEF VerdictOK
  <2> QED
    BY <1>1, <1>2, <1>3, <1>4, <2>1, <2>2, <2>3, <2>4, QuietlyAsks
<1>10. CASE ExistsAnswered(i)
  <2> DEFINE c == task[i].child
  <2>1. Answered(i, "asked")
    BY <1>10 DEF ExistsAnswered
  <2>2. /\ VerdictOK(task[c], state) /\ task[c].pc = "replied" /\ task[c].req = r
        /\ task[c].kind = "exists" /\ Answer(i) = task[c].result
        /\ Shown(i) = ShownAs("exists", Answer(i))
    BY <2>1, CalmAnswer DEF Waits
  <2>3. \/ Answer(i).code = "OK" /\ Turns(i, "apply", task[i].result, task[i].todo)
        \/ Answer(i).code # "OK" /\ Ends(i, Answer(i))
    BY <1>0, <1>10, ExistsForms
  <2>4. CASE Answer(i).code = "OK"
    <3>1. KnownUser(state, r.user) /\ Shown(i) = NotDecided
      BY <2>2, <2>4 DEF VerdictOK, ShownAs
    <3> QED
      BY <1>1, <1>2, <2>3, <2>4, <3>1, QuietlyOn
  <2>5. CASE Answer(i).code # "OK"
    <3>1. Answer(i).code = "UNKNOWN_USER" /\ Plain(Answer(i)) = Shown(i)
      BY <2>2, <2>5 DEF VerdictOK, ShownAs
    <3> QED
      BY <1>1, <1>2, <2>3, <2>5, <3>1, PassesOn
  <2> QED
    BY <2>4, <2>5
<1>11. CASE ExistsRetries(i)
  <2>1. task[i].pc = "asked" /\ task[i].child = Client
    BY <1>11, CalmPlaces DEF ExistsRetries, Unavailable
  <2> QED
    BY <2>1, CalmPlaces DEF VerdictOK
<1> QED
  BY <1>6, <1>7, <1>8, <1>9, <1>10, <1>11

\* Only a message has an id.
LEMMA OpSent ==
  ASSUME NEW st, NEW r, r.op \in Writes, OpEffect(st, r).result.code = "OK"
  PROVE  Sent(r, OpEffect(st, r).result)
BY DEF Writes, Sent, OpEffect, CreateUser, JoinChannel, LeaveChannel, Effect

\* The primary carries out an operation: so does the chat.
LEMMA ApplyWell ==
  ASSUME NoLists, IInv, Tree, Safe, Verdicts, Calm, NEW i \in InUse, Step(i), Apply(i)
  PROVE  Well(i)
<1> DEFINE r == Req(i)
           p == PrimaryOf(r)
           e == OpEffect(state[p], r)
           result == By(p, e.result)
<1>1. /\ task[i].pc = "apply" /\ task[i].kind = "op" /\ At(i) = p
      /\ r \in Requests /\ p \in Servers /\ r.op \in Ops \ Gathers /\ DOMAIN state = Servers
      /\ VerdictOK(task[i], state) /\ TasksOK(task, state)
  BY CalmPlaces, WritersOK DEF Apply, Over, Owned, NoLists
<1>2. r.op \in {"leave_channel", "send_message"} => ChannelExists(state[p], r.channel)
  BY <1>1, WritersOK DEF PcOK, Looked
<1>3. /\ state' = [state EXCEPT ![p] = e.state]
      /\ IF r.op \in Writes /\ result.code = "OK" THEN Turns(i, "replicate", result, task[i].todo)
         ELSE Ends(i, result)
  BY <1>1, CalmPlaces, ApplyForms DEF Applied
<1>4. \A s \in Servers : state'[s] = IF s = p THEN e.state ELSE state[s]
  BY <1>1, <1>3
<1>5. OneChat' = OpEffect(OneChat, r).state /\ OpEffect(OneChat, r).result = e.result
  BY <1>1, <1>2, <1>4, OneWrites
<1>6. PerformOne(OneChat, r) = OpEffect(OneChat, r)
  <2>1. r.user \in Users /\ r.channel \in Channels
    BY <1>1, ReplicationAssumption
  <2>2. r.op \in ByMember => UserExists(OneChat, r.user)
    BY <1>1, <2>1, OneFields DEF VerdictOK, KnownUser, HasUser, Req
  <2>3. r.op \in {"leave_channel", "send_message"} => ChannelExists(OneChat, r.channel)
    BY <1>1, <1>2, <2>1, OneFields DEF HasChannel, PrimaryOf, Primary, Subject
  <2> QED
    BY <2>2, <2>3 DEF PerformOne
<1>7. Shown(i) = NotDecided
  <2>1. task[i].child = Client /\ task[i].result = NoResult
    BY <1>1, NoCall DEF VerdictOK
  <2> QED
    BY <1>1, <2>1, CalmPlaces, NothingShown
<1>8. result.code = e.result.code /\ result.value = e.result.value
  BY DEF By
<1>9. /\ e.result.code \notin {"NONE", "LOST", "PANIC"}
      /\ result # Panicked
  BY <1>1, <1>8, OpCodes DEF Panicked, NoResult
<1>10. Plain(result) = e.result
  <2>1. e.result = [code |-> e.result.code, value |-> e.result.value]
    BY <1>1 DEF OpEffect, CreateUser, JoinChannel, LeaveChannel, SendMessage, ListChannelUsers,
       GetMessages, Effect, Ops, Gathers
  <2> QED
    BY <1>8, <2>1 DEF Plain
<1>11. Outcome(r, Shown(i), Plain(result)) /\ ShownAs(task[i].kind, result) = Plain(result)
  BY <1>1, <1>5, <1>6, <1>7, <1>9, <1>10 DEF Outcome, ShownAs
<1>12. CASE r.op \in Writes /\ e.result.code = "OK"
  <2> DEFINE y == Task(task[i], "replicate", Client, result, task[i].todo)
  <2>1. /\ y.kind = "op" /\ y.pc = "replicate" /\ y.result = result /\ y.req = r
    BY <1>1, TaskFields, CalmPlaces
  <2>2. Sent(r, result)
    BY <1>8, <1>12, OpSent DEF Sent
  <2> HIDE DEF y
  <2>3. VerdictOK(y, state')
    BY <2>1, <2>2 DEF VerdictOK
  <2> HIDE DEF result
  <2> QED
    BY <1>1, <1>3, <1>8, <1>11, <1>12, <2>3 DEF y, Well, GoesOnWell
<1>13. CASE ~(r.op \in Writes /\ e.result.code = "OK")
  <2> DEFINE y == Task(task[i], "replied", Client, result, task[i].todo)
  <2>1. /\ y.kind = "op" /\ y.pc = "replied" /\ y.result = result /\ y.req = r
    BY <1>1, TaskFields, CalmPlaces
  <2> HIDE DEF y
  <2>2. VerdictOK(y, state')
    BY <1>8, <1>9, <2>1 DEF VerdictOK
  <2> HIDE DEF result
  <2> QED
    BY <1>1, <1>3, <1>8, <1>9, <1>11, <1>13, <2>2 DEF y, Well, EndsWell
<1> QED
  BY <1>12, <1>13

\* Replicating, and what comes back.
LEMMA ReplicateWell ==
  ASSUME IInv, Tree, Safe, Verdicts, Calm, NEW i \in InUse, Step(i),
         Replicate(i) \/ ReplicateAnswered(i) \/ ReplicateUnavailable(i)
  PROVE  Well(i)
<1>0. TasksOK(task, state) /\ state' = state /\ VerdictOK(task[i], state) /\ SentOn(i)
  BY CalmPlaces DEF Replicate, ReplicateAnswered, ReplicateUnavailable
<1>1. CASE Replicate(i)
  <2> DEFINE b == BackupOf(Req(i))
  <2>1. /\ task[i].pc = "replicate" /\ task[i].kind = "op" /\ At(i) = PrimaryOf(Req(i))
        /\ b \in Servers /\ b # At(i) /\ b = OwnerOf(i).backup /\ task[i].child = Client
        /\ Sent(Req(i), task[i].result)
    BY <1>0, <1>1, CalmPlaces, WritersOK, NoCall
       DEF Replicate, Over, Owned, BackupOf, OwnerOf, VerdictOK
  <2>2. alive[At(i)][b]
    BY <2>1, CalmPlaces, AllAlive
  <2>3. Asks(i, "replicate", b, task[i].result, "replicating")
    BY <1>0, <1>1, <2>1, <2>2, ReplicateForms
  <2>4. PICK d : Calls(i, d, "replicate", b, task[i].result, "replicating")
    BY <2>2, <2>3 DEF Asks
  <2> DEFINE y == Task(task[i], "replicating", d, task[i].result, task[i].todo)
             c == Callee(i, "replicate", b, task[i].result)
  <2>5. /\ y.kind = "op" /\ y.pc = "replicating" /\ y.child = d /\ y.result = task[i].result
        /\ y.req = Req(i)
    BY <2>1, TaskFields, CalmPlaces
  <2>6. /\ c.kind = "replicate" /\ c.pc = "start" /\ c.result = task[i].result /\ c.req = Req(i)
    BY <2>1 DEF Callee, Calm
  <2>7. d # Client
    BY <2>4, ClientNoSlot DEF Calls
  <2> HIDE DEF y, c
  <2>8. VerdictOK(y, state') /\ VerdictOK(c, state')
    BY <2>1, <2>5, <2>6, <2>7 DEF VerdictOK
  <2>9. Outcome(Req(i), Shown(i), ShownAs("replicate", task[i].result))
    BY <1>0, <2>1, ChatStays, CalmPlaces DEF Outcome, ShownAs
  <2> HIDE DEF b
  <2> QED
    BY <2>1, <2>4, <2>8, <2>9 DEF y, c, Well, CallsWell
<1>2. CASE ReplicateAnswered(i)
  <2> DEFINE result == By(At(i), Answer(i))
  <2>1. Answered(i, "replicating")
    BY <1>2 DEF ReplicateAnswered
  <2>2. task[i].kind = "op" /\ task[i].pc = "replicating"
    BY <2>1, CalmPlaces DEF Answered, Over
  <2>3. /\ Answer(i) = task[task[i].child].result /\ Shown(i) = Plain(Answer(i))
    BY <2>1, CalmAnswer DEF Waits, ShownAs
  <2>4. Plain(Answer(i)) = Plain(task[i].result) /\ task[i].result.code = "OK"
    BY <1>0, <2>2, <2>3 DEF SentOn, VerdictOK, Sent
  <2>5. Answer(i).code = "OK"
    BY <2>4 DEF Plain
  <2>6. result.code = "OK" /\ Plain(result) = Shown(i)
    BY <2>3, <2>5 DEF By, Plain
  <2>7. Ends(i, result)
    BY <1>0, <1>2, ReplicateForms
  <2> HIDE DEF result
  <2> QED
    BY <1>0, <2>2, <2>6, <2>7, PassesOn
<1>3. CASE ReplicateUnavailable(i)
  <2>1. task[i].pc = "replicating" /\ task[i].child = Client
    BY <1>3, CalmPlaces DEF ReplicateUnavailable, Unavailable
  <2> QED
    BY <1>0, <2>1 DEF VerdictOK
<1> QED
  BY <1>1, <1>2, <1>3

\* The user's primary answers from its own state.
LEMMA ServeExistsWell ==
  ASSUME IInv, Tree, Safe, Verdicts, Calm, NEW i \in InUse, Step(i), ServeExists(i)
  PROVE  Well(i)
<1> DEFINE r == Req(i)
           y == Task(task[i], "replied", Client, Found(i), task[i].todo)
<1>0. TasksOK(task, state) /\ state' = state /\ VerdictOK(task[i], state)
  BY CalmPlaces DEF ServeExists
<1>1. /\ task[i].pc = "start" /\ task[i].kind = "exists" /\ At(i) = Primary(r.user)
      /\ task[i].child = Client /\ task[i].result = NoResult /\ r.op \in ByMember
      /\ r.op \in {"leave_channel", "send_message"} => HasChannel(r.channel)
  <2>1. /\ task[i].pc = "start" /\ task[i].kind = "exists" /\ At(i) = Primary(r.user)
        /\ r = task[i].req
    BY CalmPlaces DEF ServeExists
  <2>2. task[i].child = Client
    BY <1>0, <2>1, NoCall
  <2> QED
    BY <1>0, <2>1, <2>2 DEF VerdictOK, HasChannel, PrimaryOf, Primary, Subject
<1>2. Shown(i) = NotDecided
  BY <1>1, CalmPlaces, NothingShown
<1>3. End(task, i, Found(i))
  BY <1>1, CalmPlaces DEF ServeExists, Found
<1>4. Ends(i, Found(i))
  BY <1>0, <1>1, <1>3, QuietForms
<1>5. CASE ~UserExists(state[At(i)], r.user)
  <2>1. Found(i) = NoUser /\ ~HasUser(r.user)
    BY <1>1, <1>5 DEF Found, NoUser, HasUser
  <2> QED
    BY <1>0, <1>1, <1>2, <1>4, <2>1, Refuses
<1>6. CASE UserExists(state[At(i)], r.user)
  <2>1. Found(i).code = "OK" /\ Found(i) # Panicked /\ KnownUser(state, r.user)
    BY <1>1, <1>6 DEF Found, NoResult, Panicked, KnownUser
  <2>2. y.kind = "exists" /\ y.pc = "replied" /\ y.result = Found(i) /\ y.req = r
    BY <1>1, TaskFields, CalmPlaces
  <2> HIDE DEF y
  <2>3. VerdictOK(y, state')
    BY <1>0, <1>1, <2>1, <2>2, CalmPlaces DEF VerdictOK
  <2>4. Outcome(r, Shown(i), ShownAs("exists", Found(i)))
    BY <1>0, <1>2, <2>1, ChatStays DEF Outcome, ShownAs
  <2> QED
    BY <1>1, <1>4, <2>1, <2>3, <2>4 DEF y, Well, EndsWell
<1> QED
  BY <1>5, <1>6

-----------------------------------------------------------------------------
(***************************************************************************)
(* The backup makes each change once                                       *)
(***************************************************************************)
\* The backup has not yet made the change.
Undone(b, r) ==
  /\ r.op = "create_user" => ~UserExists(b, r.user)
  /\ r.op = "join_channel" => r.user \notin Chan(b, r.channel).users
  /\ r.op = "leave_channel" => r.user \in Chan(b, r.channel).users

\* Two requests that change the same user, or the same member.
SameChange(q, r) ==
  \/ q.op = "create_user" /\ r.op = "create_user" /\ q.user = r.user
  \/ Change(q) /\ ChangesMembership(r, q.user, q.channel)

\* What is on its way to the backup was not done there, and is on its way once.
Due ==
  \A i \in InUse : Underway(task[i]) =>
    /\ Undone(state[BackupOf(Req(i))], Req(i))
    /\ \A j \in InUse : Underway(task[j]) /\ SameChange(Req(i), Req(j)) => i = j

\* Such a change succeeds at the backup as it did at the primary.
LEMMA ReplicaSucceeds ==
  ASSUME NEW b, NEW r, r.op \in Writes, Undone(b, r), NEW result, Sent(r, result),
         r.op = "send_message" => \E k : result.value = {k}
  PROVE  LET e == ReplicaEffect(b, r, result)
         IN e.result.code = "OK" /\ e.result.value = result.value
<1>1. CASE r.op = "create_user"
  BY <1>1 DEF Undone, Sent, ReplicaEffect, CreateUser, Effect
<1>2. CASE r.op = "join_channel"
  BY <1>2 DEF Undone, Sent, ReplicaEffect, JoinChannel, Effect, Chan
<1>3. CASE r.op = "leave_channel"
  <2>1. ChannelExists(b, r.channel) /\ r.user \in b.channels[r.channel].users
    BY <1>3 DEF Undone, Chan, NewChannel
  <2> QED
    BY <1>3, <2>1 DEF Sent, ReplicaEffect, LeaveChannel, Effect
<1>4. CASE r.op = "send_message"
  <2>1. PICK k : result.value = {k}
    BY <1>4
  <2>2. (CHOOSE id \in result.value : TRUE) = k
    BY <2>1
  <2>3. /\ ReplicaEffect(b, r, result).result.code = "OK"
        /\ ReplicaEffect(b, r, result).result.value = {CHOOSE id \in result.value : TRUE}
    BY <1>4 DEF ReplicaEffect, ReplicateSendMessage, Effect
  <2> QED
    BY <2>1, <2>2, <2>3
<1> QED
  BY <1>1, <1>2, <1>3, <1>4 DEF Writes

\* The chat is that of the primaries: what a backup does is not seen.
LEMMA ReplicaUnseen ==
  ASSUME IInv, NEW r \in Requests, r.op \in Writes, NEW result, NEW b \in Servers,
         b = BackupOf(r), r.op = "send_message" => ChannelExists(state[b], r.channel),
         \A s \in Servers :
           state'[s] = IF s = b THEN ReplicaEffect(state[b], r, result).state ELSE state[s]
  PROVE  /\ OneChat' = OneChat
         /\ \A u \in Users : KnownUser(state, u) => KnownUser(state', u)
<1>1. /\ \A c \in Channels : Primary(c) \in Servers /\ Primary(c)' = Primary(c)
      /\ \A u \in Users : Primary(u) \in Servers /\ Primary(u)' = Primary(u)
  BY ChannelOwners, UserOwners DEF Primary, Owner
<1>2. StateOK(state[b]) /\ r.user \in Users /\ r.channel \in Channels
  BY ReplicationAssumption DEF IInv, StatesOK
<1>3. ASSUME NEW u \in Users
      PROVE  UserExists(state'[Primary(u)], u) <=> UserExists(state[Primary(u)], u)
  <2>1. CASE Primary(u) = b
    <3>1. ~(r.op = "create_user" /\ r.user = u)
      BY <2>1, UserOwners DEF Primary, BackupOf, Subject
    <3> QED
      BY <1>2, <2>1, <3>1, ReplicaUsers
  <2> QED
    BY <1>1, <2>1
<1>4. ASSUME NEW c \in Channels
      PROVE  /\ ChannelExists(state'[Primary(c)], c) <=> ChannelExists(state[Primary(c)], c)
             /\ ChannelExists(state[Primary(c)], c) =>
                  state'[Primary(c)].channels[c] = state[Primary(c)].channels[c]
  <2>1. CASE Primary(c) = b
    <3>1. ~WritesTo(r, c)
      BY <2>1, ChannelOwners DEF Primary, BackupOf, Subject, WritesTo, OnChannel
    <3>2. LET tt == ReplicaEffect(state[b], r, result).state
          IN (ChannelExists(tt, c) <=> ChannelExists(state[b], c)) /\ Chan(tt, c) = Chan(state[b], c)
      BY <1>2, <3>1, ReplicaElsewhere
    <3> QED
      BY <2>1, <3>2 DEF Chan
  <2> QED
    BY <1>1, <2>1
<1> QED
  BY <1>1, <1>3, <1>4 DEF OneChat, HasUser, HasChannel, KnownUser

\* What holds where the backup makes the change that it was sent.
LEMMA ReplicaForm ==
  ASSUME IInv, Tree, Safe, Verdicts, Calm, Calm', NEW i \in InUse, Step(i), ServeReplicate(i)
  PROVE  LET r == Req(i)
             b == BackupOf(r)
             e == ReplicaEffect(state[b], r, task[i].result)
         IN /\ task[i].pc = "start" /\ task[i].kind = "replicate" /\ task[i].child = Client
            /\ r \in Requests /\ b \in Servers /\ r.op \in Writes /\ DOMAIN state = Servers
            /\ Sent(r, task[i].result)
            /\ r.op = "send_message" =>
                 ChannelExists(state[b], r.channel) /\ \E k : task[i].result.value = {k}
            /\ \A s \in Servers : state'[s] = IF s = b THEN e.state ELSE state[s]
            /\ Ends(i, By(b, e.result))
<1> DEFINE r == Req(i)
           b == BackupOf(r)
           e == ReplicaEffect(state[b], r, task[i].result)
<1>1. /\ task[i].pc = "start" /\ task[i].kind = "replicate" /\ At(i) = b
      /\ r \in Requests /\ b \in Servers /\ r.op \in Writes /\ DOMAIN state = Servers
      /\ Sent(r, task[i].result) /\ TasksOK(task, state) /\ task[i].req = r
  BY CalmPlaces, WritersOK DEF ServeReplicate, PcOK, VerdictOK
<1>2. At(i) \notin poisoned /\ ~ChannelMissing(i)
  <2>1. ChannelMissing(i) => poisoned' = poisoned \cup {At(i)}
    BY DEF ServeReplicate
  <2> QED
    BY <2>1 DEF Calm
<1>3. state' = [state EXCEPT ![b] = e.state] /\ End(task, i, By(b, e.result))
  BY <1>1, <1>2 DEF ServeReplicate
<1>4. Ends(i, By(b, e.result)) /\ task[i].child = Client
  BY <1>1, <1>3, QuietForms, NoCall
<1>5. r.op = "send_message" =>
        ChannelExists(state[b], r.channel) /\ \E k : task[i].result.value = {k}
  <2>1. Kept(state[PrimaryOf(r)], r, task[i].result.value)
    BY <1>1, InUseOK, NowFields DEF HandledOK, Promised
  <2> QED
    BY <1>1, <1>2, <2>1 DEF ChannelMissing, Kept
<1>6. \A s \in Servers : state'[s] = IF s = b THEN e.state ELSE state[s]
  BY <1>1, <1>3
<1> HIDE DEF e
<1> QED
  BY <1>1, <1>4, <1>5, <1>6 DEF e

\* The backup makes the change, which the chat has made.
LEMMA ReplicaWell ==
  ASSUME IInv, Tree, Safe, Verdicts, Due, Calm, Calm', NEW i \in InUse, Step(i), ServeReplicate(i)
  PROVE  Well(i)
<1> DEFINE r == Req(i)
           b == BackupOf(r)
           e == ReplicaEffect(state[b], r, task[i].result)
           result == By(b, e.result)
           y == Task(task[i], "replied", Client, result, task[i].todo)
<1>1. /\ task[i].pc = "start" /\ task[i].kind = "replicate" /\ task[i].child = Client
      /\ r \in Requests /\ b \in Servers /\ r.op \in Writes
      /\ Sent(r, task[i].result)
      /\ r.op = "send_message" =>
           ChannelExists(state[b], r.channel) /\ \E k : task[i].result.value = {k}
      /\ \A s \in Servers : state'[s] = IF s = b THEN e.state ELSE state[s]
      /\ Ends(i, result)
  BY ReplicaForm
<1>2. Undone(state[b], r)
  BY <1>1 DEF Due, Underway
<1>3. e.result.code = "OK" /\ e.result.value = task[i].result.value
  BY <1>1, <1>2, ReplicaSucceeds
<1>4. result.code = "OK" /\ result.value = task[i].result.value /\ result # Panicked
  BY <1>3 DEF By, Panicked, NoResult
<1>5. OneChat' = OneChat
  <2> HIDE DEF b, r
  <2> QED
    BY <1>1, ReplicaUnseen DEF b
<1>6. /\ y.kind = "replicate" /\ y.pc = "replied" /\ y.result = result /\ y.req = r
  BY <1>1, TaskFields, CalmPlaces
<1>7. task[i].result.code = "OK" /\ Sent(r, result)
  BY <1>1, <1>4 DEF Sent
<1> HIDE DEF y, result, e
<1>8. VerdictOK(y, state')
  BY <1>1, <1>6, <1>7, CalmPlaces DEF VerdictOK
<1>9. Plain(result) = Plain(task[i].result)
  BY <1>4, <1>7 DEF Plain
<1>10. Outcome(r, Shown(i), ShownAs("replicate", result))
  BY <1>1, <1>5, <1>9, CalmPlaces DEF Outcome, ShownAs
<1> QED
  BY <1>1, <1>4, <1>8, <1>9, <1>10 DEF y, Well, EndsWell

\* So it is with every step of a handler.
LEMMA StepWell ==
  ASSUME NoLists, IInv, Tree, Safe, Verdicts, Due, Calm, Calm', NEW i \in InUse, Step(i)
  PROVE  Well(i)
<1>0. VerdictOK(task[i], state) /\ Req(i).op \notin Gathers /\ TasksOK(task, state)
  BY CalmPlaces DEF NoLists
<1>1. ~(Gather(i) \/ GatherNext(i) \/ Gathered(i) \/ GatherSkips(i) \/ GatherEnds(i))
  BY <1>0, CalmPlaces DEF VerdictOK, Gather, GatherNext, Gathered, GatherSkips, GatherEnds,
     Answered, Unavailable
<1>2. ~ServeNames(i)
  BY <1>0 DEF VerdictOK, ServeNames
<1> QED
  BY <1>1, <1>2, ForwardWell, ExistsWell, ApplyWell, ReplicateWell, ServeExistsWell, ReplicaWell
     DEF Step

-----------------------------------------------------------------------------
(***************************************************************************)
(* Every step keeps what handlers have come to                             *)
(***************************************************************************)
\* What a handler knows stays true.
LEMMA VerdictStays ==
  ASSUME StatesGrow, NEW x, x.req \in Requests, VerdictOK(x, state)
  PROVE  VerdictOK(x, state')
<1>1. /\ PrimaryOf(x.req) \in Servers /\ Primary(x.req.user) \in Servers
      /\ x.req.user \in Users
  BY ReplicationAssumption, OwnerServers, UserOwners DEF PrimaryOf, Primary
<1>2. KnownUser(state, x.req.user) => KnownUser(state', x.req.user)
  BY <1>1 DEF StatesGrow, Grows, KnownUser, UserExists
<1>3. ChannelExists(state[PrimaryOf(x.req)], x.req.channel)
        => ChannelExists(state'[PrimaryOf(x.req)], x.req.channel)
  BY <1>1 DEF StatesGrow, Grows, ChannelExists
<1> QED
  BY <1>2, <1>3 DEF VerdictOK

\* A handler that ends is forgotten, or its caller finds the result.
LEMMA CalmEnding ==
  ASSUME IInv, Tree, Calm, NEW i \in InUse, NEW result, result # Panicked
  PROVE  Ending(i, result) = IF ~Awaited(i) THEN Free
                             ELSE Task(task[i], "replied", Client, result, task[i].todo)
<1>1. ASSUME Awaited(i) PROVE alive[At(i)][task[i].from]
  <2> DEFINE p == task[i].parent
  <2>1. p \in Slots /\ task[p].child = i /\ i \in Slots /\ At(i) \in Servers
    BY <1>1, Working DEF Awaited, Tree, HandlerOK, IInv
  <2>2. p \in InUse
    BY <2>1, Used, FreeFields, ClientNoSlot DEF IInv
  <2>3. CalleeOK(p) /\ HandlerOK(p)
    BY <2>2 DEF Tree
  <2>4. task[i].from = task[p].at /\ task[p].at \in Servers
    BY <2>1, <2>3, ClientNoSlot DEF CalleeOK, HandlerOK
  <2> QED
    BY <2>1, <2>4, AllAlive
<1> QED
  BY <1>1 DEF Ending

\* The handlers that a step leaves alone.
LEMMA OthersKeep ==
  ASSUME IInv, IInv', Tree, Verdicts, Next, NEW j \in InUse, task'[j] = task[j]
  PROVE  /\ VerdictOK(task'[j], state')
         /\ \/ task[j].pc # "replicating"
            \/ Plain(task'[task[j].child].result) = Plain(task[task[j].child].result)
            => SentOn(j)'
<1>1. StatesGrow /\ task[j].req \in Requests
  BY EveryStep, InUseOK, Used DEF IInv
<1>2. VerdictOK(task[j], state) /\ SentOn(j)
  BY DEF Verdicts
<1> QED
  BY <1>1, <1>2, VerdictStays DEF SentOn

\* What waits for a handler waits for the one that it called.
LEMMA WaitsFor ==
  ASSUME IInv, Tree, NEW j \in InUse, task[j].child # Client
  PROVE  /\ task[j].child \in InUse /\ task[task[j].child].parent = j /\ task[j].child # j
         /\ task[task[j].child].req = task[j].req
         /\ <<task[j].pc, task[task[j].child].kind>> \in Waits
         /\ Awaited(task[j].child)
<1>1. CalleeOK(j) /\ j # Client
  BY Used, ClientNoSlot DEF Tree, IInv
<1>2. task[task[j].child].at # task[j].at
  BY <1>1 DEF CalleeOK
<1> QED
  BY <1>1, <1>2 DEF CalleeOK, Awaited

\* A handler goes on, or ends.
LEMMA BecomesVerdicts ==
  ASSUME IInv, IInv', Tree, Verdicts, Next, NEW i \in InUse, NEW y, Becomes(i, y),
         y.pc # "free" => VerdictOK(y, state') /\ y.pc # "replicating",
         Awaited(i) /\ task[i].kind = "replicate" => Plain(y.result) = Plain(task[i].result)
  PROVE  \A j \in InUse' : VerdictOK(task'[j], state') /\ SentOn(j)'
<1> SUFFICES ASSUME NEW j \in InUse' PROVE VerdictOK(task'[j], state') /\ SentOn(j)'
  OBVIOUS
<1>1. /\ j \in Slots /\ task'[j].pc # "free" /\ i \in Slots /\ task[i].pc # "free"
  BY NextUsed, Used DEF IInv
<1>2. CASE j = i
  BY <1>1, <1>2 DEF Becomes, SentOn
<1>3. CASE j # i
  <2>1. task'[j] = task[j] /\ j \in InUse
    BY <1>1, <1>3, FreeFields DEF Becomes, InUse
  <2>2. ASSUME task[j].pc = "replicating"
        PROVE  Plain(task'[task[j].child].result) = Plain(task[task[j].child].result)
    <3> DEFINE c == task[j].child
    <3>1. c # Client
      BY <2>1, <2>2 DEF Verdicts, VerdictOK
    <3>2. /\ c \in InUse /\ task[c].parent = j /\ task[c].kind = "replicate" /\ Awaited(c)
          /\ c \in Slots
      BY <2>1, <2>2, <3>1, WaitsFor, Used DEF Waits, IInv
    <3>3. c # task[i].child
      <4>1. c = task[i].child => task[c].parent = i
        BY <3>1, WaitsFor
      <4> QED
        BY <1>3, <3>2, <4>1
    <3>4. CASE c = i
      BY <3>2, <3>4 DEF Becomes
    <3>5. CASE c # i
      BY <3>2, <3>3, <3>5 DEF Becomes
    <3> QED
      BY <3>4, <3>5
  <2> QED
    BY <2>1, <2>2, OthersKeep
<1> QED
  BY <1>2, <1>3

\* A handler calls another.
LEMMA CallsVerdicts ==
  ASSUME IInv, IInv', Tree, Verdicts, Next, NEW i \in InUse,
         NEW d, NEW kind, NEW to, NEW result, NEW pc, Calls(i, d, kind, to, result, pc),
         task[i].kind = "op",
         VerdictOK(Task(task[i], pc, d, task[i].result, task[i].todo), state'),
         VerdictOK(Callee(i, kind, to, result), state'),
         pc = "replicating" => Plain(result) = Plain(task[i].result)
  PROVE  \A j \in InUse' : VerdictOK(task'[j], state') /\ SentOn(j)'
<1> SUFFICES ASSUME NEW j \in InUse' PROVE VerdictOK(task'[j], state') /\ SentOn(j)'
  OBVIOUS
<1>1. /\ j \in Slots /\ task'[j].pc # "free" /\ i \in Slots /\ d \in Slots /\ d \notin InUse
  BY NextUsed, Used DEF IInv, Calls
<1>2. CASE j = i
  <2>1. /\ task'[i].pc = pc /\ task'[i].child = d /\ task'[i].result = task[i].result
        /\ task'[d].result = result
    BY TaskFields DEF Calls, Callee
  <2>2. VerdictOK(task'[i], state')
    BY DEF Calls
  <2> QED
    BY <1>2, <2>1, <2>2 DEF SentOn
<1>3. CASE j = d
  <2>1. task'[d].pc # "replicating"
    BY DEF Calls, Callee
  <2> QED
    BY <1>3, <2>1 DEF SentOn, Calls
<1>4. CASE j # i /\ j # d
  <2>1. task'[j] = task[j] /\ j \in InUse
    BY <1>1, <1>4 DEF Calls, InUse
  <2>2. ASSUME task[j].pc = "replicating"
        PROVE  Plain(task'[task[j].child].result) = Plain(task[task[j].child].result)
    <3> DEFINE c == task[j].child
    <3>1. c # Client
      BY <2>1, <2>2 DEF Verdicts, VerdictOK
    <3>2. /\ c \in InUse /\ task[c].kind = "replicate" /\ c \in Slots
      BY <2>1, <2>2, <3>1, WaitsFor, Used DEF Waits, IInv
    <3>3. c # i /\ c # d
      BY <1>1, <3>2
    <3> QED
      BY <3>2, <3>3 DEF Calls
  <2> QED
    BY <2>1, <2>2, OthersKeep
<1> QED
  BY <1>2, <1>3, <1>4

\* A step of a handler.
LEMMA WellVerdicts ==
  ASSUME IInv, IInv', Tree, Verdicts, Calm, Next, NEW i \in InUse, Well(i)
  PROVE  Verdicts'
<1>0. /\ i \in Slots /\ task[i].pc # "free" /\ Req(i) \in Requests /\ DOMAIN answer = Requests
      /\ Top(i) => task[i].kind = "op"
  BY Working DEF IInv, Tree, InUse, HandlerOK
<1>1. CASE GoesOnWell(i)
  <2>1. PICK pc, result :
          /\ Turns(i, pc, result, task[i].todo) /\ task[i].kind = "op"
          /\ VerdictOK(Task(task[i], pc, Client, result, task[i].todo), state')
    BY <1>1 DEF GoesOnWell
  <2> DEFINE y == Task(task[i], pc, Client, result, task[i].todo)
  <2>2. y.pc = pc /\ y.child = Client /\ y.kind = "op"
    BY <2>1, TaskFields
  <2> HIDE DEF y
  <2>3. y.pc # "replicating"
    BY <2>1, <2>2 DEF y, VerdictOK
  <2>4. Becomes(i, y) /\ VerdictOK(y, state') /\ answer' = answer
    BY <2>1 DEF y, Turns
  <2>5. \A j \in InUse' : VerdictOK(task'[j], state') /\ SentOn(j)'
    BY <2>1, <2>3, <2>4, BecomesVerdicts
  <2> QED
    BY <2>4, <2>5 DEF Verdicts
<1>2. CASE EndsWell(i)
  <2>1. PICK result :
          /\ Ends(i, result) /\ result # Panicked
          /\ VerdictOK(Task(task[i], "replied", Client, result, task[i].todo), state')
          /\ task[i].kind = "replicate" => Plain(result) = Plain(task[i].result)
    BY <1>2 DEF EndsWell
  <2> DEFINE y == Ending(i, result)
             z == Task(task[i], "replied", Client, result, task[i].todo)
  <2>2. y = IF ~Awaited(i) THEN Free ELSE z
    BY <2>1, CalmEnding
  <2>3. z.pc = "replied" /\ z.result = result /\ z.kind = task[i].kind
    BY TaskFields
  <2> HIDE DEF y, z
  <2>4. Becomes(i, y) /\ VerdictOK(z, state')
    BY <2>1 DEF y, z, Ends
  <2>5. /\ y.pc # "free" => VerdictOK(y, state') /\ y.pc # "replicating"
        /\ Awaited(i) /\ task[i].kind = "replicate" => Plain(y.result) = Plain(task[i].result)
    BY <2>1, <2>2, <2>3, <2>4, FreeFields
  <2>6. \A j \in InUse' : VerdictOK(task'[j], state') /\ SentOn(j)'
    BY <2>4, <2>5, BecomesVerdicts
  <2>7. Top(i) => result.code # "NONE"
    BY <1>0, <2>3, <2>4 DEF VerdictOK
  <2>8. answer' = IF Top(i) THEN [answer EXCEPT ![Req(i)] = result] ELSE answer
    BY <2>1 DEF Ends
  <2>9. \A r \in Requests : answer'[r].code = "NONE" => answer'[r] = NoResult
    BY <1>0, <2>7, <2>8 DEF Verdicts
  <2> QED
    BY <2>6, <2>9 DEF Verdicts
<1>3. CASE CallsWell(i)
  <2>1. PICK d, kind, to, result, pc :
          /\ Calls(i, d, kind, to, result, pc) /\ task[i].kind = "op"
          /\ VerdictOK(Task(task[i], pc, d, task[i].result, task[i].todo), state')
          /\ VerdictOK(Callee(i, kind, to, result), state')
          /\ pc = "replicating" => Plain(result) = Plain(task[i].result)
    BY <1>3 DEF CallsWell
  <2>2. \A j \in InUse' : VerdictOK(task'[j], state') /\ SentOn(j)'
    BY <2>1, CallsVerdicts
  <2>3. answer' = answer
    BY <2>1 DEF Calls
  <2> QED
    BY <2>2, <2>3 DEF Verdicts
<1> QED
  BY <1>1, <1>2, <1>3 DEF Well

\* A client that goes away, and a request that starts.
LEMMA ClientVerdicts ==
  ASSUME NoLists, IInv, IInv', Tree, Verdicts, Calm, Next,
         \/ \E i \in InUse : Disconnect(i)
         \/ \E r \in Requests : Issue(r)
  PROVE  Verdicts'
<1>1. ASSUME NEW i \in InUse, Disconnect(i) PROVE Verdicts'
  <2>1. Top(i) /\ Becomes(i, Free) /\ answer' = [answer EXCEPT ![Req(i)] = Lost]
    BY <1>1, DisconnectForm DEF IInv
  <2>2. ~Awaited(i) /\ Lost.code = "LOST"
    BY <2>1 DEF Top, Awaited, Lost, NoResult
  <2>3. \A j \in InUse' : VerdictOK(task'[j], state') /\ SentOn(j)'
    BY <2>1, <2>2, FreeFields, BecomesVerdicts
  <2>4. \A r \in Requests : answer'[r].code = "NONE" => answer'[r] = NoResult
    BY <2>1, <2>2, Working DEF Verdicts, Tree, IInv
  <2> QED
    BY <2>3, <2>4 DEF Verdicts
<1>2. ASSUME NEW r \in Requests, Issue(r) PROVE Verdicts'
  <2>1. answer' = answer
    BY <1>2 DEF Issue
  <2>2. PICK d : Starts(d, r)
    BY <1>2, IssueForm DEF IInv
  <2>3. ASSUME NEW j \in InUse' PROVE VerdictOK(task'[j], state') /\ SentOn(j)'
    <3>1. j \in Slots /\ task'[j].pc # "free" /\ d \in Slots /\ d \notin InUse
      BY <2>2, NextUsed DEF Starts
    <3>2. CASE j = d
      BY <2>2, <3>2 DEF Starts, NewTask, VerdictOK, SentOn
    <3>3. CASE j # d
      <4>1. task'[j] = task[j] /\ j \in InUse
        BY <2>2, <3>1, <3>3 DEF Starts, InUse
      <4>2. ASSUME task[j].pc = "replicating"
            PROVE  Plain(task'[task[j].child].result) = Plain(task[task[j].child].result)
        <5> DEFINE c == task[j].child
        <5>1. c # Client
          BY <4>1, <4>2 DEF Verdicts, VerdictOK
        <5>2. c \in InUse /\ c \in Slots /\ c # d
          BY <3>1, <4>1, <5>1, WaitsFor, Used DEF IInv
        <5> QED
          BY <2>2, <5>2 DEF Starts
      <4> QED
        BY <4>1, <4>2, OthersKeep
    <3> QED
      BY <3>2, <3>3
  <2> QED
    BY <2>1, <2>3 DEF Verdicts
<1> QED
  BY <1>1, <1>2

\* So in every step.
LEMMA VerdictsStep ==
  ASSUME NoLists, IInv, IInv', Tree, Safe, Verdicts, Due, Calm, Calm', Next
  PROVE  Verdicts'
<1>1. \/ \E r \in Requests : Issue(r)
      \/ \E i \in InUse : Step(i) \/ Disconnect(i)
  BY CalmSteps
<1>2. ASSUME NEW i \in InUse, Step(i) PROVE Verdicts'
  BY <1>2, StepWell, WellVerdicts
<1> QED
  BY <1>1, <1>2, ClientVerdicts

\* At the start no handler has come to anything.
LEMMA VerdictsInit == Init => Verdicts
BY DEF Init, Verdicts, InUse, Free, NoResult

-----------------------------------------------------------------------------
(***************************************************************************)
(* Every step keeps what is on its way                                     *)
(***************************************************************************)
\* Nothing new is on its way, but for what handler d has taken over from i.
LEMMA DueRest ==
  ASSUME Due, NEW i, NEW d,
         \A j \in InUse' : Underway(task'[j]) =>
           \/ j # d /\ j \in InUse /\ Underway(task[j]) /\ task'[j].req = task[j].req
           \/ /\ j = d /\ i \in InUse /\ Underway(task[i]) /\ task'[d].req = task[i].req
              /\ i \in InUse' => ~Underway(task'[i]),
         \A j \in InUse : \/ ~Underway(task[j])
                          \/ (j # i /\ j # d) /\ (j \in InUse' => ~Underway(task'[j]))
                          \/ Undone(state'[BackupOf(Req(j))], Req(j))
  PROVE  Due'
<1> DEFINE from(j) == IF j = d THEN i ELSE j
<1>1. ASSUME NEW j \in InUse', Underway(task'[j])
      PROVE  /\ from(j) \in InUse /\ Underway(task[from(j)]) /\ Req(j)' = Req(from(j))
             /\ Undone(state'[BackupOf(Req(from(j)))], Req(from(j)))
  BY <1>1 DEF Req
<1>2. ASSUME NEW j \in InUse', Underway(task'[j]), NEW k \in InUse', Underway(task'[k]),
             from(j) = from(k)
      PROVE  j = k
  BY <1>2
<1>3. ASSUME NEW j \in InUse', Underway(task'[j]), NEW k \in InUse', Underway(task'[k]),
             SameChange(Req(j), Req(k))'
      PROVE  j = k
  <2>1. SameChange(Req(from(j)), Req(from(k)))
    BY <1>1, <1>3 DEF SameChange, Change, ChangesMembership
  <2>2. from(j) = from(k)
    BY <1>1, <1>3, <2>1 DEF Due
  <2> QED
    BY <1>2, <1>3, <2>2
<1>4. ASSUME NEW j \in InUse', Underway(task'[j])
      PROVE  Undone(state[BackupOf(Req(j))], Req(j))'
  <2>1. BackupOf(Req(j))' = BackupOf(Req(from(j)))
    BY <1>1, <1>4 DEF BackupOf, Subject, Owner
  <2> QED
    BY <1>1, <1>4, <2>1 DEF Undone
<1> HIDE DEF from
<1> QED
  BY <1>3, <1>4 DEF Due, Underway

\* A state that is the same of a user, or of a member, as far as a change of it goes.
LEMMA UndoneStays ==
  ASSUME NEW st, NEW tt, NEW q, Undone(st, q),
         q.op = "create_user" => (UserExists(tt, q.user) <=> UserExists(st, q.user)),
         Change(q) => (q.user \in Chan(tt, q.channel).users <=> q.user \in Chan(st, q.channel).users)
  PROVE  Undone(tt, q)
BY DEF Undone, Change

\* The steps that change no state hand on what is on its way, if anything.
LEMMA QuietDue ==
  ASSUME IInv, Tree, Safe, Due, Calm, NEW i \in InUse, Step(i) \/ Disconnect(i), ~Apply(i),
         ~ServeReplicate(i), state' = state
  PROVE  Due'
<1>0. /\ i \in Slots /\ task[i].pc # "free" /\ TasksOK(task, state)
      /\ \A j \in InUse' : j \in Slots /\ task'[j].pc # "free"
      /\ \A j \in Slots : j \in InUse' <=> task'[j].pc # "free"
      /\ \A j \in Slots : j \in InUse <=> task[j].pc # "free"
  BY Used, NextUsed DEF IInv, InUse
<1>1. \A j \in InUse : Underway(task[j]) => Undone(state'[BackupOf(Req(j))], Req(j))
  BY DEF Due
<1>2. ASSUME NEW y, Becomes(i, y), ~Underway(y) PROVE Due'
  <2>1. ASSUME NEW j \in InUse', Underway(task'[j])
        PROVE  j \in InUse /\ Underway(task[j]) /\ task'[j].req = task[j].req /\ j # Client
    BY <1>0, <1>2, <2>1, FreeFields, ClientNoSlot DEF Becomes, Underway
  <2> QED
    BY <1>1, <2>1, DueRest
<1>3. ASSUME NEW d, NEW kind, NEW to, NEW result, NEW pc, Calls(i, d, kind, to, result, pc),
             pc # "replicate", task[i].kind = "op",
             kind = "replicate" => Underway(task[i])
      PROVE  Due'
  <2>1. /\ task'[i].kind = "op" /\ task'[i].pc = pc
        /\ task'[d].kind = kind /\ task'[d].req = Req(i) /\ d \in Slots /\ d \notin InUse
        /\ task'[d].pc = "start" => kind # "op"
        /\ task'[d].pc # "replicate"
    BY <1>3, TaskFields DEF Calls, Callee
  <2>2. ~Underway(task'[i]) /\ (Underway(task'[d]) => kind = "replicate")
    BY <1>3, <2>1 DEF Underway
  <2>3. ASSUME NEW j \in InUse', Underway(task'[j])
        PROVE  \/ j # d /\ j \in InUse /\ Underway(task[j]) /\ task'[j].req = task[j].req
               \/ /\ j = d /\ i \in InUse /\ Underway(task[i]) /\ task'[d].req = task[i].req
                  /\ i \in InUse' => ~Underway(task'[i])
    <3>1. CASE j = d
      BY <1>3, <2>1, <2>2, <2>3, <3>1 DEF Req
    <3>2. CASE j # d
      <4>1. j # i
        BY <2>2, <2>3
      <4> QED
        BY <1>0, <1>3, <2>3, <3>2, <4>1 DEF Calls
    <3> QED
      BY <3>1, <3>2
  <2> QED
    BY <1>1, <2>3, DueRest
<1>4. CASE Replicate(i) /\ Step(i)
  <2>1. task[i].pc = "replicate" /\ task[i].kind = "op" /\ task[i].child = Client
    BY <1>0, <1>4, Working, NoCall DEF Replicate, Over
  <2>2. Underway(task[i])
    BY <2>1 DEF Underway
  <2> DEFINE b == OwnerOf(i).backup
  <2>3. IF b = At(i) \/ ~alive[At(i)][b] THEN Ends(i, task[i].result)
        ELSE Asks(i, "replicate", b, task[i].result, "replicating")
    BY <1>0, <1>4, ReplicateForms
  <2> HIDE DEF b
  <2>4. CASE b = At(i) \/ ~alive[At(i)][b]
    BY <1>2, <2>3, <2>4, EndingNotUnderway DEF Ends
  <2>5. CASE ~(b = At(i) \/ ~alive[At(i)][b])
    BY <1>3, <2>1, <2>2, <2>3, <2>5 DEF Asks
  <2> QED
    BY <2>4, <2>5
<1>5. CASE ~Replicate(i)
  <2>1. ASSUME NEW pc, NEW result, NEW todo, Turns(i, pc, result, todo), task[i].kind = "op",
               pc # "replicate"
        PROVE  Due'
    <3>1. ~Underway(Task(task[i], pc, Client, result, todo))
      BY <2>1, TaskFields DEF Underway
    <3> QED
      BY <1>2, <2>1, <3>1 DEF Turns
  <2>2. ASSUME NEW result, Ends(i, result) PROVE Due'
    BY <1>2, <2>2, EndingNotUnderway DEF Ends
  <2>3. ASSUME NEW kind, NEW to, NEW result, NEW pc, Asks(i, kind, to, result, pc),
               task[i].kind = "op", kind # "replicate", pc # "replicate"
        PROVE  Due'
    BY <1>3, <2>1, <2>3 DEF Asks
  <2> QED
    BY <1>5, <2>1, <2>2, <2>3, OtherForms
<1> QED
  BY <1>4, <1>5 DEF Replicate, Disconnect

\* What the primary can do to a user or a member was not done there, nor is it on its way.
LEMMA NewChange ==
  ASSUME MembershipOrdered, IInv, Tree, Safe, Attended, Copies, Calm, NEW i \in InUse,
         task[i].kind = "op", task[i].pc = "apply", Req(i).op \in Writes,
         OpEffect(state[PrimaryOf(Req(i))], Req(i)).result.code = "OK",
         Req(i).op \in {"leave_channel", "send_message"} =>
           ChannelExists(state[PrimaryOf(Req(i))], Req(i).channel)
  PROVE  /\ Undone(state[BackupOf(Req(i))], Req(i))
         /\ \A j \in InUse : Underway(task[j]) =>
              ~SameChange(Req(i), Req(j)) /\ ~SameChange(Req(j), Req(i))
<1> DEFINE r == Req(i)
           u == r.user
           ch == r.channel
           p == state[PrimaryOf(r)]
           b == state[BackupOf(r)]
<1>1. /\ r \in Requests /\ u \in Users /\ ch \in Channels
      /\ r.op = "create_user" => p = AtPrimary(u) /\ b = AtBackup(u)
      /\ r.op # "create_user" => p = AtPrimary(ch) /\ b = AtBackup(ch)
  BY InUseOK, ReplicationAssumption DEF AtPrimary, AtBackup, PrimaryOf, BackupOf, Subject
<1>2. UserCopied(AtPrimary(u), AtBackup(u), u, Coming)
      /\ ChannelCopied(AtPrimary(ch), AtBackup(ch), ch, Coming)
  BY <1>1 DEF Copies
<1>3. \A j \in InUse : Underway(task[j]) =>
        /\ Written(Req(j), task[j].result.value) \in Coming
        /\ Req(j) \in Requests /\ Kept(state[PrimaryOf(Req(j))], Req(j), task[j].result.value)
  <2>1. SUFFICES ASSUME NEW j \in InUse, Underway(task[j])
                 PROVE  /\ Written(Req(j), task[j].result.value) \in Coming
                        /\ Req(j) \in Requests
                        /\ Kept(state[PrimaryOf(Req(j))], Req(j), task[j].result.value)
    OBVIOUS
  <2>2. Written(Req(j), task[j].result.value) \in Coming /\ Req(j) \in Requests
    BY <2>1, InUseOK DEF Coming, Req
  <2>3. HandledOK(task[j], Now) /\ Req(j) = task[j].req /\ At(j) = task[j].at
    BY InUseOK
  <2>4. CASE task[j].kind = "op" /\ task[j].pc = "replicate"
    <3>1. task[j].at = PrimaryOf(Req(j))
      <4>1. alive[task[j].at][PrimaryOf(Req(j))]
        BY <2>3, AllAlive, WritersOK
      <4> QED
        BY <2>3, <2>4, <4>1, NowFields DEF HandledOK, Placed, Owned
    <3> QED
      BY <2>2, <2>3, <2>4, <3>1, NowFields DEF HandledOK, Promised
  <2>5. CASE task[j].kind = "replicate" /\ task[j].pc = "start"
    BY <2>2, <2>3, <2>5, NowFields DEF HandledOK, Promised
  <2> QED
    BY <2>1, <2>4, <2>5 DEF Underway
<1>4. CASE r.op = "create_user"
  <2>1. ~UserExists(p, u)
    BY <1>4 DEF OpEffect, CreateUser, Effect
  <2>2. ~UserExists(b, u)
    BY <1>1, <1>2, <1>4, <2>1 DEF UserCopied
  <2>3. ASSUME NEW j \in InUse, Underway(task[j]), Req(j).op = "create_user", Req(j).user = u
        PROVE  FALSE
    BY <1>3, <1>4, <2>1, <2>3 DEF Kept, PrimaryOf, Subject
  <2> QED
    BY <1>4, <2>2, <2>3 DEF Undone, SameChange, Change, ChangesMembership
<1>5. CASE r.op \in {"join_channel", "leave_channel"}
  <2>1. u \in Chan(p, ch).users <=> r.op = "leave_channel"
    BY <1>5 DEF OpEffect, JoinChannel, LeaveChannel, Effect, Chan
  <2>2. ASSUME NEW j \in InUse, Underway(task[j]), ChangesMembership(Req(j), u, ch)
        PROVE  FALSE
    <3>1. Req(j).op = r.op
      BY <1>5, <2>2, NoOpposite DEF ChangesMembership
    <3>2. LET x == Written(Req(j), task[j].result.value)
          IN x \in Coming /\ x.req = Req(j)
      BY <1>3, <2>2 DEF Written
    <3>3. u \in Chan(p, ch).users <=> Req(j).op = "join_channel"
      BY <1>1, <1>2, <1>5, <2>2, <3>2 DEF ChannelCopied, ChangesMembership
    <3> QED
      BY <1>5, <2>1, <3>1, <3>3
  <2>3. \A x \in Coming : ~ChangesMembership(x.req, u, ch)
    <3>1. SUFFICES ASSUME NEW x \in Coming, ChangesMembership(x.req, u, ch) PROVE FALSE
      OBVIOUS
    <3>2. PICK j \in InUse : Underway(task[j]) /\ x.req = Req(j)
      BY DEF Coming, Written, Req
    <3> QED
      BY <2>2, <3>1, <3>2
  <2>4. u \in Chan(b, ch).users <=> r.op = "leave_channel"
    BY <1>1, <1>2, <1>5, <2>1, <2>3 DEF ChannelCopied
  <2> QED
    BY <1>5, <2>2, <2>4 DEF Undone, SameChange, Change, ChangesMembership
<1>6. CASE r.op = "send_message"
  BY <1>6 DEF Undone, SameChange, Change, ChangesMembership
<1> QED
  BY <1>4, <1>5, <1>6 DEF Writes

\* The primary carries out a request.
LEMMA ApplyDue ==
  ASSUME MembershipOrdered, NoLists, IInv, Tree, Safe, Attended, Copies, Verdicts, Due, Calm,
         NEW i \in InUse, Step(i), Apply(i)
  PROVE  Due'
<1> DEFINE r == Req(i)
           p == PrimaryOf(r)
           e == OpEffect(state[p], r)
           result == By(p, e.result)
<1>1. /\ task[i].pc = "apply" /\ task[i].kind = "op" /\ At(i) = p /\ task[i].req = r
      /\ r \in Requests /\ p \in Servers /\ r.op \in Ops \ Gathers /\ DOMAIN state = Servers
      /\ r.op \in {"leave_channel", "send_message"} => ChannelExists(state[p], r.channel)
      /\ i \in Slots /\ StateOK(state[p])
  BY CalmPlaces, WritersOK, InUseOK DEF Apply, Over, Owned, NoLists, PcOK, Looked
<1>2. /\ state' = [state EXCEPT ![p] = e.state]
      /\ IF r.op \in Writes /\ result.code = "OK" THEN Turns(i, "replicate", result, task[i].todo)
         ELSE Ends(i, result)
  BY <1>1, CalmPlaces, ApplyForms DEF Applied
<1>3. \A s \in Servers : state'[s] = IF s = p THEN e.state ELSE state[s]
  BY <1>1, <1>2
<1>4. ASSUME NEW q \in Requests, Undone(state[BackupOf(q)], q)
      PROVE  Undone(state'[BackupOf(q)], q)
  <2>1. BackupOf(q) \in Servers /\ q.user \in Users /\ q.channel \in Channels
    BY OwnerServers, ReplicationAssumption DEF BackupOf
  <2>2. CASE BackupOf(q) = p
    <3>1. q.op = "create_user" => ~(r.op = "create_user" /\ r.user = q.user)
      BY <2>1, <2>2, UserOwners DEF BackupOf, PrimaryOf, Subject
    <3>2. Change(q) => ~ChangesMembership(r, q.user, q.channel)
      BY <2>1, <2>2, ChannelOwners DEF BackupOf, PrimaryOf, Subject, Change, ChangesMembership
    <3>3. q.op = "create_user" =>
            (UserExists(e.state, q.user) <=> UserExists(state[p], q.user))
      BY <1>1, <3>1, OpUsers
    <3>4. Change(q) =>
            (q.user \in Chan(e.state, q.channel).users <=> q.user \in Chan(state[p], q.channel).users)
      BY <1>1, <3>2, OpMembers
    <3> HIDE DEF e
    <3>5. state'[p] = e.state
      BY <1>1, <1>3
    <3> QED
      BY <1>4, <2>2, <3>3, <3>4, <3>5, UndoneStays
  <2>3. CASE BackupOf(q) # p
    BY <1>3, <1>4, <2>1, <2>3
  <2> QED
    BY <2>2, <2>3
<1>5. \A j \in InUse : Underway(task[j]) =>
        Req(j) \in Requests /\ Undone(state'[BackupOf(Req(j))], Req(j))
  BY <1>4, InUseOK DEF Due
<1>6. /\ result.code = e.result.code
      /\ \A j \in InUse' : j \in Slots /\ task'[j].pc # "free"
      /\ \A j \in Slots : task[j].pc # "free" => j \in InUse
      /\ ~Underway(task[i])
  BY <1>1, NextUsed DEF By, InUse, Underway
<1>7. CASE r.op \in Writes /\ e.result.code = "OK"
  <2> DEFINE y == Task(task[i], "replicate", Client, result, task[i].todo)
  <2>1. Becomes(i, y) /\ y.req = r
    BY <1>1, <1>2, <1>6, <1>7, TaskFields DEF Turns
  <2>2. /\ Undone(state[BackupOf(r)], r)
        /\ \A j \in InUse : Underway(task[j]) =>
             ~SameChange(r, Req(j)) /\ ~SameChange(Req(j), r)
    BY <1>1, <1>7, NewChange
  <2>3. Undone(state'[BackupOf(r)], r)
    BY <1>1, <1>4, <2>2
  <2> HIDE DEF y, e, result, p
  <2>4. ASSUME NEW j \in InUse', Underway(task'[j]), j # i
        PROVE  j \in InUse /\ Underway(task[j]) /\ Req(j)' = Req(j)
    BY <1>6, <2>1, <2>4, FreeFields DEF Becomes, Underway, Req
  <2>5. Req(i)' = r
    BY <1>1, <2>1 DEF Becomes, Req
  <2>6. ASSUME NEW j \in InUse', Underway(task'[j])
        PROVE  Undone(state[BackupOf(Req(j))], Req(j))'
    <3>1. /\ BackupOf(Req(j))' = (IF j = i THEN BackupOf(r) ELSE BackupOf(Req(j)))
          /\ Req(j)' = (IF j = i THEN r ELSE Req(j))
      <4>1. BackupOf(Req(j))' = BackupOf(Req(j)')
        BY DEF BackupOf, Subject, Owner
      <4>2. Req(j)' = (IF j = i THEN r ELSE Req(j))
        BY <2>4, <2>5, <2>6
      <4> QED
        BY <4>1, <4>2
    <3>2. Undone(state'[IF j = i THEN BackupOf(r) ELSE BackupOf(Req(j))],
                 IF j = i THEN r ELSE Req(j))
      BY <1>5, <2>3, <2>4, <2>6
    <3> QED
      BY <3>1, <3>2 DEF Undone
  <2>7. ASSUME NEW j \in InUse', Underway(task'[j]), NEW k \in InUse', Underway(task'[k]),
               SameChange(Req(j), Req(k))'
        PROVE  j = k
    <3>1. SameChange(IF j = i THEN r ELSE Req(j), IF k = i THEN r ELSE Req(k))
      BY <2>4, <2>5, <2>7 DEF SameChange, Change, ChangesMembership
    <3>2. CASE j # i /\ k # i
      BY <2>4, <2>7, <3>1, <3>2 DEF Due
    <3>3. CASE j = i /\ k # i
      BY <2>2, <2>4, <2>7, <3>1, <3>3
    <3>4. CASE j # i /\ k = i
      BY <2>2, <2>4, <2>7, <3>1, <3>4
    <3> QED
      BY <3>2, <3>3, <3>4
  <2> QED
    BY <2>6, <2>7 DEF Due, Underway
<1>8. CASE ~(r.op \in Writes /\ e.result.code = "OK")
  <2>1. Becomes(i, Ending(i, result))
    BY <1>2, <1>6, <1>8 DEF Ends
  <2>2. ~Underway(Ending(i, result))
    BY EndingNotUnderway
  <2> DEFINE y == Ending(i, result)
  <2> HIDE DEF y, e, result, p
  <2>3. ASSUME NEW j \in InUse', Underway(task'[j])
        PROVE  j \in InUse /\ Underway(task[j]) /\ task'[j].req = task[j].req /\ j # Client
    BY <1>6, <2>1, <2>2, <2>3, FreeFields, ClientNoSlot DEF y, Becomes, Underway
  <2> QED
    BY <1>5, <2>3, DueRest
<1> QED
  BY <1>7, <1>8

\* The backup makes a change, and what else is on its way is about something else.
LEMMA ReplicaDue ==
  ASSUME IInv, Tree, Safe, Verdicts, Due, Calm, Calm', NEW i \in InUse, Step(i), ServeReplicate(i)
  PROVE  Due'
<1> DEFINE r == Req(i)
           b == BackupOf(r)
           e == ReplicaEffect(state[b], r, task[i].result)
           y == Ending(i, By(b, e.result))
<1>1. /\ task[i].pc = "start" /\ task[i].kind = "replicate"
      /\ r \in Requests /\ b \in Servers /\ r.op \in Writes /\ StateOK(state[b])
      /\ r.op = "send_message" => ChannelExists(state[b], r.channel)
      /\ \A s \in Servers : state'[s] = IF s = b THEN e.state ELSE state[s]
      /\ Ends(i, By(b, e.result))
  BY ReplicaForm, WritersOK
<1>2. Underway(task[i]) /\ i \in Slots
  BY <1>1, InUseOK DEF Underway
<1>3. Becomes(i, y) /\ ~Underway(y)
  BY <1>1, EndingNotUnderway DEF Ends
<1>4. ASSUME NEW j \in InUse, Underway(task[j]), j # i
      PROVE  Undone(state'[BackupOf(Req(j))], Req(j))
  <2> DEFINE q == Req(j)
  <2>1. /\ q \in Requests /\ Undone(state[BackupOf(q)], q) /\ ~SameChange(r, q)
        /\ BackupOf(q) \in Servers /\ q.user \in Users /\ q.channel \in Channels
    BY <1>2, <1>4, InUseOK, OwnerServers, ReplicationAssumption DEF Due, BackupOf
  <2>2. CASE BackupOf(q) = b
    <3>1. q.op = "create_user" => ~(r.op = "create_user" /\ r.user = q.user)
      BY <2>1 DEF SameChange
    <3>2. Change(q) => ~ChangesMembership(r, q.user, q.channel)
      BY <2>1 DEF SameChange, Change, ChangesMembership
    <3>3. q.op = "create_user" =>
            (UserExists(e.state, q.user) <=> UserExists(state[b], q.user))
      BY <1>1, <3>1, ReplicaUsers
    <3>4. Change(q) =>
            (q.user \in Chan(e.state, q.channel).users <=> q.user \in Chan(state[b], q.channel).users)
      BY <1>1, <3>2, ReplicaMembers
    <3> HIDE DEF e, q
    <3>5. state'[b] = e.state
      BY <1>1
    <3> QED
      BY <2>1, <2>2, <3>3, <3>4, <3>5, UndoneStays DEF q
  <2>3. CASE BackupOf(q) # b
    BY <1>1, <2>1, <2>3
  <2> QED
    BY <2>2, <2>3
<1> HIDE DEF y
<1>5. ASSUME NEW j \in InUse', Underway(task'[j])
      PROVE  j # Client /\ j # i /\ j \in InUse /\ Underway(task[j]) /\ task'[j].req = task[j].req
  <2>1. j \in Slots /\ task'[j].pc # "free"
    BY NextUsed
  <2>2. j # i
    BY <1>2, <1>3, <1>5 DEF Becomes
  <2> QED
    BY <1>3, <1>5, <2>1, <2>2, FreeFields, ClientNoSlot DEF Becomes, InUse
<1>6. \A j \in InUse : \/ ~Underway(task[j])
                       \/ (j # i /\ j # Client) /\ (j \in InUse' => ~Underway(task'[j]))
                       \/ j = i
                       \/ Undone(state'[BackupOf(Req(j))], Req(j))
  BY <1>4
<1>7. ASSUME NEW j \in InUse', Underway(task'[j])
      PROVE  Undone(state[BackupOf(Req(j))], Req(j))'
  <2>1. BackupOf(Req(j))' = BackupOf(Req(j)')
    BY DEF BackupOf, Subject, Owner
  <2>2. Req(j)' = Req(j) /\ j \in InUse /\ Underway(task[j]) /\ j # i
    BY <1>5, <1>7 DEF Req
  <2>3. Undone(state'[BackupOf(Req(j))], Req(j))
    BY <1>4, <2>2
  <2> QED
    BY <2>1, <2>2, <2>3 DEF Undone
<1>8. ASSUME NEW j \in InUse', Underway(task'[j]), NEW k \in InUse', Underway(task'[k]),
             SameChange(Req(j), Req(k))'
      PROVE  j = k
  <2>1. Req(j)' = Req(j) /\ j \in InUse /\ Underway(task[j])
    BY <1>5, <1>8 DEF Req
  <2>2. Req(k)' = Req(k) /\ k \in InUse /\ Underway(task[k])
    BY <1>5, <1>8 DEF Req
  <2>3. SameChange(Req(j), Req(k))
    BY <1>8, <2>1, <2>2 DEF SameChange, Change, ChangesMembership
  <2> QED
    BY <2>1, <2>2, <2>3 DEF Due
<1> QED
  BY <1>7, <1>8 DEF Due, Underway

\* So in every step,
LEMMA DueStep ==
  ASSUME MembershipOrdered, NoLists, IInv, Tree, Safe, Attended, Copies, Verdicts, Due, Calm,
         Calm', Next
  PROVE  Due'
<1>1. \/ \E r \in Requests : Issue(r)
      \/ \E i \in InUse : Step(i) \/ Disconnect(i)
  BY CalmSteps
<1>2. ASSUME NEW i \in InUse, Apply(i) PROVE Due'
  BY <1>2, ApplyDue DEF Step
<1>3. ASSUME NEW i \in InUse, ServeReplicate(i) PROVE Due'
  BY <1>3, ReplicaDue DEF Step
<1>4. CASE \A i \in InUse : ~Apply(i) /\ ~ServeReplicate(i)
  <2>1. state' = state
    BY <1>4, WhoWrites
  <2>2. ASSUME NEW i \in InUse, Step(i) \/ Disconnect(i) PROVE Due'
    BY <1>4, <2>1, <2>2, QuietDue
  <2>3. ASSUME NEW r \in Requests, Issue(r) PROVE Due'
    <3>1. PICK d : Starts(d, r)
      BY <2>3, IssueForm DEF IInv
    <3>2. ASSUME NEW j \in InUse', Underway(task'[j])
          PROVE  j \in InUse /\ Underway(task[j]) /\ task'[j].req = task[j].req /\ j # Client
      <4>1. j \in Slots /\ task'[j].pc # "free"
        BY NextUsed
      <4>2. j # d
        BY <3>1, <3>2 DEF Starts, NewTask, Underway
      <4> QED
        BY <3>1, <3>2, <4>1, <4>2, ClientNoSlot DEF Starts, InUse
    <3>3. \A j \in InUse : Underway(task[j]) => Undone(state'[BackupOf(Req(j))], Req(j))
      BY <2>1 DEF Due
    <3> QED
      BY <3>2, <3>3, DueRest
  <2> QED
    BY <1>1, <2>2, <2>3
<1> QED
  BY <1>2, <1>3, <1>4

\* from the start on.
LEMMA DueInit == Init => Due
BY DEF Init, Due, InUse, Free

\* As long as all servers are up, this holds in every reachable state.
LEMMA VerdictsInvariance ==
  ASSUME MembershipOrdered, NoLists
  PROVE  Spec /\ []Calm => [](Verdicts /\ Due)
<1>1. /\ IInv /\ IInv' /\ Tree /\ Safe /\ Agreeing /\ Calm /\ Calm' /\ Verdicts /\ Due
      /\ [Next]_vars
      => Verdicts' /\ Due'
  <2> SUFFICES ASSUME IInv, IInv', Tree, Safe, Agreeing, Calm, Calm', Verdicts, Due, [Next]_vars
               PROVE  Verdicts' /\ Due'
    OBVIOUS
  <2>1. CASE Next
    BY <2>1, VerdictsStep, DueStep DEF Agreeing
  <2>2. CASE UNCHANGED vars
    <3>1. state' = state /\ task' = task /\ answer' = answer /\ InUse' = InUse
      BY <2>2 DEF vars, InUse
    <3>2. Verdicts'
      BY <3>1 DEF Verdicts, SentOn
    <3>3. Due'
      <4>1. \A j \in InUse : BackupOf(Req(j))' = BackupOf(Req(j)) /\ Req(j)' = Req(j)
        BY <3>1 DEF BackupOf, Subject, Owner, Req
      <4> QED
        BY <3>1, <4>1 DEF Due
    <3> QED
      BY <3>2, <3>3
  <2> QED
    BY <2>1, <2>2
<1> QED
  BY <1>1, VerdictsInit, DueInit, Invariance, TreeInvariance, SafeInvariance, AgreeingInvariance,
     PTL DEF Spec

-----------------------------------------------------------------------------
(***************************************************************************)
(* The three servers are one chat                                          *)
(***************************************************************************)
\* What holds as long as all servers are up.
Whole == IInv /\ Tree /\ Safe /\ Answering /\ Verdicts /\ Calm

\* A client's handler, one that it forwarded to, and one that this waits for.
LEMMA Chain ==
  ASSUME Whole, NEW r \in Requests, answer[r] = NoResult,
         NEW t \in InUse, Top(t), task[t].req = r, NEW j \in InUse, task[j].req = r
  PROVE  LET c == task[t].child
         IN \/ j = t \/ j = c
            \/ c \in InUse /\ c # Client /\ j = task[c].child
<1>0. IInv /\ Tree /\ Safe /\ Answering /\ Verdicts /\ Calm
  BY DEF Whole
<1>1. ASSUME NEW k \in InUse, task[k].req = r, ~Top(k)
      PROVE  LET m == task[k].parent
             IN /\ m \in InUse /\ task[m].req = r /\ task[m].kind = "op"
                /\ task[m].child = k /\ <<task[m].pc, task[k].kind>> \in Waits
  <2> DEFINE m == task[k].parent
  <2>1. m \in InUse /\ task[m].child = k
    <3>1. PrimaryOf(r) \in up /\ answer[r].code # "LOST"
      BY <1>0, OwnersOf DEF NoResult, Calm, PrimaryOf, Subject
    <3> QED
      BY <1>0, <1>1, <3>1 DEF Answering, Awaited
  <2>2. k # Client
    BY <1>0, InUseOK, ClientNoSlot
  <2>3. task[k].req = task[m].req /\ <<task[m].pc, task[k].kind>> \in Waits
    BY <1>0, <2>1, <2>2, WaitsFor
  <2>4. task[m].pc \notin Over \cup {"start"}
    BY <2>3 DEF Waits, Over
  <2> QED
    BY <1>0, <1>1, <2>1, <2>3, <2>4, InUseOK
<1>2. ASSUME NEW k \in InUse, task[k].req = r, task[k].kind = "op", ~Top(k)
      PROVE  task[k].parent = t
  <2> DEFINE m == task[k].parent
  <2>1. m \in InUse /\ task[m].req = r /\ task[m].kind = "op" /\ task[m].pc = "forwarded"
    BY <1>1, <1>2 DEF Waits
  <2>2. task[m].at # PrimaryOf(r)
    BY <1>0, <2>1, InUseOK DEF HandledOK, Placed
  <2>3. CASE Top(m)
    BY <1>0, <2>1, <2>3 DEF Tree, OneTop
  <2>4. CASE ~Top(m)
    <3>1. Placed(task[m], Now)
      BY <1>0, <2>1, InUseOK DEF HandledOK
    <3>2. PrimaryOf(r) \in up
      BY <1>0, OwnersOf DEF Calm, PrimaryOf, Subject
    <3> QED
      BY <2>1, <2>2, <2>4, <3>1, <3>2, NowFields DEF Placed, Serves, Top, PrimaryOf
  <2> QED
    BY <2>3, <2>4
<1>3. CASE Top(j)
  BY <1>0, <1>3 DEF Tree, OneTop
<1>4. CASE ~Top(j)
  <2> DEFINE m == task[j].parent
  <2>1. m \in InUse /\ task[m].req = r /\ task[m].kind = "op" /\ task[m].child = j
    BY <1>1, <1>4
  <2>2. CASE Top(m)
    <3>1. m = t
      BY <1>0, <2>1, <2>2 DEF Tree, OneTop
    <3> QED
      BY <2>1, <3>1
  <2>3. CASE ~Top(m)
    <3>1. task[m].parent = t
      BY <1>2, <2>1, <2>3
    <3>2. task[t].child = m
      BY <1>1, <2>1, <2>3, <3>1
    <3>3. m # Client
      BY <1>0, <2>1, InUseOK, ClientNoSlot
    <3> QED
      BY <2>1, <3>2, <3>3
  <2> QED
    BY <2>2, <2>3
<1> QED
  BY <1>3, <1>4

\* One handler of a request waits for nothing.
LEMMA OneWorks ==
  ASSUME Whole, NEW i \in InUse, NEW j \in InUse, task[i].req = task[j].req,
         answer[task[i].req] = NoResult, task[i].child = Client, task[j].child = Client
  PROVE  i = j
<1>0. IInv /\ Tree /\ Safe
  BY DEF Whole
<1> DEFINE r == task[i].req
<1>1. PICK t \in InUse : Top(t) /\ task[t].req = r
  BY <1>0 DEF Tree, ClientOK
<1>2. r \in Requests /\ i # Client /\ j # Client
  BY <1>0, InUseOK, ClientNoSlot
<1> DEFINE c == task[t].child
<1>3. /\ i = t \/ i = c \/ (c \in InUse /\ c # Client /\ i = task[c].child)
      /\ j = t \/ j = c \/ (c \in InUse /\ c # Client /\ j = task[c].child)
  BY <1>1, <1>2, Chain
<1> QED
  BY <1>2, <1>3

\* What the client's side of the chat shows of a request.
StatusFor(shown) == IF shown = NotDecided THEN "pending" ELSE "done"

\* A handler that waits for nothing shows what the request has come to.
LEMMA LeafResults ==
  ASSUME Whole, NEW i \in InUse, answer[task[i].req] = NoResult, task[i].child = Client
  PROVE  LET shown == ShownAs(task[i].kind, task[i].result)
         IN /\ shown.code = "NONE" <=> shown = NotDecided
            /\ Results(task[i].req) = IF shown = NotDecided THEN {} ELSE {shown}
<1>0. IInv /\ Tree /\ Safe /\ Answering /\ Verdicts /\ Calm
  BY DEF Whole
<1> DEFINE r == task[i].req
           shown == ShownAs(task[i].kind, task[i].result)
<1>1. /\ r \in Requests /\ VerdictOK(task[i], state) /\ i \in Slots
      /\ \A j \in InUse : VerdictOK(task[j], state) /\ SentOn(j)
      /\ \A j \in InUse : StandsOK(task[j].kind, task[j].req.op, task[j].child, task[j].pc,
                                   task[j].result, task[j].todo)
      /\ \A j \in InUse : task[j].pc # "free"
  BY <1>0, InUseOK DEF Verdicts, Tree, HandlerOK, InUse
<1>2. shown.code = "NONE" <=> shown = NotDecided
  <2>1. task[i].result = NoResult => shown = NotDecided
    BY <1>1, NothingShown DEF VerdictOK, ShownAs
  <2>2. task[i].result.code # "NONE" => shown = NotDecided \/ shown.code # "NONE"
    BY DEF ShownAs, Plain
  <2>3. task[i].result = NoResult \/ task[i].result.code # "NONE"
    <3>1. CASE task[i].kind = "op"
      BY <1>1, <3>1 DEF VerdictOK, Sent
    <3>2. CASE task[i].kind = "exists"
      BY <1>1, <3>2 DEF VerdictOK, StandsOK, Over
    <3>3. CASE task[i].kind = "replicate"
      BY <1>1, <3>3 DEF VerdictOK, Sent
    <3> QED
      BY <1>1, <3>1, <3>2, <3>3 DEF VerdictOK
  <2>4. NotDecided.code = "NONE"
    BY DEF NotDecided
  <2> QED
    BY <2>1, <2>2, <2>3, <2>4
<1>3. ASSUME NEW j \in InUse, task[j].req = r, task[j].kind \in {"op", "exists"},
             task[j].result.code # "NONE", task[j].kind = "exists" => task[j].result.code # "OK"
      PROVE  Plain(task[j].result) = shown /\ shown # NotDecided
  <2>1. CASE task[j].child = Client
    <3>1. i = j
      BY <1>3, <2>1, OneWorks
    <3> QED
      BY <1>3, <3>1 DEF ShownAs, Plain, NotDecided
  <2>2. CASE task[j].child # Client
    <3> DEFINE c == task[j].child
    <3>1. c \in InUse /\ task[c].req = r /\ <<task[j].pc, task[c].kind>> \in Waits
      BY <1>0, <1>3, <2>2, WaitsFor
    <3>2. task[j].kind = "op" /\ task[j].pc = "replicating" /\ task[c].kind = "replicate"
      <4>1. task[j].kind = "op"
        BY <1>1, <1>3, <3>1 DEF StandsOK, Waits, Over
      <4>2. task[j].result # NoResult
        BY <1>3 DEF NoResult
      <4> QED
        BY <1>1, <3>1, <4>1, <4>2 DEF VerdictOK, Waits
    <3>3. Plain(task[c].result) = Plain(task[j].result)
      BY <1>1, <3>2 DEF SentOn
    <3>4. task[c].child = Client
      BY <1>0, <1>1, <3>1, <3>2, NoCall DEF StandsOK, Over
    <3>5. i = c
      BY <3>1, <3>4, OneWorks
    <3> QED
      BY <1>3, <3>2, <3>3, <3>5 DEF ShownAs, Plain, NotDecided
  <2> QED
    BY <2>1, <2>2
<1>4. ASSUME shown # NotDecided
      PROVE  \E j \in InUse : /\ task[j].req = r /\ task[j].kind \in {"op", "exists"}
                              /\ task[j].result.code # "NONE"
                              /\ task[j].kind = "exists" => task[j].result.code # "OK"
                              /\ task[j].pc \notin {"gather", "gathering"}
                              /\ Plain(task[j].result) = shown
  <2>1. shown.code # "NONE" /\ shown = Plain(task[i].result) /\ task[i].result.code # "NONE"
        /\ (task[i].kind = "exists" => task[i].result.code # "OK")
    BY <1>2, <1>4 DEF ShownAs, Plain
  <2>2. CASE task[i].kind # "replicate"
    BY <1>1, <2>1, <2>2 DEF VerdictOK
  <2>3. CASE task[i].kind = "replicate"
    <3> DEFINE m == task[i].parent
    <3>1. ~Top(i)
      BY <1>0, <2>3, InUseOK
    <3>2. m \in InUse /\ task[m].child = i
      <4>1. PrimaryOf(r) \in up /\ answer[r].code # "LOST"
        BY <1>0, <1>1, OwnersOf DEF NoResult, Calm, PrimaryOf, Subject
      <4> QED
        BY <1>0, <3>1, <4>1 DEF Answering, Awaited
    <3>3. i # Client
      BY <1>1, ClientNoSlot
    <3>4. task[m].req = r /\ task[m].pc = "replicating"
      BY <1>0, <2>3, <3>2, <3>3, WaitsFor DEF Waits
    <3>5. task[m].kind = "op" /\ Plain(task[m].result) = shown
      BY <1>1, <2>1, <3>2, <3>4 DEF StandsOK, SentOn, Over
    <3>6. task[m].result.code # "NONE"
      BY <2>1, <3>5 DEF Plain
    <3> QED
      BY <3>2, <3>4, <3>5, <3>6
  <2> QED
    BY <2>2, <2>3
<1> HIDE DEF shown
<1>5. Results(r) = IF shown = NotDecided THEN {} ELSE {shown}
  <2>1. \A x \in Results(r) : x = shown /\ shown # NotDecided
    BY <1>3 DEF Results, Plain
  <2>2. shown # NotDecided => shown \in Results(r)
    BY <1>4 DEF Results, Plain
  <2> QED
    BY <2>1, <2>2
<1> QED
  BY <1>2, <1>5 DEF shown

\* What the chat shows of a request: its answer, or what its handlers have come to.
Views ==
  \A r \in Requests :
    /\ answer[r].code = "LOST" => StatusOf(r) = "gone" /\ ResultOf(r) = NotDecided
    /\ answer[r].code \notin {"NONE", "LOST"} =>
         StatusOf(r) = "done" /\ ResultOf(r) = Plain(answer[r])
    /\ answer[r] = NoResult /\ r \notin Busy => StatusOf(r) = "idle" /\ ResultOf(r) = NotDecided
    /\ answer[r] = NoResult => \A i \in InUse : task[i].req = r /\ task[i].child = Client =>
         LET shown == ShownAs(task[i].kind, task[i].result)
         IN StatusOf(r) = StatusFor(shown) /\ ResultOf(r) = shown

\* So it is in every state,
LEMMA WholeViews == Whole => Views
<1> SUFFICES ASSUME Whole, NEW r \in Requests
             PROVE
    /\ answer[r].code = "LOST" => StatusOf(r) = "gone" /\ ResultOf(r) = NotDecided
    /\ answer[r].code \notin {"NONE", "LOST"} =>
         StatusOf(r) = "done" /\ ResultOf(r) = Plain(answer[r])
    /\ answer[r] = NoResult /\ r \notin Busy => StatusOf(r) = "idle" /\ ResultOf(r) = NotDecided
    /\ answer[r] = NoResult => \A i \in InUse : task[i].req = r /\ task[i].child = Client =>
         LET shown == ShownAs(task[i].kind, task[i].result)
         IN StatusOf(r) = StatusFor(shown) /\ ResultOf(r) = shown
  BY DEF Views
<1>1. answer[r].code = "LOST" => StatusOf(r) = "gone" /\ ResultOf(r) = NotDecided
  BY DEF StatusOf, ResultOf
<1>2. answer[r].code \notin {"NONE", "LOST"} =>
        StatusOf(r) = "done" /\ ResultOf(r) = Plain(answer[r])
  BY DEF StatusOf, ResultOf, Plain
<1>3. answer[r] = NoResult /\ r \notin Busy => StatusOf(r) = "idle" /\ ResultOf(r) = NotDecided
  BY DEF StatusOf, ResultOf, Busy, NoResult
<1>4. ASSUME answer[r] = NoResult, NEW i \in InUse, task[i].req = r, task[i].child = Client
      PROVE  LET shown == ShownAs(task[i].kind, task[i].result)
             IN StatusOf(r) = StatusFor(shown) /\ ResultOf(r) = shown
  <2> DEFINE shown == ShownAs(task[i].kind, task[i].result)
  <2>1. Results(r) = IF shown = NotDecided THEN {} ELSE {shown}
    BY <1>4, LeafResults
  <2> HIDE DEF shown
  <2>2. StatusOf(r) = StatusFor(shown)
    BY <1>4, <2>1 DEF StatusOf, StatusFor, NoResult
  <2>3. ResultOf(r) = shown
    <3>1. CASE shown = NotDecided
      BY <1>4, <2>2, <3>1 DEF ResultOf, StatusFor, NoResult
    <3>2. CASE shown # NotDecided
      <4>1. ResultOf(r) = CHOOSE x \in {shown} : TRUE
        BY <1>4, <2>1, <2>2, <3>2 DEF ResultOf, StatusFor, NoResult
      <4> QED
        BY <4>1
    <3> QED
      BY <3>1, <3>2
  <2> QED
    BY <2>2, <2>3 DEF shown
<1> QED
  BY <1>1, <1>2, <1>3, <1>4

\* A request whose handlers and answer a step leaves alone.
LEMMA ViewStays ==
  ASSUME NEW r, answer'[r] = answer[r],
         \A j : j \in InUse' /\ task'[j].req = r <=> j \in InUse /\ task[j].req = r,
         \A j \in InUse : task[j].req = r => task'[j] = task[j]
  PROVE  StatusOf(r)' = StatusOf(r) /\ ResultOf(r)' = ResultOf(r)
<1>1. Results(r)' = Results(r)
  <2>1. \A x : x \in Results(r)' => x \in Results(r)
    BY DEF Results
  <2>2. \A x : x \in Results(r) => x \in Results(r)'
    BY DEF Results
  <2> QED
    BY <2>1, <2>2
<1>2. (\A i \in InUse : task[i].req # r)' <=> (\A i \in InUse : task[i].req # r)
  OBVIOUS
<1>3. StatusOf(r)' = StatusOf(r)
  BY <1>1, <1>2 DEF StatusOf
<1> QED
  BY <1>1, <1>3 DEF ResultOf

\* What the chat shows of all requests.
Statuses == [r \in Requests |-> StatusOf(r)]
ResultsShown == [r \in Requests |-> ResultOf(r)]

\* Only what is shown of r changes.
LEMMA OthersShown ==
  ASSUME NEW r \in Requests,
         \A q \in Requests \ {r} : StatusOf(q)' = StatusOf(q) /\ ResultOf(q)' = ResultOf(q)
  PROVE  /\ Statuses' = [Statuses EXCEPT ![r] = StatusOf(r)']
         /\ ResultsShown' = [ResultsShown EXCEPT ![r] = ResultOf(r)']
         /\ StatusOf(r)' = StatusOf(r) => Statuses' = Statuses
         /\ ResultOf(r)' = ResultOf(r) => ResultsShown' = ResultsShown
         /\ Statuses[r] = StatusOf(r) /\ ResultsShown[r] = ResultOf(r)
<1>1. /\ Statuses' = [q \in Requests |-> StatusOf(q)']
      /\ ResultsShown' = [q \in Requests |-> ResultOf(q)']
  BY DEF Statuses, ResultsShown
<1> QED
  BY <1>1 DEF Statuses, ResultsShown

\* What comes of a request changes when the chat serves it.
LEMMA OneServes ==
  ASSUME NEW r \in Requests, r.op \in Ops \ Gathers,
         \A q \in Requests \ {r} : StatusOf(q)' = StatusOf(q) /\ ResultOf(q)' = ResultOf(q),
         NEW was, StatusOf(r) = StatusFor(was), ResultOf(r) = was,
         NEW is, StatusOf(r)' = StatusFor(is), ResultOf(r)' = is,
         Outcome(r, was, is)
  PROVE  [OneServer!Next]_(OneServer!chatVars)
<1>1. /\ Statuses' = [Statuses EXCEPT ![r] = StatusFor(is)]
      /\ ResultsShown' = [ResultsShown EXCEPT ![r] = is]
      /\ Statuses[r] = StatusFor(was)
      /\ is = was => Statuses' = Statuses /\ ResultsShown' = ResultsShown
  BY OthersShown
<1>2. CASE is = was /\ OneChat' = OneChat
  BY <1>1, <1>2 DEF OneServer!chatVars, Statuses, ResultsShown
<1>3. CASE /\ was = NotDecided /\ is.code \notin {"NONE", "LOST"}
           /\ OneChat' = PerformOne(OneChat, r).state
           /\ is = PerformOne(OneChat, r).result
  <2>1. OneServer!Perform(OneChat, r) = PerformOne(OneChat, r)
    BY OneEffect
  <2>2. StatusFor(was) = "pending" /\ StatusFor(is) = "done"
    BY <1>3 DEF StatusFor, NotDecided
  <2>3. OneServer!Becomes(r, "pending", "done")
    BY <1>1, <2>2 DEF OneServer!Becomes, Statuses
  <2>4. OneServer!Serve(r)
    BY <1>1, <1>3, <2>1, <2>3 DEF OneServer!Serve, ResultsShown
  <2> QED
    BY <2>4 DEF OneServer!Next
<1> QED
  BY <1>2, <1>3 DEF Outcome

\* What a client that has gone away asked for may be done late.
LEMMA OneServesLate ==
  ASSUME NEW r \in Requests, r.op \in Ops \ Gathers,
         \A q \in Requests : StatusOf(q)' = StatusOf(q) /\ ResultOf(q)' = ResultOf(q),
         StatusOf(r) = "gone", NEW was, NEW is, Outcome(r, was, is)
  PROVE  [OneServer!Next]_(OneServer!chatVars)
<1>1. Statuses' = Statuses /\ ResultsShown' = ResultsShown /\ Statuses[r] = "gone"
  BY OthersShown
<1>2. CASE OneChat' = OneChat
  BY <1>1, <1>2 DEF OneServer!chatVars, Statuses, ResultsShown
<1>3. CASE OneChat' = PerformOne(OneChat, r).state
  <2>1. OneServer!ServeLate(r)
    BY <1>1, <1>3, OneEffect DEF OneServer!ServeLate, Statuses, ResultsShown
  <2> QED
    BY <2>1 DEF OneServer!Next
<1> QED
  BY <1>2, <1>3 DEF Outcome

\* A step of a handler leaves the handlers of the other requests alone.
LEMMA OtherRequests ==
  ASSUME IInv, Tree, NEW i \in InUse, NEW q \in Requests \ {Req(i)},
         \/ \E y : Becomes(i, y) /\ (y.pc = "free" \/ y.req = Req(i))
         \/ \E d, kind, to, result, pc : Calls(i, d, kind, to, result, pc),
         answer'[q] = answer[q]
  PROVE  StatusOf(q)' = StatusOf(q) /\ ResultOf(q)' = ResultOf(q)
<1>0. /\ i \in Slots /\ Req(i) = task[i].req /\ task[i].pc # "free"
      /\ \A j \in InUse : j \in Slots /\ task[j].pc # "free"
  BY Used DEF IInv, Req
<1>1. ASSUME NEW y, Becomes(i, y), y.pc = "free" \/ y.req = Req(i)
      PROVE  /\ \A j : j \in InUse' /\ task'[j].req = q <=> j \in InUse /\ task[j].req = q
             /\ \A j \in InUse : task[j].req = q => task'[j] = task[j]
  <2>1. task[i].child # Client => task[task[i].child].req = Req(i)
    BY <1>0, WaitsFor
  <2>2. ASSUME NEW j \in InUse, task[j].req = q PROVE task'[j] = task[j] /\ j \in InUse'
    <3>1. j # i /\ j # task[i].child
      BY <1>0, <2>1, <2>2, ClientNoSlot
    <3> QED
      BY <1>0, <1>1, <3>1, NextUsed DEF Becomes
  <2>3. ASSUME NEW j \in InUse', task'[j].req = q PROVE j \in InUse /\ task[j].req = q
    <3>1. j \in Slots /\ task'[j].pc # "free"
      BY NextUsed
    <3>2. j # i
      BY <1>0, <1>1, <2>3, <3>1 DEF Becomes
    <3>3. task'[j] = task[j]
      BY <1>1, <3>1, <3>2, FreeFields DEF Becomes
    <3> QED
      BY <2>3, <3>1, <3>3 DEF InUse
  <2> QED
    BY <2>2, <2>3
<1>2. ASSUME NEW d, NEW kind, NEW to, NEW result, NEW pc, Calls(i, d, kind, to, result, pc)
      PROVE  /\ \A j : j \in InUse' /\ task'[j].req = q <=> j \in InUse /\ task[j].req = q
             /\ \A j \in InUse : task[j].req = q => task'[j] = task[j]
  <2>1. /\ d \in Slots \ InUse /\ task'[i].req = Req(i) /\ task'[d].req = Req(i)
        /\ \A j \in Slots \ {i, d} : task'[j] = task[j]
    BY <1>0, <1>2, TaskFields DEF Calls, Callee
  <2>2. ASSUME NEW j \in InUse, task[j].req = q PROVE task'[j] = task[j] /\ j \in InUse'
    BY <1>0, <2>1, <2>2, NextUsed
  <2>3. ASSUME NEW j \in InUse', task'[j].req = q PROVE j \in InUse /\ task[j].req = q
    <3>1. j \in Slots /\ task'[j].pc # "free" /\ j # i /\ j # d
      BY <2>1, <2>3, NextUsed
    <3> QED
      BY <2>1, <2>3, <3>1 DEF InUse
  <2> QED
    BY <2>2, <2>3
<1> QED
  BY <1>1, <1>2, ViewStays

\* and in the next one.
LEMMA NextViews == Whole' => Views'
BY WholeViews, PTL

\* What a request shows before a step of a handler is what the handler shows.
LEMMA ShownBefore ==
  ASSUME Whole, NEW i \in InUse, Step(i), answer[Req(i)] = NoResult
  PROVE  StatusOf(Req(i)) = StatusFor(Shown(i)) /\ ResultOf(Req(i)) = Shown(i)
<1>0. /\ IInv /\ Tree /\ Calm /\ Views /\ Req(i) = task[i].req /\ Req(i) \in Requests
  BY WholeViews, Handler DEF Whole
<1>1. CASE task[i].child = Client
  BY <1>0, <1>1 DEF Views, Shown, Tip
<1>2. CASE task[i].child # Client
  <2> DEFINE c == task[i].child
  <2>1. c \in InUse /\ task[c].req = Req(i) /\ task[c].pc = "replied"
    BY <1>0, <1>2, WaitsFor, WaiterSteps
  <2>2. task[c].child = Client
    BY <1>0, <2>1, NoCall
  <2> QED
    BY <1>0, <1>2, <2>1, <2>2 DEF Views, Shown, Tip
<1> QED
  BY <1>1, <1>2

\* A step of a handler is one of the chat, or none.
LEMMA HandlerMapped ==
  ASSUME NoLists, Whole, Whole', NEW i \in InUse, NEW r \in Requests, r = Req(i), Step(i),
         Well(i)
  PROVE  [OneServer!Next]_(OneServer!chatVars)
<1>0. /\ IInv /\ Tree /\ Safe /\ Answering /\ Calm /\ Views /\ Views'
      /\ r = task[i].req /\ i \in Slots /\ r.op \in Ops \ Gathers
      /\ DOMAIN answer = Requests /\ PrimaryOf(r) \in up
      /\ Top(i) => task[i].kind = "op" /\ answer[r] = NoResult
  <2>1. IInv /\ Tree /\ Safe /\ Answering /\ Calm /\ Views /\ Views'
    BY WholeViews, NextViews DEF Whole
  <2>2. /\ r = task[i].req /\ i \in Slots
        /\ Top(i) => task[i].kind = "op" /\ answer[r] = NoResult
    BY <2>1, InUseOK
  <2>3. r.op \in Ops \ Gathers
    BY <2>2, ReplicationAssumption DEF NoLists
  <2>4. PrimaryOf(r) \in up
    BY <2>1, <2>2, OwnersOf DEF Calm, PrimaryOf, Subject
  <2> QED
    BY <2>1, <2>2, <2>3, <2>4 DEF Tree
<1>1. ASSUME NEW q \in Requests \ {r}
      PROVE  StatusOf(q)' = StatusOf(q) /\ ResultOf(q)' = ResultOf(q)
  <2>1. ASSUME GoesOnWell(i) PROVE StatusOf(q)' = StatusOf(q) /\ ResultOf(q)' = ResultOf(q)
    <3>1. PICK pc, result : Turns(i, pc, result, task[i].todo)
      BY <2>1 DEF GoesOnWell
    <3> DEFINE y == Task(task[i], pc, Client, result, task[i].todo)
    <3>2. Becomes(i, y) /\ y.req = r /\ answer'[q] = answer[q]
      BY <1>0, <3>1, TaskFields DEF Turns
    <3> HIDE DEF y
    <3> QED
      BY <1>0, <3>2, OtherRequests
  <2>2. ASSUME EndsWell(i) PROVE StatusOf(q)' = StatusOf(q) /\ ResultOf(q)' = ResultOf(q)
    <3>1. PICK result : Ends(i, result)
      BY <2>2 DEF EndsWell
    <3> DEFINE y == Ending(i, result)
    <3>2. Becomes(i, y) /\ answer'[q] = answer[q]
      BY <1>0, <3>1 DEF Ends
    <3>3. y = Free \/ y.req = r
      BY <1>0, TaskFields DEF Ending
    <3> HIDE DEF y
    <3> QED
      BY <1>0, <3>2, <3>3, FreeFields, OtherRequests
  <2>3. ASSUME CallsWell(i) PROVE StatusOf(q)' = StatusOf(q) /\ ResultOf(q)' = ResultOf(q)
    <3>1. PICK d, kind, to, result, pc : Calls(i, d, kind, to, result, pc)
      BY <2>3 DEF CallsWell
    <3>2. answer'[q] = answer[q]
      BY <3>1 DEF Calls
    <3> QED
      BY <1>0, <3>1, <3>2, OtherRequests
  <2> QED
    BY <2>1, <2>2, <2>3 DEF Well
<1>2. CASE answer[r] # NoResult
  <2>1. answer[r].code = "LOST"
    BY <1>0, <1>2, AnsweredFinished DEF Busy
  <2>2. answer' = answer
    BY <1>0, <1>2 DEF Well, GoesOnWell, EndsWell, CallsWell, Turns, Ends, Calls
  <2>3. StatusOf(r) = "gone" /\ StatusOf(r)' = StatusOf(r) /\ ResultOf(r)' = ResultOf(r)
    BY <1>0, <2>1, <2>2 DEF Views
  <2>4. \E was, is : Outcome(r, was, is)
    BY DEF Well, GoesOnWell, EndsWell, CallsWell
  <2> QED
    BY <1>0, <1>1, <2>3, <2>4, OneServesLate
<1>3. CASE answer[r] = NoResult
  <2>1. StatusOf(r) = StatusFor(Shown(i)) /\ ResultOf(r) = Shown(i)
    BY <1>3, ShownBefore
  <2>2. CASE GoesOnWell(i)
    <3>1. PICK pc, result :
            /\ Turns(i, pc, result, task[i].todo) /\ task[i].kind = "op" /\ pc # "free"
            /\ Outcome(r, Shown(i), Plain(result))
      BY <2>2 DEF GoesOnWell
    <3>2. /\ i \in InUse' /\ task'[i].req = r /\ task'[i].child = Client
          /\ ShownAs(task'[i].kind, task'[i].result) = Plain(result)
      BY <1>0, <3>1, TaskFields, NextUsed DEF Turns, Becomes, ShownAs
    <3>3. StatusOf(r)' = StatusFor(Plain(result)) /\ ResultOf(r)' = Plain(result)
      BY <1>0, <1>3, <3>1, <3>2 DEF Views, Turns
    <3> QED
      BY <1>0, <1>1, <2>1, <3>1, <3>3, OneServes
  <2>3. CASE EndsWell(i)
    <3>1. PICK result :
            /\ Ends(i, result) /\ result # Panicked
            /\ VerdictOK(Task(task[i], "replied", Client, result, task[i].todo), state')
            /\ Outcome(r, Shown(i), ShownAs(task[i].kind, result))
      BY <2>3 DEF EndsWell
    <3> DEFINE is == ShownAs(task[i].kind, result)
    <3>2. CASE Top(i)
      <4>1. answer'[r] = result
        BY <1>0, <3>1, <3>2 DEF Ends
      <4>2. result.code \notin {"NONE", "LOST"} /\ is = Plain(result)
        BY <1>0, <3>1, <3>2, TaskFields DEF VerdictOK, ShownAs
      <4>3. is # NotDecided
        BY <4>2 DEF Plain, NotDecided
      <4>4. StatusOf(r)' = StatusFor(is) /\ ResultOf(r)' = is
        BY <1>0, <4>1, <4>2, <4>3 DEF Views, StatusFor
      <4> QED
        BY <1>0, <1>1, <2>1, <3>1, <4>4, OneServes
    <3>3. CASE ~Top(i)
      <4>1. Awaited(i)
        BY <1>0, <1>3, <3>3 DEF Answering, NoResult
      <4>2. /\ task'[i] = Task(task[i], "replied", Client, result, task[i].todo)
            /\ answer' = answer
        BY <1>0, <3>1, <3>3, <4>1, CalmEnding DEF Ends, Becomes
      <4>3. /\ i \in InUse' /\ task'[i].req = r /\ task'[i].child = Client
            /\ ShownAs(task'[i].kind, task'[i].result) = is
        BY <1>0, <4>2, TaskFields, NextUsed
      <4>4. StatusOf(r)' = StatusFor(is) /\ ResultOf(r)' = is
        BY <1>0, <1>3, <4>2, <4>3 DEF Views
      <4> QED
        BY <1>0, <1>1, <2>1, <3>1, <4>4, OneServes
    <3> QED
      BY <3>2, <3>3
  <2>4. CASE CallsWell(i)
    <3>1. PICK d, kind, to, result, pc :
            /\ Calls(i, d, kind, to, result, pc)
            /\ Outcome(r, Shown(i), ShownAs(kind, result))
      BY <2>4 DEF CallsWell
    <3> DEFINE is == ShownAs(kind, result)
    <3>2. /\ d \in InUse' /\ task'[d].req = r /\ task'[d].child = Client
          /\ ShownAs(task'[d].kind, task'[d].result) = is /\ answer' = answer
      BY <3>1, NextUsed DEF Calls, Callee
    <3>3. StatusOf(r)' = StatusFor(is) /\ ResultOf(r)' = is
      BY <1>0, <1>3, <3>2 DEF Views
    <3> QED
      BY <1>0, <1>1, <2>1, <3>1, <3>3, OneServes
  <2> QED
    BY <2>2, <2>3, <2>4 DEF Well
<1> QED
  BY <1>2, <1>3

\* A client asks.
LEMMA IssueMapped ==
  ASSUME Whole, Whole', NEW r \in Requests, Issue(r)
  PROVE  [OneServer!Next]_(OneServer!chatVars)
<1>0. IInv /\ Tree /\ Views /\ Views'
  BY WholeViews, NextViews DEF Whole
<1>1. PICK d : Starts(d, r)
  BY <1>0, IssueForm DEF IInv
<1>2. /\ answer[r] = NoResult /\ r \notin Busy /\ answer' = answer /\ OneChat' = OneChat
  BY ChatStays DEF Issue, Busy
<1>3. /\ d \in InUse' /\ task'[d].req = r /\ task'[d].child = Client /\ d \in Slots \ InUse
      /\ ShownAs(task'[d].kind, task'[d].result) = NotDecided
      /\ \A j \in Slots \ {d} : task'[j] = task[j]
  BY <1>1, NextUsed, NothingShown DEF Starts, NewTask
<1>4. ASSUME NEW q \in Requests \ {r}
      PROVE  StatusOf(q)' = StatusOf(q) /\ ResultOf(q)' = ResultOf(q)
  <2>1. ASSUME NEW j \in InUse, task[j].req = q PROVE task'[j] = task[j] /\ j \in InUse'
    BY <1>0, <1>3, <2>1, NextUsed, Used DEF IInv
  <2>2. ASSUME NEW j \in InUse', task'[j].req = q PROVE j \in InUse /\ task[j].req = q
    BY <1>3, <2>2, NextUsed DEF InUse
  <2> QED
    BY <1>2, <2>1, <2>2, ViewStays
<1>5. StatusOf(r) = "idle" /\ ResultOf(r) = NotDecided
  BY <1>0, <1>2 DEF Views
<1>6. StatusOf(r)' = StatusFor(NotDecided) /\ ResultOf(r)' = NotDecided
  BY <1>0, <1>2, <1>3 DEF Views
<1>7. /\ Statuses' = [Statuses EXCEPT ![r] = "pending"] /\ Statuses[r] = "idle"
      /\ ResultsShown' = ResultsShown
  BY <1>4, <1>5, <1>6, OthersShown DEF StatusFor
<1>8. OneServer!Ask(r)
  BY <1>2, <1>7 DEF OneServer!Ask, OneServer!Becomes, Statuses, ResultsShown
<1> QED
  BY <1>8 DEF OneServer!Next

\* A client goes away.
LEMMA DisconnectMapped ==
  ASSUME Whole, Whole', NEW i \in InUse, NEW r \in Requests, r = Req(i), Disconnect(i)
  PROVE  [OneServer!Next]_(OneServer!chatVars)
<1>0. IInv /\ Tree /\ Safe /\ Views /\ Views' /\ r = task[i].req /\ DOMAIN answer = Requests
  BY WholeViews, NextViews DEF Whole, Tree, Req
<1>1. /\ Top(i) /\ Becomes(i, Free) /\ answer' = [answer EXCEPT ![r] = Lost]
      /\ OneChat' = OneChat
  BY <1>0, DisconnectForm, ChatStays DEF IInv
<1>2. answer[r] = NoResult /\ answer'[r].code = "LOST"
  BY <1>0, <1>1, InUseOK DEF Lost, NoResult
<1>3. ASSUME NEW q \in Requests \ {r}
      PROVE  StatusOf(q)' = StatusOf(q) /\ ResultOf(q)' = ResultOf(q)
  BY <1>0, <1>1, FreeFields, OtherRequests
<1>4. StatusOf(r) \in {"pending", "done"}
  BY <1>0, <1>2 DEF StatusOf, NoResult
<1>5. StatusOf(r)' = "gone" /\ ResultOf(r)' = NotDecided
  BY <1>0, <1>2 DEF Views
<1>6. /\ Statuses' = [Statuses EXCEPT ![r] = "gone"] /\ Statuses[r] \in {"pending", "done"}
      /\ ResultsShown' = [ResultsShown EXCEPT ![r] = NotDecided]
  BY <1>3, <1>4, <1>5, OthersShown
<1>7. NotDecided = OneServer!None
  BY DEF NotDecided, OneServer!None
<1>8. OneServer!GoAway(r)
  BY <1>1, <1>6, <1>7 DEF OneServer!GoAway, Statuses, ResultsShown
<1> QED
  BY <1>8 DEF OneServer!Next

\* Every step of the servers is a step of the chat, or none.
LEMMA ChatStep ==
  ASSUME NoLists, Whole, Whole', Due, [Next]_vars
  PROVE  [OneServer!Next]_(OneServer!chatVars)
<1>0. IInv /\ Tree /\ Safe /\ Verdicts /\ Calm /\ Calm'
  BY DEF Whole
<1>1. CASE Next
  <2>1. \/ \E r \in Requests : Issue(r)
        \/ \E i \in InUse : Step(i) \/ Disconnect(i)
    BY <1>0, <1>1, CalmSteps
  <2>2. ASSUME NEW i \in InUse, Step(i) PROVE [OneServer!Next]_(OneServer!chatVars)
    <3>1. Well(i) /\ Req(i) \in Requests
      BY <1>0, <2>2, StepWell, Handler
    <3> QED
      BY <2>2, <3>1, HandlerMapped
  <2>3. ASSUME NEW i \in InUse, Disconnect(i) PROVE [OneServer!Next]_(OneServer!chatVars)
    <3>1. Req(i) \in Requests
      BY <1>0, Handler
    <3> QED
      BY <2>3, <3>1, DisconnectMapped
  <2> QED
    BY <2>1, <2>2, <2>3, IssueMapped
<1>2. CASE UNCHANGED vars
  <2>1. state' = state /\ task' = task /\ answer' = answer /\ InUse' = InUse
    BY <1>2 DEF vars, InUse
  <2>2. \A r \in Requests : StatusOf(r)' = StatusOf(r) /\ ResultOf(r)' = ResultOf(r)
    BY <2>1, ViewStays
  <2>3. Statuses' = Statuses /\ ResultsShown' = ResultsShown
    BY <2>2 DEF Statuses, ResultsShown
  <2> QED
    BY <2>1, <2>3, ChatStays DEF OneServer!chatVars, Statuses, ResultsShown
<1> QED
  BY <1>1, <1>2

\* The servers start as the chat does.
LEMMA ChatInit == Init => OneServer!Init
<1> SUFFICES ASSUME Init PROVE OneServer!Init
  OBVIOUS
<1>1. InUse = {}
  BY FreeFields DEF Init, InUse
<1>2. Statuses = [r \in Requests |-> "idle"] /\ ResultsShown = [r \in Requests |-> OneServer!None]
  <2>1. \A r \in Requests : answer[r] = NoResult
    BY DEF Init
  <2>2. \A r \in Requests : StatusOf(r) = "idle"
    BY <1>1, <2>1 DEF StatusOf, NoResult
  <2> QED
    BY <2>2 DEF Statuses, ResultsShown, ResultOf, NotDecided, OneServer!None
<1>3. \A u \in Users : HasUser(u) <=> u \in Registered
  <2> SUFFICES ASSUME NEW u \in Users PROVE HasUser(u) <=> u \in Registered
    OBVIOUS
  <2>1. Primary(u) \in Servers /\ Primary(u) \in Owners(u)
    BY UserOwners DEF Primary, Owners
  <2>2. state[Primary(u)].users = {v \in Registered : Primary(u) \in Owners(v)}
    BY <2>1 DEF Init
  <2> QED
    BY <2>1, <2>2 DEF HasUser, UserExists
<1>4. ASSUME NEW ch \in Channels
      PROVE  /\ HasChannel(ch) <=> ch \in Preset
             /\ HasChannel(ch) => state[Primary(ch)].channels[ch] = InitialChannel(ch)
  <2>1. Primary(ch) \in Servers /\ Primary(ch) \in Owners(ch)
    BY ChannelOwners DEF Primary, Owners
  <2>2. state[Primary(ch)].channels =
          [c \in {c \in Preset : Primary(ch) \in Owners(c)} |-> InitialChannel(c)]
    BY <2>1 DEF Init
  <2> QED
    BY <2>1, <2>2 DEF HasChannel, ChannelExists
<1>5. Registered \subseteq Users /\ Preset \subseteq Channels
  BY ReplicationAssumption
<1>6. OneChat.users = Registered
  BY <1>3, <1>5, OneFields
<1>7. OneChat.channels = [ch \in Preset |-> InitialChannel(ch)]
  <2>1. {c \in Channels : HasChannel(c)} = Preset
    BY <1>4, <1>5
  <2> QED
    BY <1>4, <1>5, <2>1 DEF OneChat
<1>8. OneChat = [users |-> Registered,
                 channels |-> [ch \in Preset |->
                   [NewChannel EXCEPT !.users = {u \in Users : <<u, ch>> \in Joined}]]]
  <2>1. OneChat = [users |-> Registered, channels |-> [ch \in Preset |-> InitialChannel(ch)]]
    BY <1>6, <1>7 DEF OneChat
  <2> QED
    BY <2>1 DEF InitialChannel
<1> QED
  BY <1>2, <1>8 DEF OneServer!Init, OneServer!NewChannel, NewChannel, Statuses, ResultsShown

\* As long as no server crashes and no replica panics, and if the joins and leaves of one
\* user are asked one after the other, the three servers are one chat: every request takes
\* effect in one step between the time it is sent and the time it is answered, and its answer
\* is what that step came to. So a client does not see that its request was forwarded, that
\* its user was looked up on another server after its channel, and that the change was made
\* a second time, on the backup, before it was told of it. (Lists of users and channels are
\* put together from one server after another, and belong to no one time.)
THEOREM ChatImplemented ==
  ASSUME MembershipOrdered, NoLists
  PROVE  Spec /\ []Calm => ImplementsChat
<1>1. /\ IInv /\ Tree /\ Safe /\ Answering /\ Verdicts /\ Calm /\ Due
      /\ IInv' /\ Tree' /\ Safe' /\ Answering' /\ Verdicts' /\ Calm' /\ [Next]_vars
      => [OneServer!Next]_(OneServer!chatVars)
  BY ChatStep DEF Whole
<1> QED
  BY <1>1, ChatInit, VerdictsInvariance, Invariance, TreeInvariance, SafeInvariance,
     MembersInvariance, PTL DEF Spec, ImplementsChat, OneServer!Spec
=============================================================================
