-------------------------- MODULE DiscordStateProofs --------------------------
(***************************************************************************)
(* What the operations on one server's AppState do, for every state: none  *)
(* of them forgets anything, and replicated messages give the copies of a  *)
(* channel the same content and the same next id, in any order.            *)
(***************************************************************************)
EXTENDS DiscordState, TLAPS

\* The fields of a channel and of an AppState.
ChannelOK(c) ==
  /\ c = [users |-> c.users, messages |-> c.messages, next |-> c.next]
  /\ c.next \in Nat
  /\ c.messages = [i \in DOMAIN c.messages |-> c.messages[i]]

StateOK(st) ==
  /\ st = [users |-> st.users, channels |-> st.channels]
  /\ st.channels = [ch \in DOMAIN st.channels |-> st.channels[ch]]
  /\ \A ch \in DOMAIN st.channels : ChannelOK(st.channels[ch])

-----------------------------------------------------------------------------
\* A channel that stays as it is has grown.
LEMMA ChannelSame == \A c : ChannelOK(c) => ChannelGrows(c, c)
BY DEF ChannelOK, ChannelGrows

\* A channel starts in order.
LEMMA NewChannelOK == ChannelOK(NewChannel)
BY DEF ChannelOK, NewChannel

\* WithChannel sets one channel and leaves the rest.
LEMMA WithChannelFields ==
  ASSUME NEW st, StateOK(st), NEW ch, NEW c
  PROVE  /\ WithChannel(st, ch, c).users = st.users
         /\ DOMAIN WithChannel(st, ch, c).channels = DOMAIN st.channels \cup {ch}
         /\ WithChannel(st, ch, c).channels[ch] = c
         /\ \A b \in DOMAIN st.channels \ {ch} :
              WithChannel(st, ch, c).channels[b] = st.channels[b]
         /\ ChannelOK(c) => StateOK(WithChannel(st, ch, c))
<1> DEFINE new == [b \in DOMAIN st.channels \cup {ch} |-> IF b = ch THEN c ELSE st.channels[b]]
<1>1. WithChannel(st, ch, c) = [users |-> st.users, channels |-> new]
  BY DEF WithChannel, StateOK
<1>2. /\ DOMAIN new = DOMAIN st.channels \cup {ch} /\ new[ch] = c
      /\ \A b \in DOMAIN st.channels \ {ch} : new[b] = st.channels[b]
      /\ new = [b \in DOMAIN new |-> new[b]]
  OBVIOUS
<1>3. ChannelOK(c) => \A b \in DOMAIN new : ChannelOK(new[b])
  BY <1>2 DEF StateOK
<1> HIDE DEF new
<1> QED
  BY <1>1, <1>2, <1>3 DEF StateOK

\* A channel that grows makes the state grow.
LEMMA WithChannelGrows ==
  ASSUME NEW st, StateOK(st), NEW ch, NEW c, ChannelOK(c),
         ch \in DOMAIN st.channels => ChannelGrows(st.channels[ch], c)
  PROVE  StateOK(WithChannel(st, ch, c)) /\ Grows(st, WithChannel(st, ch, c))
<1>1. \A b \in DOMAIN st.channels : ChannelGrows(st.channels[b], st.channels[b])
  BY ChannelSame DEF StateOK
<1> QED
  BY <1>1, WithChannelFields DEF Grows

\* A second write to a channel replaces the first.
LEMMA WithChannelTwice ==
  ASSUME NEW st, StateOK(st), NEW ch, NEW c, NEW d
  PROVE  WithChannel(WithChannel(st, ch, c), ch, d) = WithChannel(st, ch, d)
<1> DEFINE new(x) == [b \in DOMAIN st.channels \cup {ch} |-> IF b = ch THEN x ELSE st.channels[b]]
<1>1. \A x : WithChannel(st, ch, x) = [users |-> st.users, channels |-> new(x)]
  BY DEF WithChannel, StateOK
<1>2. WithChannel([users |-> st.users, channels |-> new(c)], ch, d)
        = [users |-> st.users, channels |-> new(d)]
  <2>1. DOMAIN new(c) \cup {ch} = DOMAIN st.channels \cup {ch}
    OBVIOUS
  <2>2. [b \in DOMAIN st.channels \cup {ch} |-> IF b = ch THEN d ELSE new(c)[b]] = new(d)
    OBVIOUS
  <2> HIDE DEF new
  <2>3. WithChannel([users |-> st.users, channels |-> new(c)], ch, d)
          = [users |-> st.users,
             channels |-> [b \in DOMAIN new(c) \cup {ch} |-> IF b = ch THEN d ELSE new(c)[b]]]
    BY DEF WithChannel
  <2> QED
    BY <2>1, <2>2, <2>3
<1> QED
  BY <1>1, <1>2

-----------------------------------------------------------------------------
(***************************************************************************)
(* Replicated messages                                                     *)
(***************************************************************************)
\* What replicate_send_message makes of a channel.
Received(c, text, id) ==
  [users |-> c.users,
   messages |-> [i \in DOMAIN c.messages \cup {id} |->
                   IF i \in DOMAIN c.messages THEN c.messages[i] ELSE text],
   next |-> IF id \in DOMAIN c.messages THEN c.next ELSE c.next + 1]

\* A channel that has received messages is in order.
LEMMA ReceivedOK ==
  ASSUME NEW c, ChannelOK(c), NEW text, NEW id
  PROVE  ChannelOK(Received(c, text, id)) /\ ChannelGrows(c, Received(c, text, id))
BY DEF ChannelOK, ChannelGrows, Received

\* replicate_send_message is the reception of one message.
LEMMA ReplicateIsReceived ==
  ASSUME NEW st, StateOK(st), NEW ch \in DOMAIN st.channels, NEW text, NEW id
  PROVE  ReplicateSendMessage(st, ch, text, id).state
           = WithChannel(st, ch, Received(st.channels[ch], text, id))
<1> DEFINE c == st.channels[ch]
           did_insert == IF id \in DOMAIN c.messages THEN 0 ELSE 1
<1>0. ChannelOK(c)
  BY DEF StateOK
<1>1. [Insert(c, id, text) EXCEPT !.next = Insert(c, id, text).next + did_insert]
        = Received(c, text, id)
  <2> HIDE DEF c
  <2>1. CASE id \in DOMAIN c.messages
    <3>1. Insert(c, id, text) = c /\ DOMAIN c.messages \cup {id} = DOMAIN c.messages
      BY <2>1 DEF Insert
    <3>2. [i \in DOMAIN c.messages |->
             IF i \in DOMAIN c.messages THEN c.messages[i] ELSE text] = c.messages
      BY <1>0 DEF ChannelOK
    <3>3. c = [users |-> c.users, messages |-> c.messages, next |-> c.next] /\ c.next + 0 = c.next
      BY <1>0 DEF ChannelOK
    <3>4. Received(c, text, id) = [users |-> c.users, messages |-> c.messages, next |-> c.next]
      BY <2>1, <3>1, <3>2 DEF Received
    <3>5. [c EXCEPT !.next = c.next + 0]
            = [users |-> c.users, messages |-> c.messages, next |-> c.next]
      BY <3>3
    <3> QED
      BY <2>1, <3>1, <3>4, <3>5
  <2>2. CASE id \notin DOMAIN c.messages
    <3> DEFINE all == [i \in DOMAIN c.messages \cup {id} |-> IF i = id THEN text ELSE c.messages[i]]
    <3>1. all = [i \in DOMAIN c.messages \cup {id} |->
                   IF i \in DOMAIN c.messages THEN c.messages[i] ELSE text]
      BY <2>2
    <3>2. Insert(c, id, text) = [c EXCEPT !.messages = all]
      BY <2>2 DEF Insert
    <3>3. Received(c, text, id) = [users |-> c.users, messages |-> all, next |-> c.next + 1]
      BY <2>2, <3>1 DEF Received
    <3> HIDE DEF all
    <3>4. Insert(c, id, text) = [users |-> c.users, messages |-> all, next |-> c.next]
      BY <1>0, <3>2 DEF ChannelOK
    <3> QED
      BY <2>2, <3>3, <3>4
  <2> QED
    BY <2>1, <2>2
<1> QED
  BY <1>1 DEF ReplicateSendMessage, Effect

\* Two replicated messages of a channel can be served in either order: the copy ends
\* with the same messages and the same next id (the comment on next_message_id in
\* replicate_send_message).
THEOREM ReplicationCommutes ==
  ASSUME NEW st, StateOK(st), NEW ch \in DOMAIN st.channels,
         NEW a, NEW i, NEW b, NEW j, i # j
  PROVE  LET first  == ReplicateSendMessage(st, ch, a, i).state
             second == ReplicateSendMessage(st, ch, b, j).state
         IN ReplicateSendMessage(first, ch, b, j).state
              = ReplicateSendMessage(second, ch, a, i).state
<1> DEFINE c == st.channels[ch]
<1>0. ChannelOK(c)
  BY DEF StateOK
<1>1. \A text, id, text2, id2 :
        ReplicateSendMessage(ReplicateSendMessage(st, ch, text, id).state, ch, text2, id2).state
          = WithChannel(st, ch, Received(Received(c, text, id), text2, id2))
  <2> SUFFICES ASSUME NEW text, NEW id, NEW text2, NEW id2
               PROVE  ReplicateSendMessage(ReplicateSendMessage(st, ch, text, id).state,
                                           ch, text2, id2).state
                        = WithChannel(st, ch, Received(Received(c, text, id), text2, id2))
    OBVIOUS
  <2> DEFINE tt == WithChannel(st, ch, Received(c, text, id))
  <2>1. ReplicateSendMessage(st, ch, text, id).state = tt
    BY ReplicateIsReceived
  <2>2. StateOK(tt) /\ ch \in DOMAIN tt.channels /\ tt.channels[ch] = Received(c, text, id)
    BY <1>0, ReceivedOK, WithChannelFields
  <2> HIDE DEF tt
  <2>3. ReplicateSendMessage(tt, ch, text2, id2).state
          = WithChannel(tt, ch, Received(tt.channels[ch], text2, id2))
    BY <2>2, ReplicateIsReceived
  <2> QED
    BY <2>1, <2>2, <2>3, WithChannelTwice DEF tt
<1>2. Received(Received(c, a, i), b, j) = Received(Received(c, b, j), a, i)
  <2> HIDE DEF c
  <2> DEFINE all == [k \in DOMAIN c.messages \cup {i, j} |->
                       IF k \in DOMAIN c.messages THEN c.messages[k]
                       ELSE IF k = i THEN a ELSE b]
  <2>1. Received(Received(c, a, i), b, j).messages = all
    BY DEF Received
  <2>2. Received(Received(c, b, j), a, i).messages = all
    BY DEF Received
  <2>3. Received(Received(c, a, i), b, j).next = Received(Received(c, b, j), a, i).next
    BY <1>0 DEF Received, ChannelOK
  <2>4. \A x, text, id : Received(x, text, id)
          = [users |-> x.users, messages |-> Received(x, text, id).messages,
             next |-> Received(x, text, id).next]
    BY DEF Received
  <2>5. Received(Received(c, a, i), b, j).users = Received(Received(c, b, j), a, i).users
    BY DEF Received
  <2> QED
    BY <2>1, <2>2, <2>3, <2>4, <2>5 DEF Received
<1> QED
  BY <1>1, <1>2

\* The backup of a message sees what the primary did: on equal copies send_message, and
\* replicate_send_message with the id it chose, leave equal channels.
THEOREM ReplicationCopies ==
  ASSUME NEW st, StateOK(st), NEW ch \in DOMAIN st.channels, NEW u, NEW text,
         u \in st.channels[ch].users,
         st.channels[ch].next \notin DOMAIN st.channels[ch].messages
  PROVE  SendMessage(st, u, ch, text).state
           = ReplicateSendMessage(st, ch, text, st.channels[ch].next).state
<1> DEFINE c == st.channels[ch]
<1>0. ChannelOK(c)
  BY DEF StateOK
<1>1. SendMessage(st, u, ch, text).state
        = WithChannel(st, ch, Insert([c EXCEPT !.next = c.next + 1], c.next, text))
  BY DEF SendMessage, Effect
<1>2. Insert([c EXCEPT !.next = c.next + 1], c.next, text) = Received(c, text, c.next)
  <2>0. c.next \notin DOMAIN c.messages
    OBVIOUS
  <2> HIDE DEF c
  <2> DEFINE d == [users |-> c.users, messages |-> c.messages, next |-> c.next + 1]
             all == [i \in DOMAIN c.messages \cup {c.next} |->
                       IF i = c.next THEN text ELSE c.messages[i]]
  <2>1. [c EXCEPT !.next = c.next + 1] = d
    BY <1>0 DEF ChannelOK
  <2>2. Insert(d, c.next, text) = [users |-> c.users, messages |-> all, next |-> c.next + 1]
    BY <2>0 DEF Insert
  <2>3. all = [i \in DOMAIN c.messages \cup {c.next} |->
                 IF i \in DOMAIN c.messages THEN c.messages[i] ELSE text]
    BY <2>0
  <2> QED
    BY <2>0, <2>1, <2>2, <2>3 DEF Received
<1> QED
  BY <1>1, <1>2, ReplicateIsReceived

-----------------------------------------------------------------------------
(***************************************************************************)
(* No operation forgets anything                                           *)
(***************************************************************************)
LEMMA Same == \A st : StateOK(st) => Grows(st, st)
BY ChannelSame DEF Grows, StateOK

\* create_user forgets nothing.
LEMMA CreateUserGrows ==
  ASSUME NEW st, StateOK(st), NEW u
  PROVE  StateOK(CreateUser(st, u).state) /\ Grows(st, CreateUser(st, u).state)
<1>1. CASE UserExists(st, u)
  BY <1>1, Same DEF CreateUser, Effect
<1>2. CASE ~UserExists(st, u)
  <2>1. CreateUser(st, u).state = [users |-> st.users \cup {u}, channels |-> st.channels]
    BY <1>2 DEF CreateUser, Effect, StateOK
  <2> QED
    BY <2>1, Same DEF StateOK, Grows
<1> QED
  BY <1>1, <1>2

\* Members come and go, the channel stays.
LEMMA MembersGrow ==
  ASSUME NEW c, ChannelOK(c), NEW S
  PROVE  ChannelOK([c EXCEPT !.users = S]) /\ ChannelGrows(c, [c EXCEPT !.users = S])
<1>1. [c EXCEPT !.users = S] = [users |-> S, messages |-> c.messages, next |-> c.next]
  BY DEF ChannelOK
<1> QED
  BY <1>1 DEF ChannelOK, ChannelGrows

\* join_channel forgets nothing, whether it creates the channel or not.
LEMMA JoinChannelGrows ==
  ASSUME NEW st, StateOK(st), NEW u, NEW ch
  PROVE  StateOK(JoinChannel(st, u, ch).state) /\ Grows(st, JoinChannel(st, u, ch).state)
<1> DEFINE c == IF ChannelExists(st, ch) THEN st.channels[ch] ELSE NewChannel
           d == [c EXCEPT !.users = c.users \cup {u}]
<1>1. ChannelOK(c)
  BY NewChannelOK DEF StateOK, ChannelExists
<1>2. ChannelOK(d) /\ ChannelGrows(c, d)
  <2> HIDE DEF c
  <2> QED
    BY <1>1, MembersGrow
<1>3. \/ JoinChannel(st, u, ch).state = st
      \/ JoinChannel(st, u, ch).state = WithChannel(st, ch, d)
  BY DEF JoinChannel, Effect
<1>4. ch \in DOMAIN st.channels => ChannelGrows(st.channels[ch], d)
  BY <1>2 DEF ChannelExists
<1> HIDE DEF d
<1> QED
  BY <1>2, <1>3, <1>4, Same, WithChannelGrows

\* leave_channel forgets nothing but a member.
LEMMA LeaveChannelGrows ==
  ASSUME NEW st, StateOK(st), NEW u, NEW ch \in DOMAIN st.channels
  PROVE  StateOK(LeaveChannel(st, u, ch).state) /\ Grows(st, LeaveChannel(st, u, ch).state)
<1> DEFINE d == [st.channels[ch] EXCEPT !.users = st.channels[ch].users \ {u}]
<1>1. ChannelOK(d) /\ ChannelGrows(st.channels[ch], d)
  BY MembersGrow DEF StateOK
<1>2. \/ LeaveChannel(st, u, ch).state = st
      \/ LeaveChannel(st, u, ch).state = WithChannel(st, ch, d)
  BY DEF LeaveChannel, Effect
<1> HIDE DEF d
<1> QED
  BY <1>1, <1>2, Same, WithChannelGrows

\* A message under an id, taken or not, loses nothing.
LEMMA InsertGrows ==
  ASSUME NEW c, ChannelOK(c), NEW id, NEW text
  PROVE  ChannelOK(Insert(c, id, text)) /\ ChannelGrows(c, Insert(c, id, text))
<1>1. CASE id \in DOMAIN c.messages
  BY <1>1, ChannelSame DEF Insert
<1>2. CASE id \notin DOMAIN c.messages
  <2> DEFINE all == [i \in DOMAIN c.messages \cup {id} |-> IF i = id THEN text ELSE c.messages[i]]
  <2>1. Insert(c, id, text) = [users |-> c.users, messages |-> all, next |-> c.next]
    BY <1>2 DEF Insert, ChannelOK
  <2>2. /\ DOMAIN all = DOMAIN c.messages \cup {id}
        /\ \A i \in DOMAIN c.messages : all[i] = c.messages[i]
        /\ all = [i \in DOMAIN all |-> all[i]]
    BY <1>2
  <2> HIDE DEF all
  <2> QED
    BY <2>1, <2>2 DEF ChannelOK, ChannelGrows
<1> QED
  BY <1>1, <1>2

\* send_message forgets nothing.
LEMMA SendMessageGrows ==
  ASSUME NEW st, StateOK(st), NEW u, NEW ch \in DOMAIN st.channels, NEW text
  PROVE  /\ StateOK(SendMessage(st, u, ch, text).state)
         /\ Grows(st, SendMessage(st, u, ch, text).state)
<1> DEFINE c == st.channels[ch]
           d == [c EXCEPT !.next = c.next + 1]
           e == Insert(d, c.next, text)
<1>1. ChannelOK(d) /\ ChannelGrows(c, d)
  <2>1. ChannelOK(c)
    BY DEF StateOK
  <2>2. d = [users |-> c.users, messages |-> c.messages, next |-> c.next + 1]
    BY <2>1 DEF ChannelOK
  <2> HIDE DEF c, d
  <2> QED
    BY <2>1, <2>2 DEF ChannelOK, ChannelGrows
<1>2. ChannelOK(e) /\ ChannelGrows(d, e)
  BY <1>1, InsertGrows
<1>3. ChannelGrows(c, e)
  <2>1. ChannelOK(c)
    BY DEF StateOK
  <2> HIDE DEF c, d, e
  <2> QED
    BY <1>1, <1>2, <2>1 DEF ChannelGrows, ChannelOK
<1>4. \/ SendMessage(st, u, ch, text).state = st
      \/ SendMessage(st, u, ch, text).state = WithChannel(st, ch, e)
  BY DEF SendMessage, Effect
<1> HIDE DEF e
<1> QED
  BY <1>2, <1>3, <1>4, Same, WithChannelGrows

\* replicate_send_message forgets nothing.
LEMMA ReplicateGrows ==
  ASSUME NEW st, StateOK(st), NEW ch \in DOMAIN st.channels, NEW text, NEW id
  PROVE  /\ StateOK(ReplicateSendMessage(st, ch, text, id).state)
         /\ Grows(st, ReplicateSendMessage(st, ch, text, id).state)
<1>1. ChannelOK(st.channels[ch])
  BY DEF StateOK
<1> QED
  BY <1>1, ReplicateIsReceived, ReceivedOK, WithChannelGrows

\* What only reads leaves the state alone.
LEMMA ReadsGrow ==
  ASSUME NEW st, StateOK(st), NEW ch
  PROVE  ListChannelUsers(st, ch).state = st /\ GetMessages(st, ch).state = st
BY DEF ListChannelUsers, GetMessages, Effect

(***************************************************************************)
(* What the operations add                                                 *)
(***************************************************************************)
\* A server holds a message under an id.
Holds(st, ch, k, text) ==
  /\ ChannelExists(st, ch)
  /\ k \in DOMAIN st.channels[ch].messages
  /\ st.channels[ch].messages[k] = text

\* The ids of a channel's messages are below the next one, if the server has it.
Numbered(st, ch) ==
  ChannelExists(st, ch) =>
    \A k \in DOMAIN st.channels[ch].messages : k \in Nat /\ k < st.channels[ch].next

\* What a server holds it keeps.
LEMMA HoldsStays ==
  ASSUME NEW st, NEW tt, Grows(st, tt)
  PROVE  \A ch, k, text : Holds(st, ch, k, text) => Holds(tt, ch, k, text)
BY DEF Holds, Grows, ChannelGrows, ChannelExists

\* What a server holds after one channel was written.
LEMMA HoldsWith ==
  ASSUME NEW st, StateOK(st), NEW ch, NEW c
  PROVE  /\ \A k, text : Holds(WithChannel(st, ch, c), ch, k, text) <=>
              k \in DOMAIN c.messages /\ c.messages[k] = text
         /\ \A b, k, text : b # ch =>
              (Holds(WithChannel(st, ch, c), b, k, text) <=> Holds(st, b, k, text))
         /\ \A b : b # ch => (Numbered(WithChannel(st, ch, c), b) <=> Numbered(st, b))
         /\ Numbered(WithChannel(st, ch, c), ch) <=>
              \A k \in DOMAIN c.messages : k \in Nat /\ k < c.next
BY WithChannelFields DEF Holds, Numbered, ChannelExists

\* A change of members.
LEMMA HoldsMembers ==
  ASSUME NEW st, StateOK(st), NEW ch, NEW c, c = [st.channels[ch] EXCEPT !.users = c.users],
         ch \in DOMAIN st.channels
  PROVE  /\ \A b, k, text :
              Holds(WithChannel(st, ch, c), b, k, text) => Holds(st, b, k, text)
         /\ \A b : Numbered(st, b) => Numbered(WithChannel(st, ch, c), b)
<1>1. ChannelOK(st.channels[ch])
  BY DEF StateOK
<1>2. c.messages = st.channels[ch].messages /\ c.next = st.channels[ch].next
  BY <1>1 DEF ChannelOK
<1>3. /\ \A k, text : Holds(st, ch, k, text) <=>
              k \in DOMAIN c.messages /\ c.messages[k] = text
      /\ Numbered(st, ch) <=> \A k \in DOMAIN c.messages : k \in Nat /\ k < c.next
  BY <1>2 DEF Holds, Numbered, ChannelExists
<1> QED
  BY <1>3, HoldsWith

\* create_user adds the user, and no message.
LEMMA CreateUserAdds ==
  ASSUME NEW st, StateOK(st), NEW u
  PROVE  LET e == CreateUser(st, u)
         IN /\ e.result.code = "OK" => ~UserExists(st, u) /\ UserExists(e.state, u)
            /\ e.state.channels = st.channels
            /\ \A b, k, text : Holds(e.state, b, k, text) => Holds(st, b, k, text)
            /\ \A b : Numbered(st, b) => Numbered(e.state, b)
<1>1. CASE UserExists(st, u)
  BY <1>1 DEF CreateUser, Effect
<1>2. CASE ~UserExists(st, u)
  <2>1. /\ CreateUser(st, u).state = [users |-> st.users \cup {u}, channels |-> st.channels]
        /\ CreateUser(st, u).result.code = "OK"
    BY <1>2 DEF CreateUser, Effect, StateOK
  <2> QED
    BY <1>2, <2>1 DEF UserExists, Holds, Numbered, ChannelExists
<1> QED
  BY <1>1, <1>2

\* join_channel adds no message.
LEMMA JoinChannelAdds ==
  ASSUME NEW st, StateOK(st), NEW u, NEW ch
  PROVE  LET e == JoinChannel(st, u, ch)
         IN /\ \A b, k, text : Holds(e.state, b, k, text) => Holds(st, b, k, text)
            /\ \A b : Numbered(st, b) => Numbered(e.state, b)
<1> DEFINE c == IF ChannelExists(st, ch) THEN st.channels[ch] ELSE NewChannel
           d == [c EXCEPT !.users = c.users \cup {u}]
<1>1. \/ JoinChannel(st, u, ch).state = st
      \/ JoinChannel(st, u, ch).state = WithChannel(st, ch, d)
  BY DEF JoinChannel, Effect
<1>2. CASE JoinChannel(st, u, ch).state = st
  BY <1>2
<1>3. CASE JoinChannel(st, u, ch).state = WithChannel(st, ch, d) /\ ChannelExists(st, ch)
  <2>1. d = [st.channels[ch] EXCEPT !.users = d.users]
    <3>1. ChannelOK(st.channels[ch])
      BY <1>3 DEF StateOK, ChannelExists
    <3> QED
      BY <1>3, <3>1 DEF ChannelOK
  <2> HIDE DEF d
  <2> QED
    BY <1>3, <2>1, HoldsMembers DEF ChannelExists
<1>4. CASE JoinChannel(st, u, ch).state = WithChannel(st, ch, d) /\ ~ChannelExists(st, ch)
  <2>1. DOMAIN d.messages = {}
    BY <1>4 DEF NewChannel
  <2> HIDE DEF d
  <2> QED
    BY <1>4, <2>1, HoldsWith
<1> QED
  BY <1>1, <1>2, <1>3, <1>4

\* leave_channel adds no message.
LEMMA LeaveChannelAdds ==
  ASSUME NEW st, StateOK(st), NEW u, NEW ch \in DOMAIN st.channels
  PROVE  LET e == LeaveChannel(st, u, ch)
         IN /\ \A b, k, text : Holds(e.state, b, k, text) => Holds(st, b, k, text)
            /\ \A b : Numbered(st, b) => Numbered(e.state, b)
<1> DEFINE d == [st.channels[ch] EXCEPT !.users = st.channels[ch].users \ {u}]
<1>1. \/ LeaveChannel(st, u, ch).state = st
      \/ LeaveChannel(st, u, ch).state = WithChannel(st, ch, d)
  BY DEF LeaveChannel, Effect
<1>2. d = [st.channels[ch] EXCEPT !.users = d.users]
  <2>1. ChannelOK(st.channels[ch])
    BY DEF StateOK
  <2> QED
    BY <2>1 DEF ChannelOK
<1> HIDE DEF d
<1> QED
  BY <1>1, <1>2, HoldsMembers

\* What an inserted message makes of a channel.
LEMMA InsertForm ==
  ASSUME NEW c, ChannelOK(c), NEW id, NEW text
  PROVE  LET d == Insert(c, id, text)
         IN /\ d.users = c.users /\ d.next = c.next
            /\ DOMAIN d.messages = DOMAIN c.messages \cup {id}
            /\ \A k \in DOMAIN c.messages : d.messages[k] = c.messages[k]
            /\ id \notin DOMAIN c.messages => d.messages[id] = text
<1>1. CASE id \in DOMAIN c.messages
  BY <1>1 DEF Insert
<1>2. CASE id \notin DOMAIN c.messages
  <2> DEFINE all == [i \in DOMAIN c.messages \cup {id} |-> IF i = id THEN text ELSE c.messages[i]]
  <2>1. Insert(c, id, text) = [users |-> c.users, messages |-> all, next |-> c.next]
    BY <1>2 DEF Insert, ChannelOK
  <2> QED
    BY <1>2, <2>1
<1> QED
  BY <1>1, <1>2

\* send_message adds the message, under the channel's next id, and counts it.
LEMMA SendMessageAdds ==
  ASSUME NEW st, StateOK(st), NEW u, NEW ch \in DOMAIN st.channels, NEW text
  PROVE  LET e == SendMessage(st, u, ch, text)
             next == st.channels[ch].next
         IN /\ e.result.code = "OK" =>
                 /\ e.result.value = {next} /\ next \in Nat
                 /\ Numbered(st, ch) => Holds(e.state, ch, next, text)
            /\ \A b, k, t : Holds(e.state, b, k, t) =>
                 \/ Holds(st, b, k, t)
                 \/ e.result.code = "OK" /\ b = ch /\ k = next /\ t = text
            /\ \A b : Numbered(st, b) => Numbered(e.state, b)
<1> DEFINE c == st.channels[ch]
           d == [c EXCEPT !.next = c.next + 1]
           x == Insert(d, c.next, text)
<1>0. ChannelOK(c)
  BY DEF StateOK
<1>1. ChannelOK(d) /\ d.messages = c.messages /\ d.next = c.next + 1
  <2>1. d = [users |-> c.users, messages |-> c.messages, next |-> c.next + 1]
    BY <1>0 DEF ChannelOK
  <2> HIDE DEF c, d
  <2> QED
    BY <1>0, <2>1 DEF ChannelOK
<1>2. /\ x.next = c.next + 1
      /\ DOMAIN x.messages = DOMAIN c.messages \cup {c.next}
      /\ \A k \in DOMAIN c.messages : x.messages[k] = c.messages[k]
      /\ c.next \notin DOMAIN c.messages => x.messages[c.next] = text
  <2> HIDE DEF c, d
  <2> QED
    BY <1>1, InsertForm
<1>3. c.next \in Nat
  BY <1>0 DEF ChannelOK
<1>4. \/ /\ SendMessage(st, u, ch, text).state = st
         /\ SendMessage(st, u, ch, text).result.code = "NOT_A_MEMBER"
      \/ /\ SendMessage(st, u, ch, text).state = WithChannel(st, ch, x)
         /\ SendMessage(st, u, ch, text).result = [code |-> "OK", value |-> {c.next}]
  BY DEF SendMessage, Effect
<1>5. Numbered(st, ch) =>
        /\ c.next \notin DOMAIN c.messages
        /\ \A k \in DOMAIN x.messages : k \in Nat /\ k < x.next
  <2> HIDE DEF x
  <2>1. Numbered(st, ch) => \A k \in DOMAIN c.messages : k \in Nat /\ k < c.next
    BY DEF Numbered, ChannelExists
  <2> HIDE DEF c
  <2> QED
    BY <1>2, <1>3, <2>1
<1> HIDE DEF x
<1>6. CASE SendMessage(st, u, ch, text).state = WithChannel(st, ch, x)
  <2> DEFINE tt == WithChannel(st, ch, x)
  <2>1. \A b, k, t : Holds(tt, b, k, t) => Holds(st, b, k, t) \/ (b = ch /\ k = c.next /\ t = text)
    <3>1. \A k, t : Holds(st, ch, k, t) <=> k \in DOMAIN c.messages /\ c.messages[k] = t
      BY DEF Holds, ChannelExists
    <3>2. /\ \A k, t : Holds(tt, ch, k, t) <=> k \in DOMAIN x.messages /\ x.messages[k] = t
          /\ \A b, k, t : b # ch => (Holds(tt, b, k, t) <=> Holds(st, b, k, t))
      BY HoldsWith
    <3> HIDE DEF c, tt
    <3> QED
      BY <1>2, <3>1, <3>2
  <2>2. \A b : Numbered(st, b) => Numbered(tt, b)
    BY <1>5, HoldsWith
  <2>3. Numbered(st, ch) => Holds(tt, ch, c.next, text)
    BY <1>2, <1>5, HoldsWith
  <2> HIDE DEF tt, c
  <2>4. CASE SendMessage(st, u, ch, text).result = [code |-> "OK", value |-> {c.next}]
    BY <1>3, <1>6, <2>1, <2>2, <2>3, <2>4 DEF tt, c
  <2>5. CASE /\ SendMessage(st, u, ch, text).state = st
             /\ SendMessage(st, u, ch, text).result.code = "NOT_A_MEMBER"
    BY <2>5
  <2> QED
    BY <1>4, <2>4, <2>5
<1>7. CASE /\ SendMessage(st, u, ch, text).state = st
           /\ SendMessage(st, u, ch, text).result.code = "NOT_A_MEMBER"
  BY <1>7
<1> QED
  BY <1>4, <1>6, <1>7

\* replicate_send_message adds the message under the id it is given, unless that is taken.
LEMMA ReplicateAdds ==
  ASSUME NEW st, StateOK(st), NEW ch \in DOMAIN st.channels, NEW text, NEW id
  PROVE  LET tt == ReplicateSendMessage(st, ch, text, id).state
         IN /\ id \in DOMAIN st.channels[ch].messages \/ Holds(tt, ch, id, text)
            /\ \A b, k, t : Holds(tt, b, k, t) =>
                 Holds(st, b, k, t) \/ (b = ch /\ k = id /\ t = text)
            /\ \A b : b # ch /\ Numbered(st, b) => Numbered(tt, b)
<1> DEFINE c == st.channels[ch]
           d == Received(c, text, id)
<1>1. /\ ReplicateSendMessage(st, ch, text, id).state = WithChannel(st, ch, d)
      /\ DOMAIN d.messages = DOMAIN c.messages \cup {id}
      /\ \A k \in DOMAIN d.messages :
           d.messages[k] = IF k \in DOMAIN c.messages THEN c.messages[k] ELSE text
  BY ReplicateIsReceived DEF Received
<1>2. \A k, t : Holds(st, ch, k, t) <=> k \in DOMAIN c.messages /\ c.messages[k] = t
  BY DEF Holds, ChannelExists
<1> DEFINE tt == WithChannel(st, ch, d)
<1>3. /\ \A k, t : Holds(tt, ch, k, t) <=> k \in DOMAIN d.messages /\ d.messages[k] = t
      /\ \A b, k, t : b # ch => (Holds(tt, b, k, t) <=> Holds(st, b, k, t))
      /\ \A b : b # ch => (Numbered(tt, b) <=> Numbered(st, b))
  BY HoldsWith
<1>4. id \in DOMAIN c.messages \/ Holds(tt, ch, id, text)
  BY <1>1, <1>3
<1> HIDE DEF c, d, tt
<1>5. \A b, k, t : Holds(tt, b, k, t) => Holds(st, b, k, t) \/ (b = ch /\ k = id /\ t = text)
  BY <1>1, <1>2, <1>3
<1> QED
  BY <1>1, <1>3, <1>4, <1>5 DEF c, tt

(***************************************************************************)
(* What the operations make of one channel                                 *)
(***************************************************************************)
\* A channel, which is a new one where there is none yet.
Chan(st, ch) == IF ChannelExists(st, ch) THEN st.channels[ch] ELSE NewChannel

\* From st to tt no more than channel ch changed, which tt has.
Only(st, tt, ch) ==
  /\ tt.users = st.users
  /\ ChannelExists(tt, ch)
  /\ \A b : b # ch => /\ ChannelExists(tt, b) <=> ChannelExists(st, b)
                      /\ Chan(tt, b) = Chan(st, b)

LEMMA ChanOK ==
  ASSUME NEW st, StateOK(st), NEW ch
  PROVE  ChannelOK(Chan(st, ch))
BY NewChannelOK DEF Chan, StateOK, ChannelExists

LEMMA ChanWith ==
  ASSUME NEW st, StateOK(st), NEW ch, NEW d
  PROVE  Only(st, WithChannel(st, ch, d), ch) /\ Chan(WithChannel(st, ch, d), ch) = d
BY WithChannelFields DEF Chan, ChannelExists, Only

\* join_channel adds the member, to a new channel if there was none.
LEMMA JoinChannelMakes ==
  ASSUME NEW st, StateOK(st), NEW u, NEW ch
  PROVE  LET tt == JoinChannel(st, u, ch).state
         IN /\ Only(st, tt, ch)
            /\ Chan(tt, ch).users = Chan(st, ch).users \cup {u}
            /\ Chan(tt, ch).messages = Chan(st, ch).messages
            /\ Chan(tt, ch).next = Chan(st, ch).next
<1> DEFINE c == Chan(st, ch)
           d == [c EXCEPT !.users = c.users \cup {u}]
<1>0. ChannelOK(c)
  BY ChanOK
<1>1. CASE u \in c.users
  <2>1. ChannelExists(st, ch)
    BY <1>1 DEF Chan, NewChannel
  <2>2. JoinChannel(st, u, ch).state = st
    BY <1>1 DEF JoinChannel, Chan, Effect
  <2>3. c.users = c.users \cup {u}
    BY <1>1
  <2> QED
    BY <2>1, <2>2, <2>3 DEF Only
<1>2. CASE u \notin c.users
  <2>1. JoinChannel(st, u, ch).state = WithChannel(st, ch, d)
    BY <1>2 DEF JoinChannel, Chan, Effect
  <2>2. d.users = c.users \cup {u} /\ d.messages = c.messages /\ d.next = c.next
    <3> HIDE DEF c
    <3> QED
      BY <1>0 DEF ChannelOK
  <2> HIDE DEF c, d
  <2> QED
    BY <2>1, <2>2, ChanWith DEF c
<1> QED
  BY <1>1, <1>2

\* leave_channel removes the member.
LEMMA LeaveChannelMakes ==
  ASSUME NEW st, StateOK(st), NEW u, NEW ch, ChannelExists(st, ch)
  PROVE  LET tt == LeaveChannel(st, u, ch).state
         IN /\ Only(st, tt, ch)
            /\ Chan(tt, ch).users = Chan(st, ch).users \ {u}
            /\ Chan(tt, ch).messages = Chan(st, ch).messages
            /\ Chan(tt, ch).next = Chan(st, ch).next
<1> DEFINE c == Chan(st, ch)
           d == [c EXCEPT !.users = c.users \ {u}]
<1>0. ChannelOK(c) /\ c = st.channels[ch]
  BY ChanOK DEF Chan
<1>1. CASE u \notin c.users
  <2>1. LeaveChannel(st, u, ch).state = st
    BY <1>0, <1>1 DEF LeaveChannel, Effect
  <2>2. c.users = c.users \ {u}
    BY <1>1
  <2> QED
    BY <2>1, <2>2 DEF Only
<1>2. CASE u \in c.users
  <2>1. LeaveChannel(st, u, ch).state = WithChannel(st, ch, d)
    <3> HIDE DEF c
    <3> QED
      BY <1>0, <1>2 DEF LeaveChannel, Effect
  <2>2. d.users = c.users \ {u} /\ d.messages = c.messages /\ d.next = c.next
    <3> HIDE DEF c
    <3> QED
      BY <1>0 DEF ChannelOK
  <2> HIDE DEF c, d
  <2> QED
    BY <2>1, <2>2, ChanWith DEF c
<1> QED
  BY <1>1, <1>2

\* send_message inserts a message of a member, under the next id.
LEMMA SendMessageMakes ==
  ASSUME NEW st, StateOK(st), NEW u, NEW ch, ChannelExists(st, ch), NEW text
  PROVE  LET e == SendMessage(st, u, ch, text)
             c == Chan(st, ch)
             d == Chan(e.state, ch)
         IN /\ Only(st, e.state, ch)
            /\ e.result.code # "OK" => e.state = st
            /\ d.users = c.users
            /\ e.result.code = "OK" => /\ e.result.value = {c.next}
                                       /\ DOMAIN d.messages = DOMAIN c.messages \cup {c.next}
                                       /\ d.next = c.next + 1
<1> DEFINE c == Chan(st, ch)
           d == [c EXCEPT !.next = c.next + 1]
           x == Insert(d, c.next, text)
<1>0. ChannelOK(c) /\ c = st.channels[ch]
  BY ChanOK DEF Chan
<1>1. CASE u \notin c.users
  <2>1. SendMessage(st, u, ch, text).state = st /\ SendMessage(st, u, ch, text).result.code # "OK"
    BY <1>0, <1>1 DEF SendMessage, Effect
  <2> QED
    BY <2>1 DEF Only
<1>2. CASE u \in c.users
  <2>1. /\ SendMessage(st, u, ch, text).state = WithChannel(st, ch, x)
        /\ SendMessage(st, u, ch, text).result = [code |-> "OK", value |-> {c.next}]
    <3> HIDE DEF c
    <3> QED
      BY <1>0, <1>2 DEF SendMessage, Effect
  <2>2. ChannelOK(d) /\ d.users = c.users /\ d.messages = c.messages /\ d.next = c.next + 1
    <3> HIDE DEF c
    <3> QED
      BY <1>0 DEF ChannelOK
  <2> HIDE DEF c, d
  <2>3. /\ x.users = c.users /\ x.next = c.next + 1
        /\ DOMAIN x.messages = DOMAIN c.messages \cup {c.next}
    BY <2>2, InsertForm
  <2> HIDE DEF x
  <2> QED
    BY <2>1, <2>3, ChanWith DEF c
<1> QED
  BY <1>1, <1>2

\* replicate_send_message inserts the message and counts it.
LEMMA ReplicateMakes ==
  ASSUME NEW st, StateOK(st), NEW ch, ChannelExists(st, ch), NEW text, NEW id
  PROVE  LET tt == ReplicateSendMessage(st, ch, text, id).state
             c == Chan(st, ch)
             d == Chan(tt, ch)
         IN /\ Only(st, tt, ch)
            /\ d.users = c.users
            /\ DOMAIN d.messages = DOMAIN c.messages \cup {id}
            /\ d.next = IF id \in DOMAIN c.messages THEN c.next ELSE c.next + 1
<1> DEFINE c == Chan(st, ch)
<1>1. c = st.channels[ch] /\ ch \in DOMAIN st.channels
  BY DEF Chan, ChannelExists
<1>2. ReplicateSendMessage(st, ch, text, id).state
        = WithChannel(st, ch, Received(c, text, id))
  BY <1>1, ReplicateIsReceived
<1>3. /\ Received(c, text, id).users = c.users
      /\ DOMAIN Received(c, text, id).messages = DOMAIN c.messages \cup {id}
      /\ Received(c, text, id).next = IF id \in DOMAIN c.messages THEN c.next ELSE c.next + 1
  BY DEF Received
<1> QED
  BY <1>2, <1>3, ChanWith
=============================================================================
