---------------------------- MODULE DiscordState ----------------------------
(***************************************************************************)
(* The state one server keeps (AppState in pa2/src/discord_stateops.rs)    *)
(* and the operations on it. Each operation below is one critical section  *)
(* under the state's mutex; the checks an operation makes in a separate    *)
(* critical section, or by asking another server, are steps of Replication.*)
(* Names are valid, texts are opaque, and a message id is its number.      *)
(***************************************************************************)
EXTENDS Naturals, Functions

\* A channel: members, the messages by id, and the id the next one will get.
NewChannel == [users |-> {}, messages |-> [i \in {} |-> i], next |-> 0]

\* What an operation leaves behind, and its StateResult: a code, and the ids,
\* texts or names it returns.
Effect(st, code, value) == [state |-> st, result |-> [code |-> code, value |-> value]]

ChannelExists(st, ch) == ch \in DOMAIN st.channels
UserExists(st, u) == u \in st.users

WithChannel(st, ch, channel) ==
  [st EXCEPT !.channels = [c \in DOMAIN st.channels \cup {ch} |->
                             IF c = ch THEN channel ELSE st.channels[c]]]

\* Mutant: whether the name was new is not looked at.
CreateUser_Ignores(st, u) == Effect([st EXCEPT !.users = @ \cup {u}], "OK", {})

CreateUser(st, u) ==
  IF UserExists(st, u)
  THEN Effect(st, "DUPLICATE_USER", {})
  ELSE Effect([st EXCEPT !.users = @ \cup {u}], "OK", {})

\* Mutant: the user that creates a channel does not become a member.
JoinChannel_OnlyCreates(st, u, ch) ==
  IF ~ChannelExists(st, ch) THEN Effect(WithChannel(st, ch, NewChannel), "OK", {})
  ELSE IF u \in st.channels[ch].users THEN Effect(st, "ALREADY_MEMBER", {})
  ELSE Effect(WithChannel(st, ch, [st.channels[ch] EXCEPT !.users = @ \cup {u}]), "OK", {})

\* A channel that does not exist is created by the first user that joins.
JoinChannel(st, u, ch) ==
  LET channel == IF ChannelExists(st, ch) THEN st.channels[ch] ELSE NewChannel
  IN IF u \in channel.users
     THEN Effect(st, "ALREADY_MEMBER", {})
     ELSE Effect(WithChannel(st, ch, [channel EXCEPT !.users = @ \cup {u}]), "OK", {})

\* Mutant: a channel that nobody is in any more is removed.
LeaveChannel_Prunes(st, u, ch) ==
  IF u \notin st.channels[ch].users
  THEN Effect(st, "NOT_A_MEMBER", {})
  ELSE Effect(IF st.channels[ch].users = {u}
              THEN [st EXCEPT !.channels = [c \in DOMAIN st.channels \ {ch} |-> st.channels[c]]]
              ELSE WithChannel(st, ch, [st.channels[ch] EXCEPT !.users = @ \ {u}]), "OK", {})

\* The caller has found that the channel exists; channels are never removed.
LeaveChannel(st, u, ch) ==
  IF u \notin st.channels[ch].users
  THEN Effect(st, "NOT_A_MEMBER", {})
  ELSE Effect(WithChannel(st, ch, [st.channels[ch] EXCEPT !.users = @ \ {u}]), "OK", {})

ListChannelUsers(st, ch) ==
  IF ~ChannelExists(st, ch)
  THEN Effect(st, "UNKNOWN_CHANNEL", {})
  ELSE Effect(st, "OK", st.channels[ch].users)

\* BTreeSet::insert: messages are ordered, and equal, by id alone, so a message
\* whose id is taken is not inserted.
Insert(channel, id, text) ==
  IF id \in DOMAIN channel.messages
  THEN channel
  ELSE [channel EXCEPT !.messages = [i \in DOMAIN channel.messages \cup {id} |->
                                       IF i = id THEN text ELSE channel.messages[i]]]

\* The caller has found that the channel exists.
SendMessage(st, u, ch, text) ==
  LET channel == st.channels[ch]
      id == channel.next
  IN IF u \notin channel.users
     THEN Effect(st, "NOT_A_MEMBER", {})
     ELSE Effect(WithChannel(st, ch, Insert([channel EXCEPT !.next = id + 1], id, text)),
                 "OK", {id})

\* Mutant: the replica numbers the message itself.
ReplicateSendMessage_OwnId(st, ch, text, id) ==
  LET channel == st.channels[ch]
  IN Effect(WithChannel(st, ch, Insert([channel EXCEPT !.next = @ + 1], channel.next, text)),
            "OK", {id})

\* The replica takes the id it is given, and counts what it has inserted. The
\* channel must exist: the code unwraps it.
ReplicateSendMessage(st, ch, text, id) ==
  LET channel == st.channels[ch]
      did_insert == IF id \in DOMAIN channel.messages THEN 0 ELSE 1
  IN Effect(WithChannel(st, ch, [Insert(channel, id, text) EXCEPT !.next = @ + did_insert]),
            "OK", {id})

\* The texts of a channel that fits in one page.
GetMessages(st, ch) ==
  IF ~ChannelExists(st, ch)
  THEN Effect(st, "UNKNOWN_CHANNEL", {})
  ELSE Effect(st, "OK", Range(st.channels[ch].messages))

(***************************************************************************)
(* What an operation may not do                                            *)
(***************************************************************************)
\* A channel keeps its messages under their ids, and its ids do not go back.
ChannelGrows(c, d) ==
  /\ DOMAIN c.messages \subseteq DOMAIN d.messages
  /\ \A i \in DOMAIN c.messages : d.messages[i] = c.messages[i]
  /\ c.next <= d.next

\* A server keeps its users, its channels and what is in them.
Grows(st, tt) ==
  /\ st.users \subseteq tt.users
  /\ DOMAIN st.channels \subseteq DOMAIN tt.channels
  /\ \A ch \in DOMAIN st.channels : ChannelGrows(st.channels[ch], tt.channels[ch])
=============================================================================
