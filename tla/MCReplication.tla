--------------------------- MODULE MCReplication ---------------------------
(* Replication on small instances: which requests clients send, per scenario. *)
(* #cs249 and #new belong to A (primary) and B (backup); #new does not exist  *)
(* at startup. alice belongs to C and A, bob to B and C.                      *)
EXTENDS Replication, TLC

MCUsers == {"alice", "bob"}
MCChannels == {"#cs249", "#new"}
MCHash == "alice" :> 2 @@ "bob" :> 1 @@ "#cs249" :> 0 @@ "#new" :> 0
MCPreset == {"#cs249"}
Alice == {<<"alice", "#cs249">>}
Both == {"alice", "bob"} \X {"#cs249"}

Ask(id, op, user, channel, at, after) ==
  [id |-> id, op |-> op, user |-> user, channel |-> channel, at |-> at, after |-> after]

\* Two clients register one name; its owner creates a channel, talks in it, and
\* leaves it. Meanwhile two messages are sent elsewhere and one is read back, and
\* their sender tries the new channel.
Ordinary == {Ask(1, "create_user", "bob", "#new", "B", {}),
             Ask(2, "create_user", "bob", "#new", "C", {}),
             Ask(3, "join_channel", "bob", "#new", "C", {1, 2}),
             Ask(4, "send_message", "bob", "#new", "A", {1, 2, 3}),
             Ask(5, "leave_channel", "bob", "#new", "B", {1, 2, 3, 4}),
             Ask(6, "list_channel_users", "bob", "#new", "C", {3, 5}),
             Ask(7, "send_message", "alice", "#cs249", "C", {}),
             Ask(8, "send_message", "alice", "#cs249", "B", {}),
             Ask(9, "get_messages", "alice", "#cs249", "B", {7}),
             Ask(10, "join_channel", "alice", "#new", "C", {9}),
             Ask(11, "get_channels", "bob", "#new", "C", {6, 8, 10})}
\* The client of the first message may go away.
Fickle == {r \in Ordinary : r.id = 4}

\* A server may crash while two clients register one name, the user joins and
\* sends, and a message of another user is sent and read back.
OneCrash == {Ask(1, "create_user", "bob", "#cs249", "C", {}),
             Ask(2, "create_user", "bob", "#cs249", "A", {}),
             Ask(3, "join_channel", "bob", "#cs249", "C", {1, 2}),
             Ask(4, "send_message", "bob", "#cs249", "C", {1, 3}),
             Ask(5, "send_message", "alice", "#cs249", "A", {1, 2}),
             Ask(6, "get_messages", "alice", "#cs249", "C", {5}),
             Ask(7, "get_users", "bob", "#cs249", "A", {1, 2, 4, 6})}

\* The backup may crash while messages are sent.
BackupCrash == {Ask(1, "send_message", "alice", "#cs249", "C", {}),
                Ask(2, "send_message", "alice", "#cs249", "A", {}),
                Ask(3, "leave_channel", "bob", "#cs249", "C", {1}),
                Ask(4, "get_messages", "alice", "#cs249", "C", {2})}
\* One of their senders may go away.
Leaver == {r \in BackupCrash : r.id = 2}

\* Two sends under way when the primary crashes, and one after.
Takeover == {Ask(1, "send_message", "alice", "#cs249", "A", {}),
             Ask(2, "send_message", "alice", "#cs249", "C", {}),
             Ask(3, "send_message", "alice", "#cs249", "C", {2})}

\* One registration, sent to a server that owns nothing of the name.
OneUser == {Ask(1, "create_user", "bob", "#cs249", "A", {})}

\* A channel is created, and one user's client sends to it before the join is answered.
NewChannelSend == {Ask(1, "join_channel", "alice", "#new", "A", {}),
                   Ask(2, "send_message", "alice", "#new", "A", {})}
=============================================================================
