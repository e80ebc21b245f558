---------------------------- MODULE MCChatServer ----------------------------
(* ChatServer on small instances: the commands clients may send, per scenario. *)
EXTENDS ChatServer, TLC

MCUsers == {"alice", "bob"}
MCChannels == {"#a", "#b"}

Ask(op, user, channel) ==
  [op |-> op, user |-> user, channel |-> channel, limit |-> 0, offset |-> 0]
Get(channel, limit, offset) ==
  [op |-> "history", user |-> "alice", channel |-> channel, limit |-> limit,
   offset |-> offset]

\* alice's client joins two channels, sends, and may vanish; another connection
\* registers bob, or logs in as alice too, sends or goes; an HTTP client registers bob
\* too, takes alice out of a channel, or reads its history in two pages.
ChatCommands ==
  "c1" :> {Ask("login", "alice", "#a"), Ask("join", "alice", "#a"),
           Ask("join", "alice", "#b"), Ask("send", "alice", "#a")}
  @@ "c2" :> {Ask("register", "bob", "#a"), Ask("login", "alice", "#a"),
              Ask("send", "alice", "#a"), Ask("logout", "alice", "#a"),
              Ask("quit", "alice", "#a")}
  @@ "h" :> {Ask("register", "bob", "#a"), Ask("leave", "alice", "#a"),
             Ask("names", "alice", "#a"), Get("#a", 1, 0), Get("#a", 2, 1)}
ChatBudget == "c1" :> 3 @@ "c2" :> 2 @@ "h" :> 2
=============================================================================
