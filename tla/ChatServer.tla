----------------------------- MODULE ChatServer -----------------------------
(***************************************************************************)
(* pa1, the chat on one server: the state of pa1/server/src/stateops.rs,   *)
(* used at the same time by one task per TCP connection (tcp_handlers.rs)  *)
(* and by HTTP handlers (http_handlers.rs).                                *)
(*                                                                         *)
(* The state has one mutex, but an operation takes it several times: it    *)
(* asks whether the user and the channel exist in critical sections of     *)
(* their own and acts in another. Each action below is one section, or the *)
(* code between two reads of a socket. Texts are left out, and names are   *)
(* valid.                                                                  *)
(***************************************************************************)
EXTENDS Naturals, Sequences

CONSTANTS Users, Channels,
          Conns,          \* TCP connections
          Https,          \* HTTP clients; each sends one request at a time
          Commands,       \* [Conns \cup Https -> sets of commands they may send]
          MaxCommands,    \* bound: [Conns \cup Https -> Nat], commands sent
          Registered,     \* users registered before the run
          NoUser

Agents == Conns \cup Https
NoCommand == [op |-> "none"]

Ops == {"register", "login", "logout", "join", "leave", "send", "names", "list",
        "history", "quit"}
Command == [op : Ops, user : Users, channel : Channels, limit : Nat, offset : Nat]

ASSUME ChatServerAssumption ==
  /\ NoUser \notin Users
  /\ Registered \subseteq Users
  /\ Conns \cap Https = {}
  /\ MaxCommands \in [Agents -> Nat]
  /\ Commands \in [Agents -> SUBSET Command]
  /\ \A h \in Https : \A k \in Commands[h] : k.op \notin {"login", "logout", "quit"}
  /\ \A c \in Conns : \A k \in Commands[c] : k.offset = 0

VARIABLES users,            \* AppState: the registered names,
          channels,         \*   the channels there are,
          members,          \*   per channel its users
          messages,         \*   and its messages, each an id and a sender,
          user_channels,    \*   the channels of each user,
          next_message_id,  \*   and one counter for all channels
          login,            \* TcpServerStateInner.user of each connection
          client,           \* whether the client at the other end is still there
          pc, cmd,          \* what each task does, and the command it serves
          rest,             \* leave_all_channels: the channels still to be left
          sent,             \* commands each agent has sent
          registrations,    \* per name, how often the answer was "ok"
          meddled,          \* connections whose user another agent moved after the cut
          pages             \* the answers each agent had to its history commands

appState == <<users, channels, members, messages, user_channels, next_message_id>>
connVars == <<login, client, rest>>
history  == <<registrations, meddled, pages>>
vars == <<appState, connVars, pc, cmd, sent, history>>

TypeOK ==
  /\ users \subseteq Users
  /\ channels \subseteq Channels
  /\ members \in [Channels -> SUBSET users]
  /\ user_channels \in [Users -> SUBSET channels]
  /\ next_message_id \in Nat
  /\ messages \in [Channels -> Seq([id : Nat, user : Users])]
  /\ login \in [Conns -> users \cup {NoUser}]
  /\ client \in [Conns -> {"there", "gone"}]
  /\ rest \in [Conns -> SUBSET channels]
  /\ pc \in [Agents -> {"read", "new", "insert", "user", "channel", "act", "answer",
                        "gone", "copy", "leave", "closed", "panicked", "aborted",
                        "quit"}]
  /\ DOMAIN cmd = Agents
  /\ sent \in [Agents -> Nat]
  /\ registrations \in [Users -> Nat]
  /\ meddled \subseteq Conns

Init ==
  /\ users = Registered
  /\ channels = {}
  /\ members = [ch \in Channels |-> {}]
  /\ messages = [ch \in Channels |-> <<>>]
  /\ user_channels = [u \in Users |-> {}]
  /\ next_message_id = 0
  /\ login = [c \in Conns |-> NoUser]
  /\ client = [c \in Conns |-> "there"]
  /\ rest = [c \in Conns |-> {}]
  /\ pc = [a \in Agents |-> "read"]
  /\ cmd = [a \in Agents |-> NoCommand]
  /\ sent = [a \in Agents |-> 0]
  /\ registrations = [u \in Users |-> IF u \in Registered THEN 1 ELSE 0]
  /\ meddled = {}
  /\ pages = [a \in Agents |-> <<>>]

(***************************************************************************)
(* Commands and answers                                                    *)
(***************************************************************************)
\* The section a command starts with.
Start(op) == IF op = "register" THEN "new"
             ELSE IF op = "join" THEN "user"
             ELSE IF op = "names" THEN "act" ELSE "channel"

\* What a task does after its command: it answers, or goes on leaving channels.
Afterwards(a, ok) == IF cmd[a].op # "disconnect" THEN "answer"
                     ELSE IF ok THEN "leave" ELSE "panicked"

\* A connection acts in the name it has logged in with, if it has.
Name(a, k) == IF a \in Conns /\ k.op \in {"join", "leave", "send"} THEN login[a] ELSE k.user

Receives(a) ==
  /\ pc[a] = "read"
  /\ sent[a] < MaxCommands[a]
  /\ sent' = [sent EXCEPT ![a] = @ + 1]

\* A line of a connection, or an HTTP request. What the client had sent is read
\* even when the client has gone.
Begin(a) ==
  /\ Receives(a)
  /\ \E k \in Commands[a] :
       /\ k.op \notin {"login", "logout", "quit"}
       /\ IF Name(a, k) = NoUser
          THEN pc' = [pc EXCEPT ![a] = "answer"] /\ UNCHANGED cmd
          ELSE /\ pc' = [pc EXCEPT ![a] = Start(k.op)]
               /\ cmd' = [cmd EXCEPT ![a] = [k EXCEPT !.user = Name(a, k)]]
  /\ UNCHANGED <<appState, connVars, history>>

\* handle_login: refused if logged in already, or if the name is unknown.
Login(c) ==
  /\ Receives(c)
  /\ \E k \in Commands[c] :
       /\ k.op = "login"
       /\ login' = IF login[c] = NoUser /\ k.user \in users
                   THEN [login EXCEPT ![c] = k.user] ELSE login
  /\ pc' = [pc EXCEPT ![c] = "answer"]
  /\ UNCHANGED <<appState, client, rest, cmd, history>>

Logout(c) ==
  /\ Receives(c)
  /\ \E k \in Commands[c] : k.op = "logout"
  /\ login' = [login EXCEPT ![c] = NoUser]
  /\ pc' = [pc EXCEPT ![c] = "answer"]
  /\ UNCHANGED <<appState, client, rest, cmd, history>>

\* QUIT closes the socket. The user stays in its channels.
Quit(c) ==
  /\ Receives(c)
  /\ \E k \in Commands[c] : k.op = "quit"
  /\ pc' = [pc EXCEPT ![c] = "quit"]
  /\ UNCHANGED <<appState, connVars, cmd, history>>

\* The answer is written. A connection whose client has gone may find that out
\* here, and the unwrap of the write ends its task.
Answer(a) ==
  /\ pc[a] = "answer"
  /\ \/ pc' = [pc EXCEPT ![a] = "read"]
     \/ /\ a \in Conns /\ client[a] = "gone"
        /\ pc' = [pc EXCEPT ![a] = "aborted"]
  /\ cmd' = [cmd EXCEPT ![a] = NoCommand]
  /\ UNCHANGED <<appState, connVars, sent, history>>

(***************************************************************************)
(* The operations of stateops.rs                                           *)
(***************************************************************************)
\* create_user looks the name up, releases the lock, and inserts the name later.
CheckNew(a) ==
  /\ pc[a] = "new"
  /\ pc' = [pc EXCEPT ![a] = IF cmd[a].user \in users THEN "answer" ELSE "insert"]
  /\ UNCHANGED <<appState, connVars, cmd, sent, history>>

Insert(a) ==
  /\ pc[a] = "insert"
  /\ users' = users \cup {cmd[a].user}
  /\ user_channels' = [user_channels EXCEPT ![cmd[a].user] = {}]
  /\ registrations' = [registrations EXCEPT ![cmd[a].user] = @ + 1]
  /\ pc' = [pc EXCEPT ![a] = "answer"]
  /\ UNCHANGED <<channels, members, messages, next_message_id, connVars, cmd, sent,
                 meddled, pages>>

\* user_exists and channel_exists, each a section of its own.
CheckUser(a) ==
  /\ pc[a] = "user"
  /\ pc' = [pc EXCEPT ![a] = IF cmd[a].user \in users THEN "act" ELSE Afterwards(a, FALSE)]
  /\ UNCHANGED <<appState, connVars, cmd, sent, history>>

CheckChannel(a) ==
  /\ pc[a] = "channel"
  /\ pc' = [pc EXCEPT ![a] =
       IF cmd[a].channel \notin channels THEN Afterwards(a, FALSE)
       ELSE IF cmd[a].op \in {"list", "history"} THEN "act" ELSE "user"]
  /\ UNCHANGED <<appState, connVars, cmd, sent, history>>

Acts(a, ops) == pc[a] = "act" /\ cmd[a].op \in ops

\* The connections that have been cut, and whose user another agent now moves.
Cut(c) == pc[c] \in {"gone", "copy", "leave", "closed"} \/ cmd[c].op = "disconnect"
Meddles(a) == {c \in Conns \ {a} : Cut(c) /\ login[c] = cmd[a].user}

\* Mutant: the channel is made but not entered.
Join_NotEntered(a) ==
  /\ Acts(a, {"join"})
  /\ members' = [members EXCEPT ![cmd[a].channel] = @ \cup {cmd[a].user}]
  /\ user_channels' = [user_channels EXCEPT ![cmd[a].user] = @ \cup {cmd[a].channel}]
  /\ meddled' = meddled \cup Meddles(a)
  /\ pc' = [pc EXCEPT ![a] = "answer"]
  /\ UNCHANGED <<users, channels, messages, next_message_id, connVars, cmd, sent,
                 registrations, pages>>

\* Joining creates the channel if there is none.
Join(a) ==
  /\ Acts(a, {"join"})
  /\ LET u == cmd[a].user
         ch == cmd[a].channel
     IN /\ channels' = channels \cup {ch}
        /\ members' = [members EXCEPT ![ch] = @ \cup {u}]
        /\ user_channels' = IF u \in members[ch] THEN user_channels
                            ELSE [user_channels EXCEPT ![u] = @ \cup {ch}]
  /\ meddled' = meddled \cup Meddles(a)
  /\ pc' = [pc EXCEPT ![a] = "answer"]
  /\ UNCHANGED <<users, messages, next_message_id, connVars, cmd, sent, registrations,
                 pages>>

\* Mutant: user_channels is not told of a leave.
Leave_Unrecorded(a) ==
  /\ Acts(a, {"leave", "disconnect"})
  /\ members' = [members EXCEPT ![cmd[a].channel] = @ \ {cmd[a].user}]
  /\ meddled' = meddled \cup Meddles(a)
  /\ pc' = [pc EXCEPT ![a] = Afterwards(a, cmd[a].user \in members[cmd[a].channel])]
  /\ UNCHANGED <<users, channels, messages, user_channels, next_message_id, connVars,
                 cmd, sent, registrations, pages>>

\* Also for the task of a connection that has been cut, which unwraps the result.
Leave(a) ==
  /\ Acts(a, {"leave", "disconnect"})
  /\ LET u == cmd[a].user
         ch == cmd[a].channel
         member == u \in members[ch]
     IN /\ members' = [members EXCEPT ![ch] = @ \ {u}]
        /\ user_channels' = IF member THEN [user_channels EXCEPT ![u] = @ \ {ch}]
                            ELSE user_channels
        /\ pc' = [pc EXCEPT ![a] = Afterwards(a, member)]
  /\ meddled' = meddled \cup Meddles(a)
  /\ UNCHANGED <<users, channels, messages, next_message_id, connVars, cmd, sent,
                 registrations, pages>>

Send(a) ==
  /\ Acts(a, {"send"})
  /\ LET u == cmd[a].user
         ch == cmd[a].channel
     IN IF u \in members[ch]
        THEN /\ messages' = [messages EXCEPT ![ch] =
                               Append(@, [id |-> next_message_id, user |-> u])]
             /\ next_message_id' = next_message_id + 1
        ELSE UNCHANGED <<messages, next_message_id>>
  /\ pc' = [pc EXCEPT ![a] = "answer"]
  /\ UNCHANGED <<users, channels, members, user_channels, connVars, cmd, sent, history>>

\* get_users, get_channels and list_channel_users change nothing.
List(a) ==
  /\ Acts(a, {"names", "list"})
  /\ pc' = [pc EXCEPT ![a] = "answer"]
  /\ UNCHANGED <<appState, connVars, cmd, sent, history>>

\* Mutant: the offset counts pages.
Page_Numbered(ms, limit, offset) ==
  LET left == IF offset * limit < Len(ms) THEN Len(ms) - offset * limit ELSE 0
  IN [i \in 1 .. (IF limit < left THEN limit ELSE left) |-> ms[left + 1 - i]]

\* The messages, newest first, without the first "offset", and at most "limit".
Page(ms, limit, offset) ==
  LET left == IF offset < Len(ms) THEN Len(ms) - offset ELSE 0
  IN [i \in 1 .. (IF limit < left THEN limit ELSE left) |-> ms[left + 1 - i]]

History(a) ==
  /\ Acts(a, {"history"})
  /\ LET k == cmd[a]
         page == Page(messages[k.channel], k.limit, k.offset)
     IN pages' = [pages EXCEPT ![a] =
          Append(@, [channel |-> k.channel, offset |-> k.offset, limit |-> k.limit,
                     there |-> Len(messages[k.channel]),
                     ids |-> [i \in DOMAIN page |-> page[i].id]])]
  /\ pc' = [pc EXCEPT ![a] = "answer"]
  /\ UNCHANGED <<appState, connVars, cmd, sent, registrations, meddled>>

(***************************************************************************)
(* A client that goes away                                                 *)
(***************************************************************************)
Vanish(c) ==
  /\ client[c] = "there"
  /\ pc[c] \notin {"closed", "panicked", "aborted", "quit"}
  /\ client' = [client EXCEPT ![c] = "gone"]
  /\ UNCHANGED <<appState, login, rest, pc, cmd, sent, history>>

\* Mutant: a failed read only closes the connection.
EndOfFile_Closes(c) ==
  /\ pc[c] = "read"
  /\ client[c] = "gone"
  /\ pc' = [pc EXCEPT ![c] = "closed"]
  /\ UNCHANGED <<appState, connVars, cmd, sent, history>>

\* The read ends, or fails when the keepalive does: handle_unexpected_close.
EndOfFile(c) ==
  /\ pc[c] = "read"
  /\ client[c] = "gone"
  /\ pc' = [pc EXCEPT ![c] = IF login[c] = NoUser THEN "closed" ELSE "gone"]
  /\ UNCHANGED <<appState, connVars, cmd, sent, history>>

\* leave_all_channels: user_exists,
KnowsUser(c) ==
  /\ pc[c] = "gone"
  /\ pc' = [pc EXCEPT ![c] = IF login[c] \in users THEN "copy" ELSE "closed"]
  /\ UNCHANGED <<appState, connVars, cmd, sent, history>>

\* a copy of the user's channels,
CopyChannels(c) ==
  /\ pc[c] = "copy"
  /\ rest' = [rest EXCEPT ![c] = user_channels[login[c]]]
  /\ pc' = [pc EXCEPT ![c] = "leave"]
  /\ UNCHANGED <<appState, login, client, cmd, sent, history>>

\* and leave_channel for each of them, in the order of a hash set.
LeaveNext(c) ==
  /\ pc[c] = "leave"
  /\ \E ch \in rest[c] :
       /\ rest' = [rest EXCEPT ![c] = @ \ {ch}]
       /\ cmd' = [cmd EXCEPT ![c] = [op |-> "disconnect", user |-> login[c],
                                     channel |-> ch, limit |-> 0, offset |-> 0]]
       /\ pc' = [pc EXCEPT ![c] = "channel"]
  /\ UNCHANGED <<appState, login, client, sent, history>>

LeftAll(c) ==
  /\ pc[c] = "leave"
  /\ rest[c] = {}
  /\ pc' = [pc EXCEPT ![c] = "closed"]
  /\ UNCHANGED <<appState, connVars, cmd, sent, history>>

-----------------------------------------------------------------------------
Task(a) ==
  \/ Answer(a)
  \/ CheckNew(a) \/ Insert(a) \/ CheckUser(a) \/ CheckChannel(a)
  \/ Join(a) \/ Leave(a) \/ Send(a) \/ List(a) \/ History(a)

Disconnect(c) == EndOfFile(c) \/ KnowsUser(c) \/ CopyChannels(c) \/ LeaveNext(c) \/ LeftAll(c)

Next ==
  \/ \E a \in Agents : Begin(a) \/ Task(a)
  \/ \E c \in Conns : Login(c) \/ Logout(c) \/ Quit(c) \/ Vanish(c) \/ Disconnect(c)

Spec == Init /\ [][Next]_vars

-----------------------------------------------------------------------------
(***************************************************************************)
(* Properties                                                              *)
(***************************************************************************)
\* The two records of who is where agree: AppState keeps them apart, and every
\* channel a user is said to be in has the user as a member. The other direction
\* can only be lost by registering one name twice, in two overlapping requests:
\* the second resets user_channels (stateops.rs:71-76).
MembershipAgrees ==
  \A u \in Users : \A ch \in Channels :
    /\ ch \in user_channels[u] => u \in members[ch]
    /\ u \in members[ch] /\ registrations[u] <= 1 => ch \in user_channels[u]

\* "must remove user from all channels" (handle_unexpected_close): a user whose
\* connection is cut is in no channel once the task of the connection has ended,
\* and the unwrap of leave_all_channels succeeds, unless another agent moves the
\* same user meanwhile or the name was registered twice.
CutUserLeaves ==
  \A c \in Conns \ meddled : login[c] # NoUser =>
    /\ pc[c] # "panicked"
    /\ pc[c] = "closed" /\ registrations[login[c]] <= 1 =>
         \A ch \in Channels : login[c] \notin members[ch]

\* A client that pages through a history while others send, each page starting
\* where the last one ended, has been given every message that was there when it
\* began once a page comes back short.
Paging(ps) ==
  /\ ps[1].offset = 0
  /\ \A i \in 1 .. Len(ps) - 1 : /\ ps[i + 1].channel = ps[i].channel
                                 /\ ps[i + 1].offset = ps[i].offset + Len(ps[i].ids)
  /\ Len(ps[Len(ps)].ids) < ps[Len(ps)].limit

PagingMissesNothing ==
  \A a \in Agents : \A i, j \in DOMAIN pages[a] :
    LET ps == SubSeq(pages[a], i, j)
        given == UNION {{ps[n].ids[m] : m \in DOMAIN ps[n].ids} : n \in DOMAIN ps}
    IN i <= j /\ Paging(ps) =>
         \A n \in 1 .. ps[1].there : messages[ps[1].channel][n].id \in given
=============================================================================
