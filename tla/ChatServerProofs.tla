--------------------------- MODULE ChatServerProofs ---------------------------
(***************************************************************************)
(* pa1's records of who is in which channel agree, a client that is cut    *)
(* off leaves its channels, and one that pages through a history is given  *)
(* all of it, for any number of connections, HTTP clients, users, channels *)
(* and commands.                                                           *)
(***************************************************************************)
EXTENDS ChatServer, SequenceTheorems, TLAPS

(***************************************************************************)
(* What MembershipAgrees and CutUserLeaves rest on                         *)
(***************************************************************************)
\* A task that works on a command has one, leave_all_channels works for the user of
\* its connection, on a channel that exists, and what acts for a user has seen it.
Served(a) ==
  /\ pc[a] \in {"new", "insert", "user", "channel", "act"} =>
       /\ cmd[a].user \in Users /\ cmd[a].channel \in Channels
       /\ cmd[a].op \in Ops \cup {"disconnect"}
  /\ pc[a] = "act" /\ cmd[a].op \in {"join", "leave", "send", "disconnect"} =>
       cmd[a].user \in users
  /\ cmd[a].op = "disconnect" =>
       /\ a \in Conns
       /\ pc[a] \in {"channel", "user", "act", "leave", "closed", "panicked"}
       /\ cmd[a].user = login[a]
       /\ cmd[a].channel \in channels
  /\ a \in Conns /\ pc[a] \in {"gone", "copy", "leave", "panicked"} => login[a] # NoUser
  /\ pc[a] \in {"leave", "panicked"} => a \in Conns

CommandsServed == \A a \in Agents : Served(a)

\* Names are counted as they are registered.
RegistrationsCounted == \A u \in users : registrations[u] >= 1

\* While a cut connection leaves, it still has to leave the channels its user is in.
Leaving(c) == \/ pc[c] \in {"leave", "closed"}
              \/ pc[c] \in {"channel", "user", "act"} /\ cmd[c].op = "disconnect"
Remaining(c) ==
  rest[c] \cup (IF pc[c] \in {"channel", "user", "act"} THEN {cmd[c].channel} ELSE {})

LeavesAll(c) ==
  login[c] # NoUser =>
    /\ pc[c] # "panicked"
    /\ pc[c] = "closed" => rest[c] = {}
    /\ pc[c] \in {"channel", "user", "act"} /\ Leaving(c) => cmd[c].channel \notin rest[c]
    /\ Leaving(c) => \A ch \in Remaining(c) : login[c] \in members[ch]
    /\ Leaving(c) /\ registrations[login[c]] <= 1 =>
         \A ch \in Channels : login[c] \in members[ch] => ch \in Remaining(c)

CutConnectionsLeave == \A c \in Conns \ meddled : LeavesAll(c)

IInv ==
  /\ TypeOK /\ CommandsServed /\ RegistrationsCounted /\ MembershipAgrees
  /\ CutConnectionsLeave

-----------------------------------------------------------------------------
(***************************************************************************)
(* The inductive invariant holds initially                                 *)
(***************************************************************************)
\* AppState::new, with the users registered before the run.
LEMMA Initially == Init => IInv
<1> SUFFICES ASSUME Init PROVE IInv
  OBVIOUS
<1> USE ChatServerAssumption DEF Init
<1>1. TypeOK
  BY DEF TypeOK, Agents
<1>2. CommandsServed
  BY DEF CommandsServed, Served, Agents, NoCommand
<1>3. RegistrationsCounted
  <2>1. ASSUME NEW u \in users
        PROVE  registrations[u] = 1
    <3>1. u \in Registered /\ u \in Users
      BY <2>1
    <3> QED
      BY <3>1
  <2> HIDE ChatServerAssumption DEF Init
  <2> QED
    BY <2>1 DEF RegistrationsCounted
<1>4. MembershipAgrees
  BY DEF MembershipAgrees
<1>5. CutConnectionsLeave
  BY DEF CutConnectionsLeave, LeavesAll
<1> QED
  BY <1>1, <1>2, <1>3, <1>4, <1>5 DEF IInv

(***************************************************************************)
(* Types                                                                   *)
(***************************************************************************)
\* Reading a command counts it.
LEMMA ReceivesType ==
  ASSUME TypeOK, NEW a \in Agents, Receives(a)
  PROVE  pc[a] = "read" /\ sent' \in [Agents -> Nat]
<1>1. sent \in [Agents -> Nat] /\ sent' = [sent EXCEPT ![a] = sent[a] + 1]
  BY DEF TypeOK, Receives
<1>2. sent[a] + 1 \in Nat
  BY <1>1
<1> QED
  BY <1>1, <1>2 DEF Receives

\* Every section keeps the types, channels have registered users as members, and
\* users are in channels that exist.
LEMMA TypeStep ==
  ASSUME TypeOK, CommandsServed, [Next]_vars
  PROVE  TypeOK'
<1> USE ChatServerAssumption DEF appState, connVars, history, Agents
<1>1. ASSUME NEW a \in Agents, Begin(a)
      PROVE  TypeOK'
  <2>1. sent' \in [Agents -> Nat]
    BY <1>1, ReceivesType DEF Begin
  <2>2. pc' \in [Agents -> {"read", "new", "insert", "user", "channel", "act", "answer",
                            "gone", "copy", "leave", "closed", "panicked", "aborted",
                            "quit"}]
    BY <1>1 DEF TypeOK, Begin, Start
  <2> QED
    BY <1>1, <2>1, <2>2 DEF TypeOK, Begin
<1>2. ASSUME NEW a \in Agents, Answer(a)
      PROVE  TypeOK'
  BY <1>2 DEF TypeOK, Answer
<1>3. ASSUME NEW a \in Agents, CheckNew(a)
      PROVE  TypeOK'
  BY <1>3 DEF TypeOK, CheckNew
<1>4. ASSUME NEW a \in Agents, Insert(a)
      PROVE  TypeOK'
  BY <1>4 DEF TypeOK, Insert, CommandsServed, Served
<1>5. ASSUME NEW a \in Agents, CheckUser(a)
      PROVE  TypeOK'
  BY <1>5 DEF TypeOK, CheckUser, Afterwards
<1>6. ASSUME NEW a \in Agents, CheckChannel(a)
      PROVE  TypeOK'
  BY <1>6 DEF TypeOK, CheckChannel, Afterwards
<1>7. ASSUME NEW a \in Agents, Join(a)
      PROVE  TypeOK'
  BY <1>7 DEF TypeOK, Join, Acts, Meddles, CommandsServed, Served
<1>8. ASSUME NEW a \in Agents, Leave(a)
      PROVE  TypeOK'
  BY <1>8 DEF TypeOK, Leave, Acts, Meddles, Afterwards, CommandsServed, Served
<1>9. ASSUME NEW a \in Agents, Send(a)
      PROVE  TypeOK'
  <2>1. cmd[a].user \in Users /\ cmd[a].channel \in Channels
    BY <1>9 DEF Send, Acts, CommandsServed, Served
  <2>2. next_message_id' \in Nat
    BY <1>9 DEF TypeOK, Send
  <2>3. messages' \in [Channels -> Seq([id : Nat, user : Users])]
    <3>1. CASE UNCHANGED messages
      BY <3>1 DEF TypeOK
    <3>2. CASE messages' = [messages EXCEPT ![cmd[a].channel] =
                 Append(messages[cmd[a].channel],
                        [id |-> next_message_id, user |-> cmd[a].user])]
      <4> DEFINE m == [id |-> next_message_id, user |-> cmd[a].user]
      <4>1. m \in [id : Nat, user : Users]
        BY <2>1 DEF TypeOK
      <4> HIDE DEF m
      <4>2. Append(messages[cmd[a].channel], m) \in Seq([id : Nat, user : Users])
        <5>1. messages[cmd[a].channel] \in Seq([id : Nat, user : Users])
          BY <2>1 DEF TypeOK
        <5> QED
          BY <4>1, <5>1, AppendProperties
      <4>3. messages' = [messages EXCEPT ![cmd[a].channel] =
                           Append(messages[cmd[a].channel], m)]
        BY <3>2 DEF m
      <4> QED
        BY <4>2, <4>3 DEF TypeOK
    <3> QED
      BY <1>9, <3>1, <3>2 DEF Send
  <2> QED
    BY <1>9, <2>2, <2>3 DEF TypeOK, Send, Acts
<1>10. ASSUME NEW a \in Agents, List(a)
       PROVE  TypeOK'
  BY <1>10 DEF TypeOK, List, Acts
<1>11. ASSUME NEW a \in Agents, History(a)
       PROVE  TypeOK'
  BY <1>11 DEF TypeOK, History, Acts
<1>12. ASSUME NEW c \in Conns, Login(c)
       PROVE  TypeOK'
  BY <1>12, ReceivesType DEF TypeOK, Login
<1>13. ASSUME NEW c \in Conns, Logout(c)
       PROVE  TypeOK'
  BY <1>13, ReceivesType DEF TypeOK, Logout
<1>14. ASSUME NEW c \in Conns, Quit(c)
       PROVE  TypeOK'
  BY <1>14, ReceivesType DEF TypeOK, Quit
<1>15. ASSUME NEW c \in Conns, Vanish(c)
       PROVE  TypeOK'
  BY <1>15 DEF TypeOK, Vanish
<1>16. ASSUME NEW c \in Conns, EndOfFile(c)
       PROVE  TypeOK'
  BY <1>16 DEF TypeOK, EndOfFile
<1>17. ASSUME NEW c \in Conns, KnowsUser(c)
       PROVE  TypeOK'
  BY <1>17 DEF TypeOK, KnowsUser
<1>18. ASSUME NEW c \in Conns, CopyChannels(c)
       PROVE  TypeOK'
  BY <1>18 DEF TypeOK, CopyChannels, CommandsServed, Served
<1>19. ASSUME NEW c \in Conns, LeaveNext(c)
       PROVE  TypeOK'
  <2>1. rest' \in [Conns -> SUBSET channels]
    BY <1>19 DEF TypeOK, LeaveNext
  <2>2. pc' \in [Agents -> {"read", "new", "insert", "user", "channel", "act", "answer",
                            "gone", "copy", "leave", "closed", "panicked", "aborted",
                            "quit"}]
    BY <1>19 DEF TypeOK, LeaveNext
  <2> QED
    BY <1>19, <2>1, <2>2 DEF TypeOK, LeaveNext
<1>20. ASSUME NEW c \in Conns, LeftAll(c)
       PROVE  TypeOK'
  BY <1>20 DEF TypeOK, LeftAll
<1>21. CASE UNCHANGED vars
  BY <1>21 DEF TypeOK, vars
<1> QED
  BY <1>1, <1>2, <1>3, <1>4, <1>5, <1>6, <1>7, <1>8, <1>9, <1>10, <1>11, <1>12, <1>13,
     <1>14, <1>15, <1>16, <1>17, <1>18, <1>19, <1>20, <1>21
     DEF Next, Task, Disconnect

\* Where a task is in its command fits the command.
LEMMA ServedStep ==
  ASSUME TypeOK, CommandsServed, [Next]_vars
  PROVE  CommandsServed'
<1> USE ChatServerAssumption DEF appState, connVars, history, Agents, CommandsServed, Served
<1>1. ASSUME NEW a \in Agents, Begin(a)
      PROVE  CommandsServed'
  <2>1. pc[a] = "read"
    BY <1>1 DEF Begin, Receives
  <2>2. PICK k \in Commands[a] :
          /\ k.op \notin {"login", "logout", "quit"}
          /\ IF Name(a, k) = NoUser
             THEN pc' = [pc EXCEPT ![a] = "answer"] /\ UNCHANGED cmd
             ELSE /\ pc' = [pc EXCEPT ![a] = Start(k.op)]
                  /\ cmd' = [cmd EXCEPT ![a] = [k EXCEPT !.user = Name(a, k)]]
    BY <1>1 DEF Begin
  <2>3. k \in Command
    BY <2>2
  <2>4. UNCHANGED <<users, channels, login>>
    BY <1>1 DEF Begin
  <2>5. CASE Name(a, k) = NoUser
    BY <2>1, <2>2, <2>4, <2>5 DEF TypeOK
  <2>6. CASE Name(a, k) # NoUser
    <3> DEFINE c == [k EXCEPT !.user = Name(a, k)]
    <3>1. Name(a, k) \in Users
      BY <2>3, <2>6 DEF TypeOK, Name, Command
    <3>2. c.user \in Users /\ c.channel \in Channels /\ c.op = k.op /\ c.op \in Ops
      BY <2>3, <3>1 DEF Command
    <3>3. "disconnect" \notin Ops
      BY DEF Ops
    <3> HIDE DEF c
    <3>4. pc' = [pc EXCEPT ![a] = Start(k.op)] /\ cmd' = [cmd EXCEPT ![a] = c]
      BY <2>2, <2>6 DEF c
    <3>5. ASSUME NEW b \in Agents
          PROVE  Served(b)'
      <4>1. CASE b = a
        BY <2>1, <2>4, <3>2, <3>3, <3>4, <4>1 DEF TypeOK, Start
      <4>2. CASE b # a
        BY <2>4, <3>4, <4>2 DEF TypeOK
      <4> QED
        BY <4>1, <4>2
    <3> QED
      BY <3>5
  <2> QED
    BY <2>5, <2>6
<1>2. ASSUME NEW a \in Agents, Answer(a)
      PROVE  CommandsServed'
  BY <1>2 DEF TypeOK, Answer, NoCommand
<1>3. ASSUME NEW a \in Agents, CheckNew(a)
      PROVE  CommandsServed'
  BY <1>3 DEF TypeOK, CheckNew
<1>4. ASSUME NEW a \in Agents, Insert(a)
      PROVE  CommandsServed'
  BY <1>4 DEF TypeOK, Insert
<1>5. ASSUME NEW a \in Agents, CheckUser(a)
      PROVE  CommandsServed'
  BY <1>5 DEF TypeOK, CheckUser, Afterwards
<1>6. ASSUME NEW a \in Agents, CheckChannel(a)
      PROVE  CommandsServed'
  BY <1>6 DEF TypeOK, CheckChannel, Afterwards
<1>7. ASSUME NEW a \in Agents, Join(a)
      PROVE  CommandsServed'
  BY <1>7 DEF TypeOK, Join, Acts
<1>8. ASSUME NEW a \in Agents, Leave(a)
      PROVE  CommandsServed'
  BY <1>8 DEF TypeOK, Leave, Acts, Afterwards
<1>9. ASSUME NEW a \in Agents, Send(a)
      PROVE  CommandsServed'
  BY <1>9 DEF TypeOK, Send, Acts
<1>10. ASSUME NEW a \in Agents, List(a)
       PROVE  CommandsServed'
  BY <1>10 DEF TypeOK, List, Acts
<1>11. ASSUME NEW a \in Agents, History(a)
       PROVE  CommandsServed'
  BY <1>11 DEF TypeOK, History, Acts
<1>12. ASSUME NEW c \in Conns, Login(c)
       PROVE  CommandsServed'
  BY <1>12 DEF TypeOK, Login, Receives
<1>13. ASSUME NEW c \in Conns, Logout(c)
       PROVE  CommandsServed'
  BY <1>13 DEF TypeOK, Logout, Receives
<1>14. ASSUME NEW c \in Conns, Quit(c)
       PROVE  CommandsServed'
  BY <1>14 DEF TypeOK, Quit, Receives
<1>15. ASSUME NEW c \in Conns, Vanish(c)
       PROVE  CommandsServed'
  BY <1>15 DEF TypeOK, Vanish
<1>16. ASSUME NEW c \in Conns, EndOfFile(c)
       PROVE  CommandsServed'
  BY <1>16 DEF TypeOK, EndOfFile
<1>17. ASSUME NEW c \in Conns, KnowsUser(c)
       PROVE  CommandsServed'
  BY <1>17 DEF TypeOK, KnowsUser
<1>18. ASSUME NEW c \in Conns, CopyChannels(c)
       PROVE  CommandsServed'
  BY <1>18 DEF TypeOK, CopyChannels
<1>19. ASSUME NEW c \in Conns, LeaveNext(c)
       PROVE  CommandsServed'
  <2>1. PICK ch \in rest[c] :
          /\ cmd' = [cmd EXCEPT ![c] = [op |-> "disconnect", user |-> login[c],
                                        channel |-> ch, limit |-> 0, offset |-> 0]]
          /\ pc' = [pc EXCEPT ![c] = "channel"]
    BY <1>19 DEF LeaveNext
  <2> DEFINE k == [op |-> "disconnect", user |-> login[c], channel |-> ch,
                   limit |-> 0, offset |-> 0]
  <2>2. /\ k.op = "disconnect" /\ k.user = login[c] /\ k.channel \in channels
        /\ k.user \in Users /\ k.channel \in Channels
    BY <1>19 DEF LeaveNext, TypeOK
  <2>3. cmd' = [cmd EXCEPT ![c] = k]
    BY <2>1
  <2> HIDE DEF k
  <2>4. UNCHANGED <<users, channels, login>>
    BY <1>19 DEF LeaveNext
  <2> QED
    BY <2>1, <2>2, <2>3, <2>4 DEF TypeOK
<1>20. ASSUME NEW c \in Conns, LeftAll(c)
       PROVE  CommandsServed'
  BY <1>20 DEF TypeOK, LeftAll
<1>21. CASE UNCHANGED vars
  BY <1>21 DEF TypeOK, vars
<1> QED
  BY <1>1, <1>2, <1>3, <1>4, <1>5, <1>6, <1>7, <1>8, <1>9, <1>10, <1>11, <1>12, <1>13,
     <1>14, <1>15, <1>16, <1>17, <1>18, <1>19, <1>20, <1>21
     DEF Next, Task, Disconnect

(***************************************************************************)
(* Who is in which channel                                                 *)
(***************************************************************************)
\* Three sections change who is in a channel or how often a name was registered.
LEMMA OthersChangeNothing ==
  ASSUME [Next]_vars, \A a \in Agents : ~Insert(a) /\ ~Join(a) /\ ~Leave(a)
  PROVE  UNCHANGED <<users, members, user_channels, registrations, meddled>>
<1> USE DEF appState, connVars, history
<1>1. CASE \E a \in Agents : Begin(a) \/ Task(a)
  BY <1>1 DEF Task, Begin, Answer, CheckNew, CheckUser, CheckChannel, Send, List, History
<1>2. CASE \E c \in Conns : Login(c) \/ Logout(c) \/ Quit(c) \/ Vanish(c) \/ Disconnect(c)
  BY <1>2 DEF Login, Logout, Quit, Vanish, Disconnect, EndOfFile, KnowsUser, CopyChannels,
              LeaveNext, LeftAll
<1>3. CASE UNCHANGED vars
  BY <1>3 DEF vars
<1> QED
  BY <1>1, <1>2, <1>3 DEF Next

\* create_user counts the name it inserts.
LEMMA CountedStep ==
  ASSUME TypeOK, CommandsServed, RegistrationsCounted, [Next]_vars
  PROVE  RegistrationsCounted'
<1>1. CASE \A a \in Agents : ~Insert(a) /\ ~Join(a) /\ ~Leave(a)
  BY <1>1, OthersChangeNothing DEF RegistrationsCounted
<1>2. ASSUME NEW a \in Agents, Insert(a)
      PROVE  RegistrationsCounted'
  <2> DEFINE u == cmd[a].user
  <2>1. u \in Users
    BY <1>2 DEF Insert, CommandsServed, Served
  <2>2. /\ users' = users \cup {u}
        /\ registrations' = [registrations EXCEPT ![u] = registrations[u] + 1]
    BY <1>2 DEF Insert
  <2> HIDE DEF u
  <2>3. registrations[u] \in Nat /\ registrations'[u] = registrations[u] + 1
    BY <2>1, <2>2 DEF TypeOK
  <2>4. registrations'[u] >= 1
    BY <2>3
  <2>5. \A v \in users : v # u => registrations'[v] = registrations[v]
    BY <2>2 DEF TypeOK
  <2> QED
    BY <2>2, <2>4, <2>5 DEF RegistrationsCounted
<1>3. ASSUME NEW a \in Agents, Join(a) \/ Leave(a)
      PROVE  RegistrationsCounted'
  BY <1>3 DEF Join, Leave, RegistrationsCounted
<1> QED
  BY <1>1, <1>2, <1>3

\* The first registration of a name finds it in no channel, whatever came between
\* the look and the insertion.
LEMMA FirstRegistration ==
  ASSUME TypeOK, RegistrationsCounted, NEW u \in Users, registrations[u] + 1 <= 1
  PROVE  \A ch \in Channels : u \notin members[ch]
<1>1. registrations[u] \in Nat
  BY DEF TypeOK
<1>2. u \notin users
  BY <1>1 DEF RegistrationsCounted
<1> QED
  BY <1>2 DEF TypeOK

\* Joining and leaving keep both records, and creating a user resets the one that
\* was empty.
LEMMA MembershipStep ==
  ASSUME TypeOK, CommandsServed, RegistrationsCounted, MembershipAgrees, [Next]_vars
  PROVE  MembershipAgrees'
<1>1. CASE \A a \in Agents : ~Insert(a) /\ ~Join(a) /\ ~Leave(a)
  BY <1>1, OthersChangeNothing DEF MembershipAgrees
<1>2. ASSUME NEW a \in Agents, Insert(a)
      PROVE  MembershipAgrees'
  <2> DEFINE u == cmd[a].user
  <2>1. u \in Users
    BY <1>2 DEF Insert, CommandsServed, Served
  <2>2. /\ user_channels' = [user_channels EXCEPT ![u] = {}]
        /\ registrations' = [registrations EXCEPT ![u] = registrations[u] + 1]
        /\ members' = members
    BY <1>2 DEF Insert
  <2> HIDE DEF u
  <2>3. user_channels'[u] = {} /\ registrations'[u] = registrations[u] + 1
    BY <2>1, <2>2 DEF TypeOK
  <2>4. \A v \in Users : v # u => /\ user_channels'[v] = user_channels[v]
                                 /\ registrations'[v] = registrations[v]
    BY <2>2 DEF TypeOK
  <2>5. registrations'[u] <= 1 => \A ch \in Channels : u \notin members[ch]
    BY <2>1, <2>3, FirstRegistration
  <2> QED
    BY <2>2, <2>3, <2>4, <2>5 DEF MembershipAgrees
<1>3. ASSUME NEW a \in Agents, Join(a)
      PROVE  MembershipAgrees'
  <2> DEFINE u == cmd[a].user
             c == cmd[a].channel
  <2>1. u \in Users /\ c \in Channels
    BY <1>3 DEF Join, Acts, CommandsServed, Served
  <2>2. /\ members' = [members EXCEPT ![c] = members[c] \cup {u}]
        /\ user_channels' = IF u \in members[c] THEN user_channels
                            ELSE [user_channels EXCEPT ![u] = user_channels[u] \cup {c}]
        /\ registrations' = registrations
    BY <1>3 DEF Join
  <2> HIDE DEF u, c
  <2>3. CASE u \in members[c]
    BY <2>1, <2>2, <2>3 DEF MembershipAgrees, TypeOK
  <2>4. CASE u \notin members[c]
    BY <2>1, <2>2, <2>4 DEF MembershipAgrees, TypeOK
  <2> QED
    BY <2>3, <2>4
<1>4. ASSUME NEW a \in Agents, Leave(a)
      PROVE  MembershipAgrees'
  <2> DEFINE u == cmd[a].user
             c == cmd[a].channel
  <2>1. u \in Users /\ c \in Channels
    BY <1>4 DEF Leave, Acts, CommandsServed, Served
  <2>2. /\ members' = [members EXCEPT ![c] = members[c] \ {u}]
        /\ user_channels' = IF u \in members[c]
                            THEN [user_channels EXCEPT ![u] = user_channels[u] \ {c}]
                            ELSE user_channels
        /\ registrations' = registrations
    BY <1>4 DEF Leave
  <2> HIDE DEF u, c
  <2>3. CASE u \in members[c]
    BY <2>1, <2>2, <2>3 DEF MembershipAgrees, TypeOK
  <2>4. CASE u \notin members[c]
    BY <2>1, <2>2, <2>4 DEF MembershipAgrees, TypeOK
  <2> QED
    BY <2>3, <2>4
<1> QED
  BY <1>1, <1>2, <1>3, <1>4

(***************************************************************************)
(* A connection that was cut                                               *)
(***************************************************************************)
\* What other agents do leaves a cut connection alone, unless they move its user.
LEMMA CutOther ==
  ASSUME TypeOK, CommandsServed, RegistrationsCounted,
         NEW c \in Conns, c \notin meddled', LeavesAll(c),
         pc'[c] = pc[c], cmd'[c] = cmd[c], rest'[c] = rest[c], login'[c] = login[c],
         \/ UNCHANGED <<members, registrations>>
         \/ \E a \in Agents : Insert(a)
         \/ \E a \in Agents \ {c} : Join(a) \/ Leave(a)
  PROVE  LeavesAll(c)'
<1> SUFFICES ASSUME login[c] # NoUser
             PROVE  LeavesAll(c)'
  BY DEF LeavesAll
<1>0. login[c] \in users /\ login[c] \in Users
  BY DEF TypeOK
<1>1. Leaving(c)' = Leaving(c) /\ Remaining(c)' = Remaining(c)
  BY DEF Leaving, Remaining
<1>2. CASE UNCHANGED <<members, registrations>>
  BY <1>1, <1>2 DEF LeavesAll
<1>3. ASSUME NEW a \in Agents, Insert(a)
      PROVE  LeavesAll(c)'
  <2>1. cmd[a].user \in Users
    BY <1>3 DEF Insert, CommandsServed, Served
  <2>2. /\ members' = members
        /\ registrations' = [registrations EXCEPT ![cmd[a].user] =
                               registrations[cmd[a].user] + 1]
    BY <1>3 DEF Insert
  <2>3. CASE cmd[a].user # login[c]
    <3>1. registrations'[login[c]] = registrations[login[c]]
      BY <1>0, <2>1, <2>2, <2>3 DEF TypeOK
    <3> QED
      BY <1>1, <2>2, <3>1 DEF LeavesAll
  <2>4. CASE cmd[a].user = login[c]
    <3>1. /\ registrations[login[c]] \in Nat /\ registrations[login[c]] >= 1
          /\ registrations'[login[c]] = registrations[login[c]] + 1
      BY <1>0, <2>1, <2>2, <2>4 DEF TypeOK, RegistrationsCounted
    <3>2. ~(registrations'[login[c]] <= 1)
      BY <3>1
    <3> QED
      BY <1>1, <2>2, <3>2 DEF LeavesAll
  <2> QED
    BY <2>3, <2>4
<1>4. ASSUME NEW a \in Agents \ {c}, Join(a) \/ Leave(a)
      PROVE  LeavesAll(c)'
  <2>1. registrations' = registrations
    BY <1>4 DEF Join, Leave
  <2>2. CASE login[c] = cmd[a].user
    <3>1. ~Cut(c)
      BY <1>4, <2>2 DEF Join, Leave, Meddles
    <3>2. ~Leaving(c) /\ pc[c] # "closed"
      BY <3>1 DEF Cut, Leaving
    <3> QED
      BY <1>1, <3>2 DEF LeavesAll
  <2>3. CASE login[c] # cmd[a].user
    <3>0. \/ members' = [members EXCEPT ![cmd[a].channel] =
                           members[cmd[a].channel] \cup {cmd[a].user}]
          \/ members' = [members EXCEPT ![cmd[a].channel] =
                           members[cmd[a].channel] \ {cmd[a].user}]
      BY <1>4 DEF Join, Leave
    <3>1. \A ch \in Channels : login[c] \in members'[ch] <=> login[c] \in members[ch]
      <4>1. DOMAIN members = Channels
        BY DEF TypeOK
      <4>2. SUFFICES ASSUME NEW ch \in Channels
                     PROVE  login[c] \in members'[ch] <=> login[c] \in members[ch]
        OBVIOUS
      <4>3. \/ members'[ch] = members[ch]
            \/ members'[ch] = members[ch] \cup {cmd[a].user}
            \/ members'[ch] = members[ch] \ {cmd[a].user}
        BY <3>0, <4>1
      <4> QED
        BY <2>3, <4>3
    <3>2. Leaving(c) => Remaining(c) \subseteq Channels
      BY DEF Remaining, TypeOK, CommandsServed, Served, Agents
    <3> QED
      BY <1>1, <2>1, <3>1, <3>2 DEF LeavesAll
  <2> QED
    BY <2>2, <2>3
<1> QED
  BY <1>2, <1>3, <1>4

\* A task that does not leave channels, before or after, has nothing to keep.
LEMMA NotLeaving ==
  ASSUME NEW c \in Conns,
         pc'[c] \notin {"leave", "closed", "panicked"},
         pc'[c] \in {"channel", "user", "act"} => cmd'[c].op # "disconnect"
  PROVE  LeavesAll(c)'
BY DEF LeavesAll, Leaving

\* The connection's own steps: it takes the channels its user is in, and leaves them
\* one by one; each of them is there and has the user.
LEMMA CutOwn ==
  ASSUME TypeOK, CommandsServed, MembershipAgrees, NEW c \in Conns, LeavesAll(c),
         \/ Begin(c) \/ Task(c)
         \/ Login(c) \/ Logout(c) \/ Quit(c) \/ Vanish(c) \/ Disconnect(c)
  PROVE  LeavesAll(c)'
<1> USE ChatServerAssumption DEF appState, connVars, history
<1>a. /\ c \in Agents /\ Served(c)
      /\ login[c] # NoUser => login[c] \in users /\ login[c] \in Users
  BY DEF Agents, CommandsServed, TypeOK
<1>b. c \in DOMAIN pc /\ c \in DOMAIN cmd /\ c \in DOMAIN rest
  BY <1>a DEF TypeOK
<1>1. CASE Begin(c)
  <2>1. PICK k \in Commands[c] :
          IF Name(c, k) = NoUser
          THEN pc' = [pc EXCEPT ![c] = "answer"] /\ UNCHANGED cmd
          ELSE /\ pc' = [pc EXCEPT ![c] = Start(k.op)]
               /\ cmd' = [cmd EXCEPT ![c] = [k EXCEPT !.user = Name(c, k)]]
    BY <1>1 DEF Begin
  <2>2. k \in Command
    BY <1>a, <2>1
  <2>3. [k EXCEPT !.user = Name(c, k)].op = k.op /\ k.op # "disconnect"
    BY <2>2 DEF Command, Ops
  <2> DEFINE m == [k EXCEPT !.user = Name(c, k)]
  <2> HIDE DEF m
  <2>4. CASE Name(c, k) = NoUser
    BY <1>b, <2>1, <2>4, NotLeaving
  <2>5. CASE Name(c, k) # NoUser
    <3>1. pc'[c] = Start(k.op) /\ cmd'[c].op # "disconnect"
      BY <1>b, <2>1, <2>3, <2>5
    <3> QED
      BY <3>1, NotLeaving DEF Start
  <2> QED
    BY <2>4, <2>5
<1>2. CASE Answer(c) \/ CheckNew(c) \/ Insert(c) \/ Send(c) \/ List(c) \/ History(c)
  BY <1>2, <1>b, NotLeaving DEF Answer, CheckNew, Insert, Send, List, History
<1>3. CASE Join(c)
  BY <1>3, <1>b, NotLeaving DEF Join
<1>4. CASE CheckUser(c)
  <2>1. CASE cmd[c].op # "disconnect"
    BY <1>4, <1>b, <2>1, NotLeaving DEF CheckUser, Afterwards
  <2>2. CASE cmd[c].op = "disconnect"
    <3>1. CASE login[c] = NoUser
      BY <1>4, <3>1 DEF CheckUser, LeavesAll
    <3>2. CASE login[c] # NoUser
      <4>1. pc[c] = "user" /\ pc'[c] = "act" /\ cmd'[c] = cmd[c] /\ rest' = rest
        BY <1>4, <1>a, <1>b, <2>2, <3>2 DEF CheckUser, Served
      <4>2. Leaving(c) /\ Leaving(c)' /\ Remaining(c)' = Remaining(c)
        BY <2>2, <4>1 DEF Leaving, Remaining
      <4> QED
        BY <1>4, <4>1, <4>2 DEF CheckUser, LeavesAll
    <3> QED
      BY <3>1, <3>2
  <2> QED
    BY <2>1, <2>2
<1>5. CASE CheckChannel(c)
  <2>1. CASE cmd[c].op # "disconnect"
    BY <1>5, <1>b, <2>1, NotLeaving DEF CheckChannel, Afterwards
  <2>2. CASE cmd[c].op = "disconnect"
    <3>1. /\ pc[c] = "channel" /\ pc'[c] = "user" /\ cmd'[c] = cmd[c] /\ rest' = rest
      BY <1>5, <1>a, <1>b, <2>2 DEF CheckChannel, Served
    <3>2. Leaving(c) /\ Leaving(c)' /\ Remaining(c)' = Remaining(c)
      BY <2>2, <3>1 DEF Leaving, Remaining
    <3> QED
      BY <1>5, <3>1, <3>2 DEF CheckChannel, LeavesAll
  <2> QED
    BY <2>1, <2>2
<1>6. CASE Leave(c)
  <2>1. CASE cmd[c].op # "disconnect"
    BY <1>6, <1>b, <2>1, NotLeaving DEF Leave, Afterwards
  <2>2. CASE cmd[c].op = "disconnect"
    <3> SUFFICES ASSUME login[c] # NoUser
                 PROVE  LeavesAll(c)'
      BY <1>6 DEF Leave, LeavesAll
    <3> DEFINE ch == cmd[c].channel
    <3>1. /\ pc[c] = "act" /\ cmd[c].user = login[c] /\ ch \in Channels
          /\ login' = login /\ rest' = rest /\ registrations' = registrations
          /\ members' = [members EXCEPT ![ch] = members[ch] \ {login[c]}]
      BY <1>6, <1>a, <2>2 DEF Leave, Acts, Served
    <3>2. Leaving(c) /\ Remaining(c) = rest[c] \cup {ch}
      BY <2>2, <3>1 DEF Leaving, Remaining
    <3>3. login[c] \in members[ch] /\ ch \notin rest[c]
      BY <3>1, <3>2 DEF LeavesAll
    <3>4. pc'[c] = "leave"
      BY <1>6, <1>b, <2>2, <3>1, <3>3 DEF Leave, Afterwards
    <3>5. Remaining(c)' = rest[c]
      BY <3>1, <3>4 DEF Remaining
    <3>6. rest[c] \subseteq Channels
      BY DEF TypeOK
    <3>7. \A d \in Channels :
            login[c] \in members'[d] <=> d # ch /\ login[c] \in members[d]
      BY <3>1 DEF TypeOK
    <3>8. \A d \in rest[c] : login[c] \in members'[d]
      BY <3>2, <3>3, <3>6, <3>7 DEF LeavesAll
    <3>9. registrations[login[c]] <= 1 =>
            \A d \in Channels : login[c] \in members'[d] => d \in rest[c]
      BY <3>2, <3>7 DEF LeavesAll
    <3> HIDE DEF ch
    <3> QED
      BY <3>1, <3>4, <3>5, <3>8, <3>9 DEF LeavesAll
  <2> QED
    BY <2>1, <2>2
<1>7. CASE Login(c) \/ Logout(c) \/ Quit(c)
  BY <1>7, <1>b, NotLeaving DEF Login, Logout, Quit
<1>8. CASE Vanish(c)
  BY <1>8 DEF Vanish, LeavesAll, Leaving, Remaining
<1>9. CASE EndOfFile(c)
  <2>1. CASE login[c] = NoUser
    BY <1>9, <2>1 DEF EndOfFile, LeavesAll
  <2>2. CASE login[c] # NoUser
    BY <1>9, <1>b, <2>2, NotLeaving DEF EndOfFile
  <2> QED
    BY <2>1, <2>2
<1>10. CASE KnowsUser(c)
  <2>1. login[c] # NoUser
    BY <1>10, <1>a DEF KnowsUser, Served
  <2> QED
    BY <1>10, <1>a, <1>b, <2>1, NotLeaving DEF KnowsUser
<1>11. CASE CopyChannels(c)
  <2> SUFFICES ASSUME login[c] # NoUser
               PROVE  LeavesAll(c)'
    BY <1>11 DEF CopyChannels, LeavesAll
  <2>1. /\ pc'[c] = "leave" /\ rest'[c] = user_channels[login[c]]
        /\ UNCHANGED <<login, members, registrations>>
    BY <1>11, <1>b DEF CopyChannels
  <2>2. Remaining(c)' = user_channels[login[c]]
    BY <2>1 DEF Remaining
  <2>3. user_channels[login[c]] \subseteq Channels
    BY <1>a DEF TypeOK
  <2> QED
    BY <1>a, <2>1, <2>2, <2>3 DEF LeavesAll, MembershipAgrees
<1>12. CASE LeaveNext(c)
  <2> SUFFICES ASSUME login[c] # NoUser
               PROVE  LeavesAll(c)'
    BY <1>12 DEF LeaveNext, LeavesAll
  <2>1. PICK ch \in rest[c] :
          /\ rest' = [rest EXCEPT ![c] = rest[c] \ {ch}]
          /\ cmd' = [cmd EXCEPT ![c] = [op |-> "disconnect", user |-> login[c],
                                        channel |-> ch, limit |-> 0, offset |-> 0]]
          /\ pc' = [pc EXCEPT ![c] = "channel"]
    BY <1>12 DEF LeaveNext
  <2>2. /\ pc[c] = "leave" /\ pc'[c] = "channel" /\ cmd'[c].channel = ch
        /\ rest'[c] = rest[c] \ {ch}
        /\ UNCHANGED <<login, members, registrations>>
    BY <1>12, <1>b, <2>1 DEF LeaveNext
  <2>3. Leaving(c) /\ Remaining(c) = rest[c] /\ Remaining(c)' = rest[c]
    BY <2>2 DEF Leaving, Remaining
  <2> QED
    BY <2>2, <2>3 DEF LeavesAll
<1>13. CASE LeftAll(c)
  <2>1. /\ pc[c] = "leave" /\ pc'[c] = "closed" /\ rest[c] = {}
        /\ UNCHANGED <<rest, login, members, registrations>>
    BY <1>13, <1>b DEF LeftAll
  <2>2. Leaving(c) /\ Remaining(c) = {} /\ Remaining(c)' = {}
    BY <2>1 DEF Leaving, Remaining
  <2> QED
    BY <2>1, <2>2 DEF LeavesAll
<1> QED
  BY <1>1, <1>2, <1>3, <1>4, <1>5, <1>6, <1>7, <1>8, <1>9, <1>10, <1>11, <1>12, <1>13
     DEF Task, Disconnect

\* A step of one agent leaves the program counter, the command and the login of every
\* connection but its own.
LEMMA AgentsApart ==
  ASSUME TypeOK, NEW a \in Agents, NEW c \in Conns, c # a,
         \/ Begin(a) \/ Task(a)
         \/ a \in Conns /\ (Login(a) \/ Logout(a) \/ Quit(a) \/ Vanish(a) \/ Disconnect(a))
  PROVE  pc'[c] = pc[c] /\ cmd'[c] = cmd[c] /\ rest'[c] = rest[c] /\ login'[c] = login[c]
<1> USE DEF appState, connVars, history
<1>1. CASE Begin(a)
  BY SMTT(40), <1>1 DEF Begin, TypeOK, Agents
<1>2. CASE Task(a)
  BY <1>2 DEF Task, Answer, CheckNew, Insert, CheckUser, CheckChannel, Join, Leave, Send,
              List, History, TypeOK, Agents
<1>3. CASE a \in Conns /\ (Login(a) \/ Logout(a) \/ Quit(a) \/ Vanish(a))
  BY <1>3 DEF Login, Logout, Quit, Vanish, TypeOK, Agents
<1>4. CASE a \in Conns /\ Disconnect(a)
  BY <1>4 DEF Disconnect, EndOfFile, KnowsUser, CopyChannels, LeaveNext, LeftAll, TypeOK,
              Agents
<1> QED
  BY <1>1, <1>2, <1>3, <1>4

\* Joins and leaves only add to the connections that were meddled with.
LEMMA MeddledGrows ==
  ASSUME [Next]_vars
  PROVE  meddled \subseteq meddled'
<1>1. CASE \A a \in Agents : ~Insert(a) /\ ~Join(a) /\ ~Leave(a)
  BY <1>1, OthersChangeNothing
<1>2. CASE \E a \in Agents : Insert(a) \/ Join(a) \/ Leave(a)
  BY <1>2 DEF Insert, Join, Leave
<1> QED
  BY <1>1, <1>2

LEMMA CutStep ==
  ASSUME TypeOK, CommandsServed, RegistrationsCounted, MembershipAgrees,
         CutConnectionsLeave, [Next]_vars
  PROVE  CutConnectionsLeave'
<1> SUFFICES ASSUME NEW c \in Conns, c \notin meddled'
             PROVE  LeavesAll(c)'
  BY DEF CutConnectionsLeave
<1>1. LeavesAll(c)
  BY MeddledGrows DEF CutConnectionsLeave
<1>2. CASE UNCHANGED vars
  BY <1>1, <1>2 DEF vars, appState, connVars, history, LeavesAll, Leaving, Remaining
<1>3. CASE Next
  <2>1. PICK a \in Agents :
          \/ Begin(a) \/ Task(a)
          \/ a \in Conns /\ (Login(a) \/ Logout(a) \/ Quit(a) \/ Vanish(a) \/ Disconnect(a))
    BY <1>3 DEF Next, Agents
  <2>2. CASE a = c
    BY <1>1, <2>1, <2>2, CutOwn
  <2>3. CASE a # c
    <3>1. pc'[c] = pc[c] /\ cmd'[c] = cmd[c] /\ rest'[c] = rest[c] /\ login'[c] = login[c]
      BY <2>1, <2>3, AgentsApart
    <3>2. \/ UNCHANGED <<members, registrations>>
          \/ Insert(a) \/ Join(a) \/ Leave(a)
      <4> USE DEF appState, connVars, history
      <4>1. CASE Begin(a)
        BY <4>1 DEF Begin
      <4>2. CASE Task(a)
        BY <4>2 DEF Task, Answer, CheckNew, CheckUser, CheckChannel, Send, List, History
      <4>3. CASE Login(a) \/ Logout(a) \/ Quit(a) \/ Vanish(a)
        BY <4>3 DEF Login, Logout, Quit, Vanish
      <4>4. CASE Disconnect(a)
        BY <4>4 DEF Disconnect, EndOfFile, KnowsUser, CopyChannels, LeaveNext, LeftAll
      <4> QED
        BY <2>1, <4>1, <4>2, <4>3, <4>4
    <3> QED
      BY <1>1, <2>3, <3>1, <3>2, CutOther
  <2> QED
    BY <2>2, <2>3
<1> QED
  BY <1>2, <1>3

-----------------------------------------------------------------------------
(***************************************************************************)
(* The theorems                                                            *)
(***************************************************************************)
\* The invariant holds in every reachable state of pa1's server.
THEOREM Invariance == Spec => []IInv
<1>1. Init => IInv
  BY Initially
<1>2. IInv /\ [Next]_vars => IInv'
  BY TypeStep, ServedStep, CountedStep, MembershipStep, CutStep DEF IInv
<1> QED
  BY <1>1, <1>2, PTL DEF Spec

\* The state keeps its types: members are registered, and users are in channels that
\* exist (AppState).
THEOREM TypeCorrect == Spec => []TypeOK
<1>1. IInv => TypeOK
  BY DEF IInv
<1> QED
  BY <1>1, Invariance, PTL

\* The two records of who is where agree (AppState's channels and user_channels).
THEOREM RecordsAgree == Spec => []MembershipAgrees
<1>1. IInv => MembershipAgrees
  BY DEF IInv
<1> QED
  BY <1>1, Invariance, PTL

\* A connection that reads its end of file takes its user out of every channel, and the
\* unwrap of leave_all_channels succeeds, unless another client moves the user.
THEOREM CutConnectionsClean == Spec => []CutUserLeaves
<1>1. IInv => CutUserLeaves
  <2> SUFFICES ASSUME IInv, NEW c \in Conns \ meddled, login[c] # NoUser
               PROVE  /\ pc[c] # "panicked"
                      /\ pc[c] = "closed" /\ registrations[login[c]] <= 1 =>
                           \A ch \in Channels : login[c] \notin members[ch]
    BY DEF CutUserLeaves
  <2>1. LeavesAll(c)
    BY DEF IInv, CutConnectionsLeave
  <2>2. pc[c] = "closed" => Leaving(c) /\ Remaining(c) = rest[c]
    BY DEF Leaving, Remaining
  <2> QED
    BY <2>1, <2>2 DEF LeavesAll
<1> QED
  BY <1>1, Invariance, PTL

-----------------------------------------------------------------------------
(***************************************************************************)
(* What PagingMissesNothing rests on                                       *)
(***************************************************************************)
PageType == [channel : Channels, offset : Nat, limit : Nat, there : Nat, ids : Seq(Nat)]

\* A page was made of the messages that are there, of which there are only more later.
PageOK(p) ==
  /\ p.there <= Len(messages[p.channel])
  /\ Len(p.ids) = LET left == IF p.offset < p.there THEN p.there - p.offset ELSE 0
                  IN IF p.limit < left THEN p.limit ELSE left

\* Pages i to j, each of which starts where the last one ended.
Chained(ps, i, j) ==
  /\ ps[i].offset = 0
  /\ \A k \in i .. j - 1 : /\ ps[k + 1].channel = ps[k].channel
                           /\ ps[k + 1].offset = ps[k].offset + Len(ps[k].ids)

Given(ps, i, j, id) ==
  \E k \in i .. j : \E m \in 1 .. Len(ps[k].ids) : ps[k].ids[m] = id

\* Such pages are of one channel, and have given every message there was at the first, down
\* to where the last one ended.
Reaches(ps) ==
  \A i, j \in 1 .. Len(ps) : i <= j /\ Chained(ps, i, j) =>
    /\ ps[j].channel = ps[i].channel
    /\ \A n \in 1 .. ps[i].there :
         \/ Given(ps, i, j, messages[ps[i].channel][n].id)
         \/ n + ps[j].offset + Len(ps[j].ids) <= ps[j].there

Working == {"new", "insert", "user", "channel", "act"}

PagesOK ==
  /\ DOMAIN pages = Agents
  /\ \A a \in Agents :
       /\ pc[a] \in Working => cmd[a].limit \in Nat /\ cmd[a].offset \in Nat
       /\ pages[a] \in Seq(PageType)
       /\ \A i \in 1 .. Len(pages[a]) : PageOK(pages[a][i])
       /\ Reaches(pages[a])

LEMMA PagesInit == Init => PagesOK
<1> SUFFICES ASSUME Init PROVE PagesOK
  OBVIOUS
<1>1. pages = [a \in Agents |-> <<>>] /\ pc = [a \in Agents |-> "read"]
  BY DEF Init
<1>2. <<>> \in Seq(PageType) /\ Len(<<>>) = 0
  BY EmptySeq
<1> QED
  BY <1>1, <1>2 DEF PagesOK, Working, Reaches

\* Messages are only appended.
LEMMA MessagesStay ==
  ASSUME TypeOK, CommandsServed, [Next]_vars, NEW ch \in Channels
  PROVE  /\ Len(messages[ch]) \in Nat /\ Len(messages[ch]) <= Len(messages'[ch])
         /\ \A n \in 1 .. Len(messages[ch]) : messages'[ch][n] = messages[ch][n]
<1> DEFINE Message == [id : Nat, user : Users]
<1>1. messages \in [Channels -> Seq(Message)]
  BY DEF TypeOK
<1>2. CASE \E a \in Agents : Send(a)
  <2>1. PICK a \in Agents : Send(a)
    BY <1>2
  <2>2. cmd[a].user \in Users /\ next_message_id \in Nat
    BY <2>1 DEF TypeOK, Send, Acts, CommandsServed, Served
  <2> DEFINE m == [id |-> next_message_id, user |-> cmd[a].user]
  <2>3. m \in Message
    BY <2>2
  <2>4. \/ messages' = messages
        \/ messages' = [messages EXCEPT ![cmd[a].channel] = Append(messages[cmd[a].channel], m)]
    BY <2>1 DEF Send
  <2> HIDE DEF m, Message
  <2>5. messages'[ch] = messages[ch] \/ messages'[ch] = Append(messages[ch], m)
    BY <1>1, <2>4
  <2>6. /\ messages[ch] \in Seq(Message) /\ Len(messages[ch]) \in Nat
    BY <1>1, LenProperties
  <2> QED
    BY <2>3, <2>5, <2>6, AppendProperties
<1>3. CASE \A a \in Agents : ~Send(a)
  <2>1. messages' = messages
    <3> USE DEF appState, connVars, history
    <3>1. ASSUME NEW a \in Agents, Begin(a) \/ Task(a) PROVE messages' = messages
      BY <1>3, <3>1 DEF Begin, Task, Answer, CheckNew, Insert, CheckUser, CheckChannel, Join,
         Leave, List, History
    <3>2. ASSUME NEW c \in Conns,
                 Login(c) \/ Logout(c) \/ Quit(c) \/ Vanish(c) \/ Disconnect(c)
          PROVE  messages' = messages
      BY <3>2 DEF Login, Logout, Quit, Vanish, Disconnect, EndOfFile, KnowsUser, CopyChannels,
         LeaveNext, LeftAll
    <3>3. CASE UNCHANGED vars
      BY <3>3 DEF vars
    <3> QED
      BY <3>1, <3>2, <3>3 DEF Next
  <2>2. messages[ch] \in Seq(Message)
    BY <1>1
  <2> HIDE DEF Message
  <2> QED
    BY <2>1, <2>2, LenProperties
<1> QED
  BY <1>2, <1>3

\* Only a history command makes a page.
LEMMA PagesStay ==
  ASSUME [Next]_vars, \A a \in Agents : ~History(a)
  PROVE  pages' = pages
<1> USE DEF appState, connVars, history
<1>1. ASSUME NEW a \in Agents, Begin(a) \/ Task(a) PROVE pages' = pages
  BY <1>1 DEF Begin, Task, Answer, CheckNew, Insert, CheckUser, CheckChannel, Join, Leave, Send,
     List
<1>2. ASSUME NEW c \in Conns, Login(c) \/ Logout(c) \/ Quit(c) \/ Vanish(c) \/ Disconnect(c)
      PROVE  pages' = pages
  BY <1>2 DEF Login, Logout, Quit, Vanish, Disconnect, EndOfFile, KnowsUser, CopyChannels,
     LeaveNext, LeftAll
<1>3. CASE UNCHANGED vars
  BY <1>3 DEF vars
<1> QED
  BY <1>1, <1>2, <1>3 DEF Next

\* A command's limit and offset are numbers.
LEMMA AskedStep ==
  ASSUME TypeOK, [Next]_vars, NEW a \in Agents,
         pc[a] \in Working => cmd[a].limit \in Nat /\ cmd[a].offset \in Nat
  PROVE  pc'[a] \in Working => cmd'[a].limit \in Nat /\ cmd'[a].offset \in Nat
<1> USE DEF appState, connVars, history, Working
<1>0. DOMAIN pc = Agents /\ DOMAIN cmd = Agents /\ Conns \subseteq Agents
  BY DEF TypeOK, Agents
<1>1. ASSUME NEW b \in Agents, Begin(b)
      PROVE  pc'[a] \in Working => cmd'[a].limit \in Nat /\ cmd'[a].offset \in Nat
  <2>1. PICK k \in Commands[b] :
          IF Name(b, k) = NoUser
          THEN pc' = [pc EXCEPT ![b] = "answer"] /\ UNCHANGED cmd
          ELSE /\ pc' = [pc EXCEPT ![b] = Start(k.op)]
               /\ cmd' = [cmd EXCEPT ![b] = [k EXCEPT !.user = Name(b, k)]]
    BY <1>1 DEF Begin
  <2> DEFINE c == [k EXCEPT !.user = Name(b, k)]
  <2>2. k \in Command
    BY ChatServerAssumption
  <2>3. c.limit \in Nat /\ c.offset \in Nat
    BY <2>2 DEF Command
  <2> HIDE DEF c
  <2>4. \/ pc' = [pc EXCEPT ![b] = "answer"] /\ cmd' = cmd
        \/ pc' = [pc EXCEPT ![b] = Start(k.op)] /\ cmd' = [cmd EXCEPT ![b] = c]
    BY <2>1 DEF c
  <2> QED
    BY <1>0, <2>3, <2>4
<1>2. ASSUME NEW b \in Agents, Task(b)
      PROVE  pc'[a] \in Working => cmd'[a].limit \in Nat /\ cmd'[a].offset \in Nat
  <2>1. CASE Answer(b)
    BY <1>0, <2>1 DEF Answer
  <2>2. CASE CheckNew(b) \/ Insert(b) \/ CheckUser(b) \/ CheckChannel(b)
    BY <1>0, <2>2 DEF CheckNew, Insert, CheckUser, CheckChannel
  <2>3. CASE Join(b) \/ Leave(b) \/ Send(b) \/ List(b) \/ History(b)
    BY <1>0, <2>3 DEF Join, Leave, Send, List, History, Acts
  <2> QED
    BY <1>2, <2>1, <2>2, <2>3 DEF Task
<1>3. ASSUME NEW c \in Conns, Login(c) \/ Logout(c) \/ Quit(c) \/ Vanish(c) \/ Disconnect(c)
      PROVE  pc'[a] \in Working => cmd'[a].limit \in Nat /\ cmd'[a].offset \in Nat
  <2>1. CASE Login(c) \/ Logout(c) \/ Quit(c) \/ Vanish(c)
    BY <1>0, <2>1 DEF Login, Logout, Quit, Vanish
  <2>2. CASE EndOfFile(c) \/ KnowsUser(c) \/ CopyChannels(c) \/ LeftAll(c)
    BY <1>0, <2>2 DEF EndOfFile, KnowsUser, CopyChannels, LeftAll
  <2>3. CASE LeaveNext(c)
    <3> DEFINE k(ch) == [op |-> "disconnect", user |-> login[c], channel |-> ch, limit |-> 0,
                         offset |-> 0]
    <3>1. PICK ch : cmd' = [cmd EXCEPT ![c] = k(ch)]
      BY <2>3 DEF LeaveNext
    <3>2. k(ch).limit = 0 /\ k(ch).offset = 0 /\ pc'[a] = IF a = c THEN "channel" ELSE pc[a]
      BY <1>0, <2>3 DEF LeaveNext
    <3> HIDE DEF k
    <3> QED
      BY <1>0, <3>1, <3>2
  <2> QED
    BY <1>3, <2>1, <2>2, <2>3 DEF Disconnect
<1>4. CASE UNCHANGED vars
  BY <1>4 DEF vars
<1> QED
  BY <1>1, <1>2, <1>3, <1>4 DEF Next

\* The page that is made of a channel: what it gives, and where it ends.
LEMMA NewPage ==
  ASSUME TypeOK, NEW ch \in Channels, NEW limit \in Nat, NEW offset \in Nat
  PROVE  LET page == Page(messages[ch], limit, offset)
             p == [channel |-> ch, offset |-> offset, limit |-> limit,
                   there |-> Len(messages[ch]), ids |-> [i \in DOMAIN page |-> page[i].id]]
         IN /\ p \in PageType /\ PageOK(p)
            /\ \A n \in 1 .. Len(messages[ch]) : n + offset <= Len(messages[ch]) =>
                 \/ \E m \in 1 .. Len(p.ids) : p.ids[m] = messages[ch][n].id
                 \/ n + offset + Len(p.ids) <= Len(messages[ch])
<1> DEFINE ms == messages[ch]
           all == Len(ms)
           left == IF offset < all THEN all - offset ELSE 0
           size == IF limit < left THEN limit ELSE left
           page == Page(ms, limit, offset)
           ids == [i \in DOMAIN page |-> page[i].id]
           p == [channel |-> ch, offset |-> offset, limit |-> limit, there |-> all, ids |-> ids]
           Message == [id : Nat, user : Users]
<1>1. ms \in Seq(Message)
  BY DEF TypeOK
<1>2. all \in Nat /\ \A n \in 1 .. all : ms[n] \in Message
  <2> HIDE DEF Message, ms
  <2> QED
    BY <1>1, LenProperties, ElementOfSeq
<1>3. /\ left \in Nat /\ left <= all /\ size \in Nat /\ size <= left
      /\ size = limit \/ size = left
  <2> HIDE DEF ms, all
  <2> QED
    BY <1>2
<1>4. page = [i \in 1 .. size |-> ms[left + 1 - i]]
  BY DEF Page
<1>5. ids = [i \in 1 .. size |-> ms[left + 1 - i].id]
  <2> HIDE DEF page, size, ms, left
  <2> QED
    BY <1>4
<1>6. ids \in [1 .. size -> Nat]
  <2>1. ASSUME NEW i \in 1 .. size PROVE ms[left + 1 - i].id \in Nat
    <3>1. left + 1 - i \in 1 .. all
      <4> HIDE DEF ms, all, left, size
      <4> QED
        BY <1>2, <1>3
    <3> HIDE DEF ms, all, left, size
    <3> QED
      BY <1>2, <3>1
  <2> HIDE DEF ms, all, left, size, ids
  <2> QED
    BY <1>5, <2>1
<1>7. ids \in Seq(Nat) /\ Len(ids) = size
  <2> HIDE DEF ids, size
  <2>1. ids \in Seq(Nat)
    BY <1>3, <1>6, SeqDef
  <2>2. Len(ids) \in Nat /\ DOMAIN ids = 1 .. Len(ids) /\ DOMAIN ids = 1 .. size
    BY <1>6, <2>1, LenProperties
  <2>3. \A n \in Nat : n \in 1 .. Len(ids) <=> n \in 1 .. size
    BY <2>2
  <2>4. Len(ids) <= size /\ size <= Len(ids)
    <3>1. Len(ids) = 0 \/ Len(ids) \in 1 .. size
      BY <2>2, <2>3
    <3>2. size = 0 \/ size \in 1 .. Len(ids)
      BY <1>3, <2>3
    <3> QED
      BY <1>3, <2>2, <3>1, <3>2
  <2>5. Len(ids) = size
    <3> HIDE DEF left
    <3>1. size \in Nat /\ Len(ids) \in Nat
      BY <1>3, <2>2
    <3> QED
      BY <2>4, <3>1
  <2> QED
    BY <2>1, <2>5
<1>8. p \in PageType
  <2> HIDE DEF ids, ms, all
  <2> QED
    BY <1>2, <1>7 DEF PageType
<1>9. PageOK(p)
  <2> HIDE DEF ids
  <2> QED
    BY <1>2, <1>7 DEF PageOK
<1>10. ASSUME NEW n \in 1 .. all, n + offset <= all,
              \A m \in 1 .. Len(ids) : ids[m] # ms[n].id
       PROVE  n + offset + Len(ids) <= all
  <2> HIDE DEF ids, ms, all
  <2>1. offset < all /\ left = all - offset /\ n <= left
    BY <1>2, <1>10
  <2>2. ids[left + 1 - n] = ms[n].id \/ left + 1 - n \notin 1 .. size
    <3> HIDE DEF left, size
    <3>1. left + 1 - (left + 1 - n) = n
      BY <1>3
    <3> QED
      BY <1>5, <3>1
  <2>3. left + 1 - n \notin 1 .. size
    BY <1>7, <1>10, <2>2
  <2> HIDE DEF size, left
  <2>4. size < left + 1 - n
    BY <1>3, <2>1, <2>3
  <2> QED
    BY <1>2, <1>3, <1>7, <2>1, <2>4
<1> HIDE DEF ids, ms, all
<1> QED
  BY <1>8, <1>9, <1>10 DEF ids, ms, all

\* Messages that arrive change nothing in what was given.
LEMMA ReachesStays ==
  ASSUME TypeOK, CommandsServed, [Next]_vars, NEW ps \in Seq(PageType),
         \A i \in 1 .. Len(ps) : PageOK(ps[i]), Reaches(ps)
  PROVE  /\ \A i \in 1 .. Len(ps) : PageOK(ps[i])'
         /\ Reaches(ps)'
<1>1. ASSUME NEW i \in 1 .. Len(ps)
      PROVE  /\ ps[i].channel \in Channels /\ ps[i].there \in Nat
             /\ ps[i].there <= Len(messages[ps[i].channel])
             /\ Len(messages[ps[i].channel]) \in Nat
             /\ Len(messages[ps[i].channel]) <= Len(messages'[ps[i].channel])
             /\ \A n \in 1 .. ps[i].there :
                  messages'[ps[i].channel][n] = messages[ps[i].channel][n]
  <2>1. ps[i] \in PageType
    BY ElementOfSeq
  <2>2. ps[i].channel \in Channels /\ ps[i].there \in Nat
    BY <2>1 DEF PageType
  <2>3. /\ Len(messages[ps[i].channel]) \in Nat
        /\ Len(messages[ps[i].channel]) <= Len(messages'[ps[i].channel])
        /\ \A n \in 1 .. Len(messages[ps[i].channel]) :
             messages'[ps[i].channel][n] = messages[ps[i].channel][n]
    BY <2>2, MessagesStay
  <2>4. ps[i].there <= Len(messages[ps[i].channel])
    BY DEF PageOK
  <2> QED
    BY <2>2, <2>3, <2>4
<1>2. ASSUME NEW ch \in Channels PROVE Len(messages'[ch]) \in Int
  BY MessagesStay
<1>3. ASSUME NEW i \in 1 .. Len(ps) PROVE PageOK(ps[i])'
  BY <1>1, <1>2 DEF PageOK
<1>4. ASSUME NEW i \in 1 .. Len(ps), NEW j \in 1 .. Len(ps), i <= j, Chained(ps, i, j),
             NEW n \in 1 .. ps[i].there
      PROVE  \/ Given(ps, i, j, messages'[ps[i].channel][n].id)
             \/ n + ps[j].offset + Len(ps[j].ids) <= ps[j].there
  <2>1. messages'[ps[i].channel][n] = messages[ps[i].channel][n]
    BY <1>1
  <2> QED
    BY <1>4, <2>1 DEF Reaches
<1>5. \A i, j \in 1 .. Len(ps) : i <= j /\ Chained(ps, i, j) => ps[j].channel = ps[i].channel
  BY DEF Reaches
<1>6. Reaches(ps)'
  BY <1>4, <1>5 DEF Reaches, Given, Chained
<1> QED
  BY <1>3, <1>6

LEMMA Below ==
  \A n, offset, size, there, all \in Nat :
    1 <= n /\ n + offset + size <= there /\ there <= all =>
      n \in 1 .. all /\ n + (offset + size) <= all
OBVIOUS

\* One page more.
LEMMA ReachesFurther ==
  ASSUME TypeOK, CommandsServed, [Next]_vars, messages' = messages,
         NEW ps \in Seq(PageType), \A i \in 1 .. Len(ps) : PageOK(ps[i]), Reaches(ps),
         NEW p \in PageType, PageOK(p), p.there = Len(messages[p.channel]),
         \A n \in 1 .. p.there : n + p.offset <= p.there =>
           \/ \E m \in 1 .. Len(p.ids) : p.ids[m] = messages[p.channel][n].id
           \/ n + p.offset + Len(p.ids) <= p.there
  PROVE  Reaches(Append(ps, p))
<1> DEFINE qs == Append(ps, p)
           last == Len(ps) + 1
<1>1. /\ Len(ps) \in Nat /\ Len(qs) = last /\ qs[last] = p
      /\ \A i \in 1 .. Len(ps) : qs[i] = ps[i] /\ ps[i] \in PageType
  BY LenProperties, AppendProperties, ElementOfSeq
<1> HIDE DEF qs
<1> SUFFICES ASSUME NEW i \in 1 .. last, NEW j \in 1 .. last, i <= j, Chained(qs, i, j)
             PROVE  /\ qs[j].channel = qs[i].channel
                    /\ \A n \in 1 .. qs[i].there :
                         \/ Given(qs, i, j, messages[qs[i].channel][n].id)
                         \/ n + qs[j].offset + Len(qs[j].ids) <= qs[j].there
  BY <1>1 DEF Reaches, qs
<1> DEFINE id(n) == messages[qs[i].channel][n].id
<1>2. ASSUME NEW k \in 1 .. Len(ps), i <= k, k <= j
      PROVE  /\ qs[k].channel = qs[i].channel
             /\ \A n \in 1 .. qs[i].there :
                  \/ Given(qs, i, k, id(n))
                  \/ n + qs[k].offset + Len(qs[k].ids) <= qs[k].there
  <2>1. i \in 1 .. Len(ps) /\ k <= last /\ j <= last
    BY <1>1, <1>2
  <2>2. Chained(ps, i, k)
    <3>1. \A m \in i .. k - 1 : m \in i .. j - 1 /\ m \in 1 .. Len(ps) /\ m + 1 \in 1 .. Len(ps)
      BY <1>1, <1>2, <2>1
    <3>2. \A m \in i .. k - 1 : qs[m] = ps[m] /\ qs[m + 1] = ps[m + 1]
      BY <1>1, <3>1
    <3>3. qs[i] = ps[i]
      BY <1>1, <2>1
    <3>4. /\ qs[i].offset = 0
          /\ \A m \in i .. k - 1 : /\ qs[m + 1].channel = qs[m].channel
                                   /\ qs[m + 1].offset = qs[m].offset + Len(qs[m].ids)
      BY <3>1 DEF Chained
    <3> QED
      BY <3>2, <3>3, <3>4 DEF Chained
  <2>3. \A m \in i .. k : qs[m] = ps[m]
    <3>1. \A m \in i .. k : m \in 1 .. Len(ps)
      BY <1>1, <1>2, <2>1
    <3> QED
      BY <1>1, <3>1
  <2>4. i \in i .. k /\ k \in i .. k
    BY <1>1, <1>2, <2>1
  <2>5. /\ ps[k].channel = ps[i].channel
        /\ \A n \in 1 .. ps[i].there :
             \/ Given(ps, i, k, messages[ps[i].channel][n].id)
             \/ n + ps[k].offset + Len(ps[k].ids) <= ps[k].there
    BY <1>2, <2>1, <2>2 DEF Reaches
  <2>6. qs[i] = ps[i] /\ qs[k] = ps[k]
    BY <2>3, <2>4
  <2>7. \A n : Given(qs, i, k, id(n)) <=> Given(ps, i, k, messages[ps[i].channel][n].id)
    <3>1. \A n : id(n) = messages[ps[i].channel][n].id
      BY <2>6
    <3>2. \A x : Given(qs, i, k, x) <=> Given(ps, i, k, x)
      BY <2>3 DEF Given
    <3> HIDE DEF id
    <3> QED
      BY <3>1, <3>2
  <2> HIDE DEF id
  <2> QED
    BY <2>5, <2>6, <2>7
<1>3. CASE j # last
  <2>1. j \in 1 .. Len(ps)
    BY <1>1, <1>3
  <2> QED
    BY <1>1, <1>2, <2>1
<1>4. CASE j = last /\ i = last
  <2>1. p.offset = 0 /\ qs[i] = p /\ qs[j] = p /\ p.there \in Nat /\ i \in i .. j
    BY <1>1, <1>4 DEF Chained, PageType
  <2>2. ASSUME NEW n \in 1 .. p.there
        PROVE  \/ Given(qs, i, j, id(n))
               \/ n + p.offset + Len(p.ids) <= p.there
    <3>1. \/ \E m \in 1 .. Len(p.ids) : p.ids[m] = id(n)
          \/ n + p.offset + Len(p.ids) <= p.there
      BY <2>1
    <3> HIDE DEF id
    <3> QED
      BY <2>1, <3>1 DEF Given
  <2> QED
    BY <2>1, <2>2
<1>5. CASE j = last /\ i # last
  <2> DEFINE k == Len(ps)
  <2>1. k \in 1 .. Len(ps) /\ i <= k /\ k <= j /\ k \in i .. j - 1 /\ k + 1 = j /\ j \in i .. j
    BY <1>1, <1>5
  <2>2. /\ qs[j] = p /\ qs[k] = ps[k]
        /\ p.channel = qs[k].channel /\ p.offset = qs[k].offset + Len(qs[k].ids)
    BY <1>1, <1>5, <2>1 DEF Chained
  <2>3. p.channel = qs[i].channel
    BY SMTT(40), <1>2, <2>1, <2>2
  <2>4. /\ qs[k].there \in Nat /\ qs[k].offset \in Nat /\ Len(qs[k].ids) \in Nat
        /\ qs[k].there <= p.there /\ p.there \in Nat
    <3>1. qs[k] \in PageType /\ PageOK(qs[k])
      BY <2>1, <2>2, ElementOfSeq
    <3>2. qs[k].ids \in Seq(Nat)
      BY <3>1 DEF PageType
    <3>3. Len(qs[k].ids) \in Nat
      BY <3>2, LenProperties
    <3> QED
      BY <2>2, <3>1, <3>3 DEF PageType, PageOK
  <2>5. qs[i].there \in Nat
    <3> HIDE DEF k
    <3>1. i \in 1 .. Len(ps) /\ qs[i] = ps[i]
      BY <1>1, <1>5
    <3>2. qs[i] \in PageType
      BY <3>1, ElementOfSeq
    <3> QED
      BY <3>2 DEF PageType
  <2>6. ASSUME NEW n \in 1 .. qs[i].there
        PROVE  \/ Given(qs, i, j, id(n))
               \/ n + qs[j].offset + Len(qs[j].ids) <= qs[j].there
    <3>1. CASE Given(qs, i, k, id(n))
      <4>1. \A m \in i .. k : m \in i .. j
        BY <1>1, <2>1
      <4> HIDE DEF id, k
      <4> QED
        BY <3>1, <4>1 DEF Given
    <3>2. CASE n + qs[k].offset + Len(qs[k].ids) <= qs[k].there
      <4>1. n \in 1 .. p.there /\ n + p.offset <= p.there
        <5> HIDE DEF k
        <5>1. n \in Nat /\ 1 <= n
          BY <1>1, <2>5
        <5>2. n \in 1 .. p.there /\ n + (qs[k].offset + Len(qs[k].ids)) <= p.there
          BY <2>4, <3>2, <5>1, Below
        <5> QED
          BY <2>2, <5>2
      <4>2. \/ \E m \in 1 .. Len(p.ids) : p.ids[m] = id(n)
            \/ n + p.offset + Len(p.ids) <= p.there
        BY <2>3, <4>1
      <4> HIDE DEF id, k
      <4> QED
        BY <2>1, <2>2, <4>2 DEF Given
    <3> QED
      BY <1>2, <2>1, <3>1, <3>2
  <2> QED
    BY <2>2, <2>3, <2>6
<1> QED
  BY <1>3, <1>4, <1>5

\* A history command appends the page it made; any other step appends none.
LEMMA PagesStep ==
  ASSUME IInv, PagesOK, [Next]_vars
  PROVE  PagesOK'
<1>0. TypeOK /\ CommandsServed
  BY DEF IInv
<1>1. ASSUME NEW a \in Agents
      PROVE  pc'[a] \in Working => cmd'[a].limit \in Nat /\ cmd'[a].offset \in Nat
  BY <1>0, AskedStep DEF PagesOK
<1>2. ASSUME NEW a \in Agents, NEW ps, ps = pages[a]
      PROVE  /\ ps \in Seq(PageType)
             /\ \A i \in 1 .. Len(ps) : PageOK(ps[i])'
             /\ Reaches(ps)'
  <2>1. ps \in Seq(PageType) /\ Reaches(ps) /\ \A i \in 1 .. Len(ps) : PageOK(ps[i])
    BY <1>2 DEF PagesOK
  <2> QED
    BY <1>0, <2>1, ReachesStays
<1>3. CASE \A a \in Agents : ~History(a)
  <2>1. pages' = pages /\ DOMAIN pages = Agents
    BY <1>3, PagesStay DEF PagesOK
  <2>2. ASSUME NEW a \in Agents
        PROVE  /\ pages'[a] \in Seq(PageType) /\ Reaches(pages[a])'
               /\ \A i \in 1 .. Len(pages'[a]) : PageOK(pages[a][i])'
    <3>1. PICK ps : ps = pages[a]
      OBVIOUS
    <3>2. /\ ps \in Seq(PageType) /\ Reaches(ps)'
          /\ \A i \in 1 .. Len(ps) : PageOK(ps[i])'
      BY <1>2, <3>1
    <3>3. ps = pages'[a]
      BY <2>1, <3>1
    <3> QED
      BY <3>2, <3>3
  <2> QED
    BY <1>1, <2>1, <2>2 DEF PagesOK
<1>4. ASSUME NEW b \in Agents, History(b) PROVE PagesOK'
  <2> DEFINE k == cmd[b]
             page == Page(messages[k.channel], k.limit, k.offset)
             p == [channel |-> k.channel, offset |-> k.offset, limit |-> k.limit,
                   there |-> Len(messages[k.channel]),
                   ids |-> [i \in DOMAIN page |-> page[i].id]]
             ps == pages[b]
  <2>1. /\ pages' = [pages EXCEPT ![b] = Append(ps, p)]
        /\ messages' = messages /\ pc[b] = "act"
    BY <1>4 DEF History, Acts, appState
  <2>2. k.channel \in Channels /\ k.limit \in Nat /\ k.offset \in Nat
    BY <1>0, <2>1 DEF CommandsServed, Served, PagesOK, Working
  <2>3. /\ p \in PageType /\ PageOK(p)
        /\ p.channel = k.channel /\ p.offset = k.offset /\ p.there = Len(messages[k.channel])
        /\ \A n \in 1 .. Len(messages[k.channel]) :
             n + k.offset <= Len(messages[k.channel]) =>
               \/ \E m \in 1 .. Len(p.ids) : p.ids[m] = messages[k.channel][n].id
               \/ n + k.offset + Len(p.ids) <= Len(messages[k.channel])
    <3> HIDE DEF k
    <3> QED
      BY <1>0, <2>2, NewPage
  <2> HIDE DEF p, k
  <2>4. ps \in Seq(PageType) /\ Reaches(ps) /\ \A i \in 1 .. Len(ps) : PageOK(ps[i])
    BY DEF PagesOK
  <2> HIDE DEF ps
  <2>5. Reaches(Append(ps, p))
    <3>1. \A n \in 1 .. p.there : n + p.offset <= p.there =>
            \/ \E m \in 1 .. Len(p.ids) : p.ids[m] = messages[p.channel][n].id
            \/ n + p.offset + Len(p.ids) <= p.there
      BY <2>3
    <3> QED
      BY <1>0, <2>1, <2>3, <2>4, <3>1, ReachesFurther
  <2>6. /\ Append(ps, p) \in Seq(PageType)
        /\ \A i \in 1 .. Len(Append(ps, p)) : PageOK(Append(ps, p)[i])
    <3>1. Len(ps) \in Nat
      BY <2>4, LenProperties
    <3>2. /\ Append(ps, p) \in Seq(PageType) /\ Len(Append(ps, p)) = Len(ps) + 1
          /\ \A i \in 1 .. Len(ps) : Append(ps, p)[i] = ps[i]
          /\ Append(ps, p)[Len(ps) + 1] = p
      BY <2>3, <2>4, AppendProperties
    <3>3. \A i \in 1 .. Len(ps) + 1 : i \in 1 .. Len(ps) \/ i = Len(ps) + 1
      BY <3>1
    <3> QED
      BY <2>3, <2>4, <3>2, <3>3
  <2>7. \A x : (PageOK(x)' <=> PageOK(x)) /\ (Reaches(x)' <=> Reaches(x))
    BY <2>1 DEF PageOK, Reaches, Given, Chained
  <2>8. /\ DOMAIN pages = Agents /\ pages'[b] = Append(ps, p)
        /\ \A a \in Agents \ {b} : pages'[a] = pages[a]
    BY <2>1 DEF PagesOK
  <2>9. ASSUME NEW a \in Agents
        PROVE  /\ pages'[a] \in Seq(PageType) /\ Reaches(pages'[a])
               /\ \A i \in 1 .. Len(pages'[a]) : PageOK(pages'[a][i])
    BY <2>5, <2>6, <2>8 DEF PagesOK
  <2>10. ASSUME NEW a \in Agents
         PROVE  Reaches(pages[a])' /\ \A i \in 1 .. Len(pages'[a]) : PageOK(pages[a][i])'
    <3>1. PICK x : x = pages'[a]
      OBVIOUS
    <3>2. Reaches(x)' /\ \A i \in 1 .. Len(x) : PageOK(x[i])'
      BY <2>7, <2>9, <3>1
    <3> QED
      BY <3>1, <3>2
  <2> QED
    BY <1>1, <2>1, <2>8, <2>9, <2>10 DEF PagesOK
<1> QED
  BY <1>3, <1>4

LEMMA PagesInvariance == Spec => []PagesOK
<1>1. IInv /\ PagesOK /\ [Next]_vars => PagesOK'
  BY PagesStep
<1> QED
  BY <1>1, PagesInit, Invariance, PTL DEF Spec

\* A short page goes to the first message there is.
LEMMA ShortPageIsLast ==
  ASSUME NEW p \in PageType, PageOK(p), Len(p.ids) < p.limit, NEW n \in Nat, 1 <= n
  PROVE  ~ (n + p.offset + Len(p.ids) <= p.there)
<1>1. p.offset \in Nat /\ p.limit \in Nat /\ p.there \in Nat /\ p.ids \in Seq(Nat)
  BY DEF PageType
<1>2. Len(p.ids) \in Nat
  BY <1>1, LenProperties
<1>3. CASE p.offset < p.there
  <2>1. Len(p.ids) = p.there - p.offset
    BY <1>1, <1>2, <1>3 DEF PageOK
  <2> QED
    BY SMTT(40), <1>1, <1>2, <2>1
<1>4. CASE ~ (p.offset < p.there)
  BY <1>1, <1>2, <1>4
<1> QED
  BY <1>3, <1>4

\* A client that pages through a history, each page from where the last one ended, until one
\* is short, has been given every message there was when it began, whatever was sent
\* between its pages and however long they are.
THEOREM PagesComplete == Spec => []PagingMissesNothing
<1>1. PagesOK => PagingMissesNothing
  <2> SUFFICES ASSUME PagesOK, NEW a \in Agents, NEW i \in DOMAIN pages[a],
                      NEW j \in DOMAIN pages[a], i <= j, Paging(SubSeq(pages[a], i, j))
               PROVE  LET ps == SubSeq(pages[a], i, j)
                          given == UNION {{ps[k].ids[m] : m \in DOMAIN ps[k].ids} :
                                          k \in DOMAIN ps}
                      IN \A n \in 1 .. ps[1].there : messages[ps[1].channel][n].id \in given
    BY DEF PagingMissesNothing
  <2> DEFINE qs == pages[a]
             ps == SubSeq(qs, i, j)
             given == UNION {{ps[k].ids[m] : m \in DOMAIN ps[k].ids} : k \in DOMAIN ps}
  <2>1. /\ qs \in Seq(PageType) /\ Reaches(qs)
        /\ \A k \in 1 .. Len(qs) : PageOK(qs[k])
    BY DEF PagesOK
  <2>2. /\ Len(qs) \in Nat /\ i \in 1 .. Len(qs) /\ j \in 1 .. Len(qs)
        /\ \A k \in 1 .. Len(qs) : qs[k] \in PageType
    BY <2>1, LenProperties, ElementOfSeq
  <2> HIDE DEF qs
  <2>3. /\ ps \in Seq(PageType) /\ Len(ps) = j - i + 1
        /\ \A k \in 1 .. j - i + 1 : ps[k] = qs[i + k - 1]
    <3>1. i \in Int /\ j \in Int /\ \A k \in i .. j : k \in 1 .. Len(qs)
      BY <2>2
    <3>2. \A k \in i .. j : qs[k] \in PageType
      BY <2>2, <3>1
    <3> QED
      BY <3>1, <3>2, SubSeqProperties
  <2>4. Paging(ps)
    BY DEF qs
  <2> HIDE DEF ps
  <2>5. /\ DOMAIN ps = 1 .. j - i + 1 /\ ps[1] = qs[i] /\ ps[Len(ps)] = qs[j]
        /\ \A k \in i .. j : k - i + 1 \in DOMAIN ps /\ ps[k - i + 1] = qs[k]
    <3>1. DOMAIN ps = 1 .. Len(ps)
      BY <2>3, LenProperties
    <3>2. 1 \in 1 .. j - i + 1 /\ j - i + 1 \in 1 .. j - i + 1
      BY <2>2
    <3>3. i + 1 - 1 = i /\ i + (j - i + 1) - 1 = j
      BY <2>2
    <3>4. \A k \in i .. j : k - i + 1 \in 1 .. j - i + 1 /\ i + (k - i + 1) - 1 = k
      BY <2>2
    <3>5. ps[1] = qs[i]
      BY <2>3, <3>2, <3>3
    <3>6. ps[Len(ps)] = qs[j]
      BY <2>3, <3>2, <3>3
    <3>7. \A k \in i .. j : ps[k - i + 1] = qs[k]
      BY <2>3, <3>4
    <3> QED
      BY <2>3, <3>1, <3>4, <3>5, <3>6, <3>7
  <2>6. Chained(qs, i, j)
    <3>1. ASSUME NEW k \in i .. j - 1
          PROVE  /\ qs[k + 1].channel = qs[k].channel
                 /\ qs[k + 1].offset = qs[k].offset + Len(qs[k].ids)
      <4>1. /\ k - i + 1 \in 1 .. Len(ps) - 1 /\ k \in i .. j /\ k + 1 \in i .. j
            /\ (k - i + 1) + 1 = (k + 1) - i + 1
        BY <2>2, <2>3
      <4>2. ps[k - i + 1] = qs[k] /\ ps[(k - i + 1) + 1] = qs[k + 1]
        BY <2>5, <4>1
      <4>3. /\ ps[(k - i + 1) + 1].channel = ps[k - i + 1].channel
            /\ ps[(k - i + 1) + 1].offset = ps[k - i + 1].offset + Len(ps[k - i + 1].ids)
        BY <2>4, <4>1 DEF Paging
      <4> QED
        BY <4>2, <4>3
    <3>2. qs[i].offset = 0
      BY <2>4, <2>5 DEF Paging
    <3> QED
      BY <3>1, <3>2 DEF Chained
  <2>7. Len(qs[j].ids) < qs[j].limit
    BY <2>4, <2>5 DEF Paging
  <2>8. ASSUME NEW n \in 1 .. ps[1].there
        PROVE  messages[ps[1].channel][n].id \in given
    <3> DEFINE id == messages[ps[1].channel][n].id
    <3>1. n \in Nat /\ 1 <= n /\ n \in 1 .. qs[i].there
      <4>1. qs[i].there \in Nat
        BY <2>2 DEF PageType
      <4> QED
        BY <2>5, <4>1
    <3>2. ~ (n + qs[j].offset + Len(qs[j].ids) <= qs[j].there)
      BY <2>1, <2>2, <2>7, <3>1, ShortPageIsLast
    <3>3. Given(qs, i, j, messages[qs[i].channel][n].id)
      BY <2>1, <2>2, <2>6, <3>1, <3>2 DEF Reaches
    <3>4. Given(qs, i, j, id)
      BY <2>5, <3>3
    <3> HIDE DEF id
    <3>5. PICK k \in i .. j : \E m \in 1 .. Len(qs[k].ids) : qs[k].ids[m] = id
      BY <3>4 DEF Given
    <3>6. PICK m \in 1 .. Len(qs[k].ids) : qs[k].ids[m] = id
      BY <3>5
    <3>7. k - i + 1 \in DOMAIN ps /\ ps[k - i + 1] = qs[k]
      BY <2>5
    <3>8. m \in DOMAIN qs[k].ids
      <4>1. k \in 1 .. Len(qs)
        BY <2>2
      <4>2. qs[k].ids \in Seq(Nat)
        BY <2>2, <4>1 DEF PageType
      <4> QED
        BY <4>2, LenProperties
    <3>9. id \in {ps[k - i + 1].ids[x] : x \in DOMAIN ps[k - i + 1].ids}
      BY <3>6, <3>7, <3>8
    <3> QED
      BY <3>7, <3>9 DEF id
  <2> QED
    BY <2>8 DEF ps, qs
<1> QED
  BY <1>1, PagesInvariance, PTL
=============================================================================
