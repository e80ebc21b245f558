---------------------------- MODULE ClusterProofs -----------------------------
(***************************************************************************)
(* No server of pa2 is stopped by a connection it has already, unless a    *)
(* server with a higher id has come back; and after one failure each       *)
(* survivor follows the highest of those it considers alive. For any       *)
(* number of servers, any order in the configuration file and any          *)
(* priorities.                                                             *)
(***************************************************************************)
EXTENDS Cluster, FiniteSetTheorems, TLAPS

(***************************************************************************)
(* What OnlyReturnPoisons rests on                                         *)
(***************************************************************************)
\* A server that was never started has no connection.
StartsCounted ==
  \A s \in Servers :
    /\ mode[s] = "down" <=> starts[s] = 0
    /\ mode[s] = "down" => \A t \in Servers \ {s} : ~Open(<<s, t>>)

\* Connections are made to lower servers. For each of them a server has yet to connect,
\* or has one socket, or has used it.
ConnectsOnce ==
  \A s, t \in Servers : t < s =>
    /\ Socket(s, t, FALSE) \notin openings
    /\ Socket(t, s, TRUE) \notin openings
    /\ Socket(s, t, TRUE) \in openings \/ Open(<<s, t>>) => t \notin todo[s]
    /\ Socket(s, t, TRUE) \in openings => ~Open(<<s, t>>)

\* What a server started once has connected to was reached once.
ReachedOnce ==
  \A s, t \in Servers : t < s /\ starts[s] <= 1 =>
    /\ Socket(t, s, FALSE) \in openings => Open(<<s, t>>) /\ ~Open(<<t, s>>)
    /\ Open(<<t, s>>) => Open(<<s, t>>)

OnlyLower == \A s \in Servers : todo[s] \subseteq Lower(s)

IInv ==
  /\ TypeOK /\ OnlyLower /\ StartsCounted
  /\ ConnectsOnce /\ ReachedOnce /\ OnlyReturnPoisons

-----------------------------------------------------------------------------
(***************************************************************************)
(* Servers and sockets                                                     *)
(***************************************************************************)
\* What ClusterAssumption says of the types of the constants.
LEMMA Constants ==
  /\ Servers \subseteq Nat /\ IsFiniteSet(Servers) /\ Servers # {}
  /\ Priority \in [Servers -> Nat]
  /\ Attempts \in Nat \ {0}
BY Zenon, ClusterAssumption

\* Of two servers one has the lower id.
LEMMA Ids ==
  \A s, t \in Servers : /\ t < s => t # s /\ ~(s < t)
                        /\ t # s => t < s \/ s < t
BY Constants

\* What an element of openings is.
LEMMA Sockets ==
  /\ \A a, b, o : Socket(a, b, o).at = a
  /\ \A a, b \in Servers : \A o \in BOOLEAN :
       Socket(a, b, o) \in [at : Servers, peer : Servers, out : BOOLEAN]
BY DEF Socket

-----------------------------------------------------------------------------
(***************************************************************************)
(* The server with the highest priority                                    *)
(***************************************************************************)
\* There is one among the servers that a server considers alive.
LEMMA HighestExists ==
  ASSUME NEW S \in SUBSET Servers, S # {}
  PROVE  /\ Highest(S) \in S /\ Highest(S) \in Servers
         /\ \A t \in S : Priority[t] <= Priority[Highest(S)]
<1> DEFINE Above(s) == {t \in S : Priority[t] > Priority[s]}
           R == StrictSubsetOrdering(S)
           F == {Above(s) : s \in S}
<1>1. IsFiniteSet(S)
  BY Constants, FS_Subset
<1>2. F \subseteq FiniteSubsetsOf(S)
  <2>1. \A T \in SUBSET S : T \in FiniteSubsetsOf(S)
    BY <1>1, FS_Subset DEF FiniteSubsetsOf
  <2> QED
    BY <2>1
<1>3. PICK A \in F : \A B \in F : <<B, A>> \notin R
  <2>1. F # {}
    OBVIOUS
  <2>2. IsWellFoundedOn(R, FiniteSubsetsOf(S))
    BY FS_StrictSubsetOrderingWellFounded
  <2> HIDE DEF F, R
  <2> QED
    BY <1>2, <2>1, <2>2, WFMin
<1>4. PICK s \in S : A = Above(s)
  BY <1>3
<1>5. \A t \in S : Priority[t] <= Priority[s]
  <2> SUFFICES ASSUME NEW t \in S, ~(Priority[t] <= Priority[s])
               PROVE  FALSE
    OBVIOUS
  <2>1. \A u \in S : Priority[u] \in Nat
    BY Constants
  <2>2. t \in Above(s) /\ t \notin Above(t)
    BY <2>1
  <2>3. Above(t) \subseteq Above(s)
    BY <2>1
  <2>4. <<Above(t), Above(s)>> \in R
    <3>1. Above(t) \in SUBSET S /\ Above(s) \in SUBSET S /\ Above(t) # Above(s)
      BY <2>2
    <3> HIDE DEF Above
    <3> QED
      BY <2>3, <3>1 DEF StrictSubsetOrdering
  <2>5. Above(t) \in F
    OBVIOUS
  <2> HIDE DEF Above, F, R
  <2> QED
    BY <1>3, <1>4, <2>4, <2>5
<1> QED
  BY <1>5 DEF Highest

(***************************************************************************)
(* The inductive invariant holds initially                                 *)
(***************************************************************************)
\* SystemState::new of every server has no connection and no socket.
LEMMA Initially == Init => IInv
<1> SUFFICES ASSUME Init PROVE IInv
  OBVIOUS
<1> USE Constants DEF Init, Open
<1>1. TypeOK
  BY HighestExists DEF TypeOK, Pairs
<1>2. OnlyLower /\ OnlyReturnPoisons
  BY DEF OnlyLower, OnlyReturnPoisons
<1>3. StartsCounted
  BY DEF StartsCounted, Pairs
<1>4. ConnectsOnce /\ ReachedOnce
  BY DEF ConnectsOnce, ReachedOnce, Pairs
<1> QED
  BY <1>1, <1>2, <1>3, <1>4 DEF IInv

(***************************************************************************)
(* Types                                                                   *)
(***************************************************************************)
\* Startup keeps the types.
LEMMA StartTypes ==
  ASSUME TypeOK, NEW s \in Servers, Start(s), orderly' \in BOOLEAN
  PROVE  TypeOK'
<1> USE Constants DEF TypeOK, Start, Open
<1>1. Highest(Servers) \in Servers
  BY HighestExists
<1>2. /\ timer' \in [Pairs -> {"off", "on", "marked", "done"}]
      /\ task' \in [Pairs -> {"none", "start", "waiting", "woken", "set", "announce"}]
      /\ choice' \in [Pairs -> Servers]
      /\ \A p \in Pairs : (timer'[p] # "off") <=> (task'[p] # "none")
  BY DEF Of
<1>3. /\ mode' \in [Servers -> {"down", "connecting", "up", "killed", "frozen", "poisoned"}]
      /\ todo' \in [Servers -> SUBSET Servers]
      /\ tries' \in [Servers -> 0 .. Attempts - 1]
      /\ starts' \in [Servers -> Nat]
  BY DEF Lower
<1>4. /\ openings' \subseteq [at : Servers, peer : Servers, out : BOOLEAN]
      /\ alive' \in [Servers -> SUBSET Servers]
      /\ \A u \in Servers : u \in alive'[u]
      /\ leader' \in [Servers -> Servers]
  BY <1>1
<1> QED
  BY <1>2, <1>3, <1>4

\* So does the rest of main_task,
LEMMA MainTypes ==
  ASSUME TypeOK, OnlyLower, NEW s \in Servers, NEW t \in Servers,
         Connect(s, t) \/ Refused(s, t) \/ Listen(s)
  PROVE  TypeOK'
<1> USE Constants DEF TypeOK, Open
<1>1. CASE Connect(s, t)
  <2>1. openings' \subseteq [at : Servers, peer : Servers, out : BOOLEAN]
    <3>1. openings' = openings \cup {Socket(s, t, TRUE)}
      BY <1>1 DEF Connect
    <3>2. Socket(s, t, TRUE) \in [at : Servers, peer : Servers, out : BOOLEAN]
      BY Sockets
    <3> QED
      BY <3>1, <3>2
  <2>2. silent' \in [Pairs -> BOOLEAN]
    BY <1>1, (mode[t] # "up") \in BOOLEAN DEF Connect
  <2>3. tries' \in [Servers -> 0 .. Attempts - 1]
    BY <1>1 DEF Connect
  <2>4. todo' \in [Servers -> SUBSET Servers]
    BY <1>1 DEF Connect
  <2> QED
    BY <1>1, <2>1, <2>2, <2>3, <2>4 DEF Connect, election, ghosts
<1>2. CASE Refused(s, t)
  <2>1. tries' \in [Servers -> 0 .. Attempts - 1]
    <3>1. tries[s] \in 0 .. Attempts - 1
      OBVIOUS
    <3>2. CASE tries[s] + 1 < Attempts
      <4>1. tries' = [tries EXCEPT ![s] = tries[s] + 1] /\ tries[s] + 1 \in 0 .. Attempts - 1
        BY <1>2, <3>1, <3>2 DEF Refused
      <4> QED
        BY <4>1
    <3>3. CASE ~(tries[s] + 1 < Attempts)
      <4>1. tries' = [tries EXCEPT ![s] = 0] /\ 0 \in 0 .. Attempts - 1
        BY <1>2, <3>3 DEF Refused
      <4> QED
        BY <4>1
    <3> QED
      BY <3>2, <3>3
  <2>2. t \in Servers \ {s}
    BY <1>2 DEF Refused, Due, OnlyLower, Lower
  <2>3. /\ alive' = alive \/ alive' = [alive EXCEPT ![s] = alive[s] \ {t}]
        /\ todo' = todo \/ todo' = [todo EXCEPT ![s] = todo[s] \ {t}]
        /\ orderly' = orderly \/ orderly' = FALSE
    BY <1>2 DEF Refused
  <2>4. alive' \in [Servers -> SUBSET Servers] /\ \A u \in Servers : u \in alive'[u]
    BY <2>2, <2>3
  <2>5. todo' \in [Servers -> SUBSET Servers]
    BY <2>3
  <2>6. orderly' \in BOOLEAN
    BY <2>3
  <2> QED
    BY <1>2, <2>1, <2>4, <2>5, <2>6 DEF Refused, election
<1>3. CASE Listen(s)
  BY <1>3 DEF Listen, startup, election, ghosts
<1> QED
  BY <1>1, <1>2, <1>3

\* so does a peer_task that takes its receiver,
LEMMA SocketTypes ==
  ASSUME TypeOK, NEW p \in Pairs, NEW out \in BOOLEAN, OpenSocket(p[1], p[2], out)
  PROVE  TypeOK'
<1> USE DEF TypeOK, Open
<1>1. p[1] \in Servers /\ p[2] \in Servers /\ <<p[1], p[2]>> \in Pairs
  BY DEF Pairs
<1>2. openings' \subseteq [at : Servers, peer : Servers, out : BOOLEAN]
  <2>1. openings' \subseteq openings \cup {Socket(p[2], p[1], FALSE)}
    BY DEF OpenSocket
  <2>2. Socket(p[2], p[1], FALSE) \in [at : Servers, peer : Servers, out : BOOLEAN]
    BY <1>1, Sockets
  <2> QED
    BY <2>1, <2>2
<1>3. CASE Open(<<p[1], p[2]>>)
  <2>1. /\ mode' = [mode EXCEPT ![p[1]] = "poisoned"]
        /\ silent' = [q \in Pairs |-> silent[q] \/ q[2] = p[1]]
        /\ UNCHANGED <<timer, task>>
    BY <1>3 DEF OpenSocket
  <2>2. silent' \in [Pairs -> BOOLEAN]
    BY <2>1
  <2> QED
    BY <1>2, <2>1, <2>2 DEF OpenSocket, ghosts
<1>4. CASE ~Open(<<p[1], p[2]>>)
  <2>1. /\ timer' = [timer EXCEPT ![<<p[1], p[2]>>] = "on"]
        /\ task' = [task EXCEPT ![<<p[1], p[2]>>] = "start"]
        /\ silent' = silent \/ silent' = [silent EXCEPT ![<<p[2], p[1]>>] = FALSE]
        /\ UNCHANGED mode
    BY <1>4 DEF OpenSocket
  <2>2. silent' \in [Pairs -> BOOLEAN]
    BY <2>1
  <2>3. /\ timer' \in [Pairs -> {"off", "on", "marked", "done"}]
        /\ task' \in [Pairs -> {"none", "start", "waiting", "woken", "set", "announce"}]
        /\ \A q \in Pairs : (timer'[q] # "off") <=> (task'[q] # "none")
    BY <2>1
  <2> QED
    BY <1>2, <2>1, <2>2, <2>3 DEF OpenSocket, ghosts
<1> QED
  BY <1>3, <1>4

\* so does a failure,
LEMMA FailTypes ==
  ASSUME TypeOK, NEW s \in Servers, Fail(s)
  PROVE  TypeOK'
<1> USE DEF TypeOK, Open
<1>1. /\ mode' \in [Servers -> {"down", "connecting", "up", "killed", "frozen", "poisoned"}]
      /\ failures' \in Nat /\ orderly' \in BOOLEAN
      /\ silent' \in [Pairs -> BOOLEAN]
      /\ announced' \in [Pairs -> Nat]
  BY DEF Fail
<1> QED
  BY <1>1 DEF Fail, startup

\* and so do heartbeats, the leader task and announcements.
LEMMA LinkTypes ==
  ASSUME TypeOK, NEW p \in Pairs,
         \/ Heartbeats(p[1], p[2]) \/ LeaderTask(p[1], p[2])
         \/ ReadAnnouncement(p[1], p[2]) \/ LoseAnnouncement(p[1], p[2])
  PROVE  TypeOK'
<1> USE DEF TypeOK, Open, startup, election, ghosts
<1> DEFINE s == p[1]
           t == p[2]
<1>0. s \in Servers /\ t \in Servers /\ s # t /\ <<s, t>> \in Pairs /\ <<t, s>> \in Pairs
  BY DEF Pairs
<1> HIDE DEF s, t
<1>1. CASE MarkDead(s, t)
  BY <1>0, <1>1 DEF MarkDead
<1>2. CASE Notify(s, t)
  BY <1>0, <1>2 DEF Notify
<1>3. Announced(s, t) \in [Pairs -> Nat]
  BY <1>0 DEF Announced
<1>4. CASE TaskStarts(s, t)
  <2>1. announced' \in [Pairs -> Nat]
    BY <1>3, <1>4 DEF TaskStarts
  <2> QED
    BY <1>0, <1>4, <2>1 DEF TaskStarts
<1>5. CASE TaskLooks(s, t)
  <2>1. Highest(alive[s]) \in Servers
    BY <1>0, HighestExists
  <2> QED
    BY <1>0, <1>5, <2>1 DEF TaskLooks
<1>6. CASE TaskSets(s, t)
  BY <1>0, <1>6 DEF TaskSets
<1>7. CASE TaskAnnounces(s, t)
  <2>1. announced' \in [Pairs -> Nat]
    BY <1>3, <1>7 DEF TaskAnnounces
  <2> QED
    BY <1>0, <1>7, <2>1 DEF TaskAnnounces
<1>8. CASE ReadAnnouncement(s, t)
  BY <1>0, <1>8 DEF ReadAnnouncement
<1>9. CASE LoseAnnouncement(s, t)
  BY <1>0, <1>9 DEF LoseAnnouncement
<1> QED
  BY <1>1, <1>2, <1>4, <1>5, <1>6, <1>7, <1>8, <1>9 DEF Heartbeats, LeaderTask, s, t

(***************************************************************************)
(* Connections                                                             *)
(***************************************************************************)
Connections == StartsCounted /\ ConnectsOnce /\ ReachedOnce /\ OnlyReturnPoisons

\* A server that starts forgets its connections; one that comes back is counted.
LEMMA StartConnections ==
  ASSUME TypeOK, Connections, NEW s \in Servers, Start(s),
         mode[s] \in {"down", "killed"}
  PROVE  Connections'
<1> USE DEF TypeOK
<1>1. /\ mode' = [mode EXCEPT ![s] = "connecting"]
      /\ starts' = [starts EXCEPT ![s] = starts[s] + 1]
      /\ openings' = {o \in openings : o.at # s}
  BY DEF Start
<1>2. /\ \A t, u \in Servers : t # u =>
           Open(<<t, u>>)' = (t # s /\ Open(<<t, u>>))
      /\ \A t \in Servers \ {s} : todo'[t] = todo[t]
  BY DEF Start, Open, Of, Pairs
<1>3. \A t, u \in Servers : \A out \in BOOLEAN :
        Socket(t, u, out) \in openings' <=> t # s /\ Socket(t, u, out) \in openings
  BY <1>1, Sockets
<1>4. StartsCounted'
  <2> SUFFICES ASSUME NEW t \in Servers
               PROVE  /\ mode'[t] = "down" <=> starts'[t] = 0
                      /\ mode'[t] = "down" => \A u \in Servers \ {t} : ~Open(<<t, u>>)'
    BY DEF StartsCounted
  <2>1. CASE t = s
    <3>1. starts[s] \in Nat /\ starts[s] + 1 # 0
      OBVIOUS
    <3>2. mode'[t] = "connecting" /\ starts'[t] = starts[s] + 1
      BY <1>1, <2>1
    <3> QED
      BY <3>1, <3>2
  <2>2. CASE t # s
    <3>1. mode'[t] = mode[t] /\ starts'[t] = starts[t]
      BY <1>1, <2>2
    <3> QED
      BY <1>2, <3>1 DEF StartsCounted, Connections
  <2> QED
    BY <2>1, <2>2
<1>5. ConnectsOnce'
  <2> SUFFICES ASSUME NEW t \in Servers, NEW u \in Servers, u < t
               PROVE  /\ Socket(t, u, FALSE) \notin openings'
                      /\ Socket(u, t, TRUE) \notin openings'
                      /\ Socket(t, u, TRUE) \in openings' \/ Open(<<t, u>>)' => u \notin todo'[t]
                      /\ Socket(t, u, TRUE) \in openings' => ~Open(<<t, u>>)'
    BY DEF ConnectsOnce, Socket
  <2> t # u
    BY Ids
  <2> QED
    BY <1>2, <1>3 DEF ConnectsOnce, Connections
<1>6. ReachedOnce'
  <2> SUFFICES ASSUME NEW t \in Servers, NEW u \in Servers, u < t, starts'[t] <= 1
               PROVE  /\ Socket(u, t, FALSE) \in openings' => Open(<<t, u>>)' /\ ~Open(<<u, t>>)'
                      /\ Open(<<u, t>>)' => Open(<<t, u>>)'
    BY DEF ReachedOnce, Socket
  <2>1. t # u
    BY Ids
  <2>2. CASE t # s
    BY <1>1, <1>2, <1>3, <2>1, <2>2 DEF ReachedOnce, Connections
  <2>3. CASE t = s
    <3>1. starts[t] = 0 /\ ~Open(<<t, u>>)
      BY <1>1, <2>1, <2>3 DEF StartsCounted, Connections
    <3>2. Socket(u, t, FALSE) \notin openings /\ ~Open(<<u, t>>)
      <4>1. starts[t] <= 1
        BY <3>1
      <4> QED
        BY <3>1, <4>1 DEF ReachedOnce, Connections
    <3>3. Socket(u, t, FALSE) \notin openings' /\ ~Open(<<u, t>>)'
      BY <1>2, <1>3, <2>1, <3>2
    <3> QED
      BY <3>3
  <2> QED
    BY <2>2, <2>3
<1>7. OnlyReturnPoisons'
  BY <1>1 DEF OnlyReturnPoisons, Connections
<1> QED
  BY <1>4, <1>5, <1>6, <1>7 DEF Connections

\* main_task makes one connection to each lower server.
LEMMA ConnectConnections ==
  ASSUME TypeOK, OnlyLower, Connections, NEW s \in Servers, NEW t \in Servers, Connect(s, t)
  PROVE  Connections'
<1> USE DEF TypeOK, Connections, ghosts
<1>1. /\ openings' = openings \cup {Socket(s, t, TRUE)}
      /\ todo' = [todo EXCEPT ![s] = todo[s] \ {t}]
      /\ UNCHANGED <<mode, starts, timer>>
      /\ t \in todo[s] /\ t < s
  BY DEF Connect, Due, OnlyLower, Lower
<1>2. \A a, b \in Servers :
        /\ Socket(a, b, TRUE) \in openings' <=>
             Socket(a, b, TRUE) \in openings \/ (a = s /\ b = t)
        /\ Socket(a, b, FALSE) \in openings' <=> Socket(a, b, FALSE) \in openings
  <2>1. openings' = openings \cup {Socket(s, t, TRUE)}
    BY <1>1
  <2> QED
    <3> SUFFICES ASSUME NEW a \in Servers, NEW b \in Servers
                 PROVE  /\ Socket(a, b, TRUE) \in openings' <=>
                             Socket(a, b, TRUE) \in openings \/ (a = s /\ b = t)
                        /\ Socket(a, b, FALSE) \in openings' <=> Socket(a, b, FALSE) \in openings
      OBVIOUS
    <3>1. Socket(a, b, TRUE) = Socket(s, t, TRUE) <=> a = s /\ b = t
      BY DEF Socket
    <3>2. Socket(a, b, FALSE) # Socket(s, t, TRUE)
      BY DEF Socket
    <3> QED
      BY <2>1, <3>1, <3>2
<1>3. \A a, b \in Servers : Open(<<a, b>>)' = Open(<<a, b>>)
  BY <1>1 DEF Open
<1>4. StartsCounted' /\ OnlyReturnPoisons'
  BY <1>1, <1>3 DEF StartsCounted, OnlyReturnPoisons
<1>5. ConnectsOnce'
  <2> SUFFICES ASSUME NEW a \in Servers, NEW b \in Servers, b < a
               PROVE  /\ Socket(a, b, FALSE) \notin openings'
                      /\ Socket(b, a, TRUE) \notin openings'
                      /\ Socket(a, b, TRUE) \in openings' \/ Open(<<a, b>>)' => b \notin todo'[a]
                      /\ Socket(a, b, TRUE) \in openings' => ~Open(<<a, b>>)'
    BY DEF ConnectsOnce, Socket
  <2>1. ~(b = s /\ a = t)
    BY <1>1, Ids
  <2>2. todo'[a] \subseteq todo[a] /\ (a = s => t \notin todo'[a])
    BY <1>1
  <2> QED
    <3>1. CASE a = s /\ b = t
      <4>1. /\ ~Open(<<a, b>>)
            /\ Socket(a, b, FALSE) \notin openings /\ Socket(b, a, TRUE) \notin openings
        BY <1>1, <3>1 DEF ConnectsOnce
      <4> QED
        BY <1>2, <1>3, <2>1, <2>2, <3>1, <4>1
    <3>2. CASE ~(a = s /\ b = t)
      <4>1. /\ Socket(a, b, FALSE) \notin openings /\ Socket(b, a, TRUE) \notin openings
            /\ Socket(a, b, TRUE) \in openings \/ Open(<<a, b>>) => b \notin todo[a]
            /\ Socket(a, b, TRUE) \in openings => ~Open(<<a, b>>)
        BY DEF ConnectsOnce
      <4> QED
        BY <1>2, <1>3, <2>1, <2>2, <3>2, <4>1
    <3> QED
      BY <3>1, <3>2
<1>6. ReachedOnce'
  BY <1>1, <1>2, <1>3 DEF ReachedOnce, Socket
<1> QED
  BY <1>4, <1>5, <1>6

\* The end that connected finds its receiver there; the other end gets a socket.
LEMMA OutConnections ==
  ASSUME TypeOK, Connections, NEW s \in Servers, NEW t \in Servers, s # t,
         OpenSocket(s, t, TRUE)
  PROVE  Connections'
<1> USE DEF Connections, ghosts
<1>1. Socket(s, t, TRUE) \in openings /\ t < s /\ ~Open(<<s, t>>)
  <2>1. Socket(s, t, TRUE) \in openings
    BY DEF OpenSocket
  <2>2. t < s
    BY <2>1, Ids DEF ConnectsOnce
  <2> QED
    BY <2>1, <2>2 DEF ConnectsOnce
<1>2. /\ UNCHANGED <<mode, todo, starts>> /\ mode[s] # "down"
      /\ timer' = [timer EXCEPT ![<<s, t>>] = "on"]
  BY <1>1 DEF OpenSocket, Running
<1>3. \A a, b \in Servers :
        /\ Socket(a, b, TRUE) \in openings' <=>
             Socket(a, b, TRUE) \in openings /\ ~(a = s /\ b = t)
        /\ Socket(a, b, FALSE) \in openings' =>
             Socket(a, b, FALSE) \in openings \/ (a = t /\ b = s)
  <2>1. openings' \subseteq (openings \ {Socket(s, t, TRUE)}) \cup {Socket(t, s, FALSE)}
    BY DEF OpenSocket
  <2>2. openings \ {Socket(s, t, TRUE)} \subseteq openings'
    BY DEF OpenSocket
  <2> QED
    <3> SUFFICES ASSUME NEW a \in Servers, NEW b \in Servers
                 PROVE  /\ Socket(a, b, TRUE) \in openings' <=>
                             Socket(a, b, TRUE) \in openings /\ ~(a = s /\ b = t)
                        /\ Socket(a, b, FALSE) \in openings' =>
                             Socket(a, b, FALSE) \in openings \/ (a = t /\ b = s)
      OBVIOUS
    <3>1. /\ Socket(a, b, TRUE) = Socket(s, t, TRUE) <=> a = s /\ b = t
          /\ Socket(a, b, TRUE) # Socket(t, s, FALSE)
      BY DEF Socket
    <3>2. Socket(a, b, FALSE) = Socket(t, s, FALSE) <=> a = t /\ b = s
      BY DEF Socket
    <3> QED
      BY <2>1, <2>2, <3>1, <3>2
<1>4. \A a, b \in Servers : a # b =>
        Open(<<a, b>>)' = (Open(<<a, b>>) \/ (a = s /\ b = t))
  BY <1>2 DEF Open, Pairs, TypeOK
<1>5. StartsCounted' /\ OnlyReturnPoisons'
  BY <1>2, <1>4 DEF StartsCounted, OnlyReturnPoisons
<1>6. ConnectsOnce'
  <2> SUFFICES ASSUME NEW a \in Servers, NEW b \in Servers, b < a
               PROVE  /\ Socket(a, b, FALSE) \notin openings'
                      /\ Socket(b, a, TRUE) \notin openings'
                      /\ Socket(a, b, TRUE) \in openings' \/ Open(<<a, b>>)' => b \notin todo'[a]
                      /\ Socket(a, b, TRUE) \in openings' => ~Open(<<a, b>>)'
    BY DEF ConnectsOnce, Socket
  <2>1. a # b /\ ~(a = t /\ b = s)
    BY <1>1, Ids
  <2> QED
    BY <1>1, <1>2, <1>3, <1>4, <2>1 DEF ConnectsOnce
<1>7. ReachedOnce'
  <2> SUFFICES ASSUME NEW a \in Servers, NEW b \in Servers, b < a, starts'[a] <= 1
               PROVE  /\ Socket(b, a, FALSE) \in openings' => Open(<<a, b>>)' /\ ~Open(<<b, a>>)'
                      /\ Open(<<b, a>>)' => Open(<<a, b>>)'
    BY DEF ReachedOnce, Socket
  <2>1. a # b /\ ~(a = t /\ b = s)
    BY <1>1, Ids
  <2>2. CASE a = s /\ b = t
    BY <1>1, <1>2, <1>4, <2>1, <2>2 DEF ReachedOnce
  <2>3. CASE ~(a = s /\ b = t)
    BY <1>2, <1>3, <1>4, <2>1, <2>3 DEF ReachedOnce
  <2> QED
    BY <2>2, <2>3
<1> QED
  BY <1>5, <1>6, <1>7

\* The other end finds its receiver there unless the end that connected has come back.
LEMMA InConnections ==
  ASSUME TypeOK, Connections, NEW s \in Servers, NEW t \in Servers, s # t,
         OpenSocket(s, t, FALSE)
  PROVE  Connections'
<1> USE DEF Connections, ghosts
<1>1. Socket(s, t, FALSE) \in openings /\ s < t
  <2>1. Socket(s, t, FALSE) \in openings
    BY DEF OpenSocket
  <2> QED
    BY <2>1, Ids DEF ConnectsOnce
<1>2. UNCHANGED <<todo, starts>> /\ mode[s] # "down"
  BY DEF OpenSocket, Running
<1>3. \A a, b \in Servers :
        /\ Socket(a, b, TRUE) \in openings' <=> Socket(a, b, TRUE) \in openings
        /\ Socket(a, b, FALSE) \in openings' <=>
             Socket(a, b, FALSE) \in openings /\ ~(a = s /\ b = t)
  <2>1. openings' = openings \ {Socket(s, t, FALSE)}
    BY DEF OpenSocket
  <2> QED
    <3> SUFFICES ASSUME NEW a \in Servers, NEW b \in Servers
                 PROVE  /\ Socket(a, b, TRUE) \in openings' <=> Socket(a, b, TRUE) \in openings
                        /\ Socket(a, b, FALSE) \in openings' <=>
                             Socket(a, b, FALSE) \in openings /\ ~(a = s /\ b = t)
      OBVIOUS
    <3>1. Socket(a, b, TRUE) # Socket(s, t, FALSE)
      BY DEF Socket
    <3>2. Socket(a, b, FALSE) = Socket(s, t, FALSE) <=> a = s /\ b = t
      BY DEF Socket
    <3> QED
      BY <2>1, <3>1, <3>2
<1>4. CASE Open(<<s, t>>)
  <2>1. UNCHANGED timer /\ mode' = [mode EXCEPT ![s] = "poisoned"]
    BY <1>4 DEF OpenSocket
  <2>2. ~(starts[t] <= 1)
    BY <1>1, <1>4 DEF ReachedOnce
  <2>3. starts[t] > 1
    BY <2>2 DEF TypeOK
  <2>4. \A a, b \in Servers : Open(<<a, b>>)' = Open(<<a, b>>)
    BY <2>1 DEF Open
  <2>5. StartsCounted'
    BY <1>2, <2>1, <2>4 DEF StartsCounted, TypeOK
  <2>6. OnlyReturnPoisons'
    BY <1>1, <1>2, <2>1, <2>3 DEF OnlyReturnPoisons, TypeOK
  <2>7. ConnectsOnce'
    <3> SUFFICES ASSUME NEW a \in Servers, NEW b \in Servers, b < a
                 PROVE  /\ Socket(a, b, FALSE) \notin openings'
                        /\ Socket(b, a, TRUE) \notin openings'
                        /\ Socket(a, b, TRUE) \in openings' \/ Open(<<a, b>>)' => b \notin todo'[a]
                        /\ Socket(a, b, TRUE) \in openings' => ~Open(<<a, b>>)'
      BY DEF ConnectsOnce, Socket
    <3> QED
      BY <1>2, <1>3, <2>4 DEF ConnectsOnce
  <2>8. ReachedOnce'
    <3> SUFFICES ASSUME NEW a \in Servers, NEW b \in Servers, b < a, starts'[a] <= 1
                 PROVE  /\ Socket(b, a, FALSE) \in openings' => Open(<<a, b>>)' /\ ~Open(<<b, a>>)'
                        /\ Open(<<b, a>>)' => Open(<<a, b>>)'
      BY DEF ReachedOnce, Socket
    <3> QED
      BY <1>2, <1>3, <2>4 DEF ReachedOnce
  <2> QED
    BY <2>5, <2>6, <2>7, <2>8
<1>5. CASE ~Open(<<s, t>>)
  <2>1. UNCHANGED mode /\ timer' = [timer EXCEPT ![<<s, t>>] = "on"]
    BY <1>5 DEF OpenSocket
  <2>2. \A a, b \in Servers : a # b =>
          Open(<<a, b>>)' = (Open(<<a, b>>) \/ (a = s /\ b = t))
    BY <2>1 DEF Open, Pairs, TypeOK
  <2>3. StartsCounted' /\ OnlyReturnPoisons'
    BY <1>2, <2>1, <2>2 DEF StartsCounted, OnlyReturnPoisons
  <2>4. ConnectsOnce'
    <3> SUFFICES ASSUME NEW a \in Servers, NEW b \in Servers, b < a
                 PROVE  /\ Socket(a, b, FALSE) \notin openings'
                        /\ Socket(b, a, TRUE) \notin openings'
                        /\ Socket(a, b, TRUE) \in openings' \/ Open(<<a, b>>)' => b \notin todo'[a]
                        /\ Socket(a, b, TRUE) \in openings' => ~Open(<<a, b>>)'
      BY DEF ConnectsOnce, Socket
    <3>1. a # b /\ ~(a = s /\ b = t)
      BY <1>1, Ids
    <3> QED
      BY <1>2, <1>3, <2>2, <3>1 DEF ConnectsOnce
  <2>5. ReachedOnce'
    <3> SUFFICES ASSUME NEW a \in Servers, NEW b \in Servers, b < a, starts'[a] <= 1
                 PROVE  /\ Socket(b, a, FALSE) \in openings' => Open(<<a, b>>)' /\ ~Open(<<b, a>>)'
                        /\ Open(<<b, a>>)' => Open(<<a, b>>)'
      BY DEF ReachedOnce, Socket
    <3>1. a # b /\ ~(a = s /\ b = t)
      BY <1>1, Ids
    <3> QED
      BY <1>1, <1>2, <1>3, <2>2, <3>1 DEF ReachedOnce
  <2> QED
    BY <2>3, <2>4, <2>5
<1> QED
  BY <1>4, <1>5

\* No other step opens or closes a connection, stops a server or starts one.
LEMMA OthersConnections ==
  ASSUME TypeOK, OnlyLower, Connections, UNCHANGED <<openings, starts>>,
         \A p \in Pairs : Open(p)' = Open(p),
         \A s \in Servers : todo'[s] \subseteq todo[s],
         \A s \in Servers : \/ mode'[s] = mode[s]
                            \/ mode[s] # "down" /\ mode'[s] \notin {"down", "poisoned"}
  PROVE  Connections'
<1> USE DEF Connections
<1>1. \A s, t \in Servers : s # t => Open(<<s, t>>)' = Open(<<s, t>>)
  BY DEF Pairs
<1>2. \A s, t \in Servers : t < s => t # s
  BY Ids
<1>3. StartsCounted' /\ OnlyReturnPoisons'
  BY <1>1 DEF StartsCounted, OnlyReturnPoisons
<1>4. ConnectsOnce' /\ ReachedOnce'
  BY <1>1, <1>2 DEF ConnectsOnce, ReachedOnce, Socket
<1> QED
  BY <1>3, <1>4

(***************************************************************************)
(* Every step keeps the invariant                                          *)
(***************************************************************************)
\* What is still to be connected to has a lower id.
LEMMA LowerStep ==
  ASSUME TypeOK, OnlyLower, Next
  PROVE  OnlyLower'
<1> USE DEF OnlyLower, startup, election, ghosts
<1>1. ASSUME NEW s \in Servers, Start(s)
      PROVE  OnlyLower'
  BY <1>1 DEF Start, TypeOK
<1>2. ASSUME NEW s \in Servers, NEW t \in Servers, Connect(s, t) \/ Refused(s, t)
      PROVE  OnlyLower'
  <2>1. todo' = todo \/ todo' = [todo EXCEPT ![s] = todo[s] \ {t}]
    BY <1>2 DEF Connect, Refused
  <2> QED
    BY <2>1 DEF TypeOK
<1>3. ASSUME UNCHANGED todo
      PROVE  OnlyLower'
  BY <1>3
<1>4. ASSUME NEW s \in Servers, Main(s) \/ Restart(s) \/ Fail(s)
      PROVE  OnlyLower'
  BY <1>1, <1>2, <1>3, <1>4 DEF Main, FirstStart, Restart, Fail, Listen
<1>5. ASSUME NEW p \in Pairs,
             \/ \E out \in BOOLEAN : OpenSocket(p[1], p[2], out)
             \/ Heartbeats(p[1], p[2]) \/ LeaderTask(p[1], p[2])
             \/ ReadAnnouncement(p[1], p[2]) \/ LoseAnnouncement(p[1], p[2])
      PROVE  OnlyLower'
  <2>1. UNCHANGED todo
    BY <1>5 DEF OpenSocket, Heartbeats, MarkDead, Notify, LeaderTask, TaskStarts, TaskLooks,
                TaskSets, TaskAnnounces, ReadAnnouncement, LoseAnnouncement
  <2> QED
    BY <1>3, <2>1
<1> QED
  BY <1>4, <1>5 DEF Next, Work

\* The steps of a link leave the connections as they are.
LEMMA LinkConnections ==
  ASSUME TypeOK, OnlyLower, Connections, NEW p \in Pairs,
         \/ Heartbeats(p[1], p[2]) \/ LeaderTask(p[1], p[2])
         \/ ReadAnnouncement(p[1], p[2]) \/ LoseAnnouncement(p[1], p[2])
  PROVE  Connections'
<1>1. UNCHANGED <<mode, todo, openings, starts>>
  BY DEF Heartbeats, MarkDead, Notify, LeaderTask, TaskStarts, TaskLooks, TaskSets,
         TaskAnnounces, ReadAnnouncement, LoseAnnouncement, startup, ghosts
<1>2. \/ UNCHANGED timer
      \/ \E v \in {"marked", "done"} :
           Open(p) /\ timer' = [timer EXCEPT ![p] = v]
  <2>1. <<p[1], p[2]>> = p
    BY DEF Pairs
  <2> QED
    BY <2>1 DEF Heartbeats, MarkDead, Notify, LeaderTask, TaskStarts, TaskLooks, TaskSets,
                TaskAnnounces, ReadAnnouncement, LoseAnnouncement, election, Open
<1>3. \A q \in Pairs : Open(q)' = Open(q)
  BY <1>2 DEF Open, TypeOK
<1> QED
  BY <1>1, <1>3, OthersConnections

\* main_task, from the start of the process until it listens.
LEMMA MainStep ==
  ASSUME IInv, NEW s \in Servers, Main(s)
  PROVE  TypeOK' /\ Connections'
<1> USE DEF IInv
<1>0. Connections
  BY DEF Connections
<1>1. CASE FirstStart(s)
  <2>1. orderly' \in BOOLEAN /\ Start(s) /\ mode[s] = "down"
    BY <1>1 DEF FirstStart, TypeOK
  <2> QED
    BY <1>0, <2>1, StartTypes, StartConnections
<1>2. CASE Listen(s)
  <2>1. TypeOK'
    BY <1>2, MainTypes
  <2>2. /\ UNCHANGED <<todo, openings, starts, timer>>
        /\ \A t \in Servers : \/ mode'[t] = mode[t]
                              \/ mode[t] # "down" /\ mode'[t] \notin {"down", "poisoned"}
    BY <1>2 DEF Listen, startup, ghosts, TypeOK
  <2>3. \A p \in Pairs : Open(p)' = Open(p)
    BY <2>2 DEF Open
  <2> QED
    BY <1>0, <2>1, <2>2, <2>3, OthersConnections
<1>3. ASSUME NEW t \in Servers, Connect(s, t)
      PROVE  TypeOK' /\ Connections'
  BY <1>0, <1>3, MainTypes, ConnectConnections
<1>4. ASSUME NEW t \in Servers, Refused(s, t)
      PROVE  TypeOK' /\ Connections'
  <2>1. TypeOK'
    BY <1>4, MainTypes
  <2>2. /\ UNCHANGED <<mode, openings, starts, timer>>
        /\ todo' = todo \/ todo' = [todo EXCEPT ![s] = todo[s] \ {t}]
    BY <1>4 DEF Refused
  <2>3. \A p \in Pairs : Open(p)' = Open(p)
    BY <2>2 DEF Open
  <2>4. \A u \in Servers : todo'[u] \subseteq todo[u]
    BY <2>2 DEF TypeOK
  <2> QED
    BY <1>0, <2>1, <2>2, <2>3, <2>4, OthersConnections
<1> QED
  BY <1>1, <1>2, <1>3, <1>4 DEF Main

\* Failures, and a return.
LEMMA FailureStep ==
  ASSUME IInv, NEW s \in Servers, Restart(s) \/ Fail(s)
  PROVE  TypeOK' /\ Connections'
<1> USE DEF IInv
<1>0. Connections
  BY DEF Connections
<1>1. CASE Restart(s)
  <2>1. orderly' \in BOOLEAN /\ Start(s) /\ mode[s] = "killed"
    BY <1>1 DEF Restart
  <2> QED
    BY <1>0, <2>1, StartTypes, StartConnections
<1>2. CASE Fail(s)
  <2>1. TypeOK'
    BY <1>2, FailTypes
  <2>2. /\ UNCHANGED <<todo, openings, starts, timer>>
        /\ \A t \in Servers : \/ mode'[t] = mode[t]
                              \/ mode[t] # "down" /\ mode'[t] \notin {"down", "poisoned"}
    BY <1>2 DEF Fail, Running, startup, TypeOK
  <2>3. \A p \in Pairs : Open(p)' = Open(p)
    BY <2>2 DEF Open
  <2> QED
    BY <1>0, <2>1, <2>2, <2>3, OthersConnections
<1> QED
  BY <1>1, <1>2

\* The tasks of one connection.
LEMMA LinkStep ==
  ASSUME IInv, NEW p \in Pairs,
         \/ \E out \in BOOLEAN : OpenSocket(p[1], p[2], out)
         \/ Heartbeats(p[1], p[2]) \/ LeaderTask(p[1], p[2])
         \/ ReadAnnouncement(p[1], p[2]) \/ LoseAnnouncement(p[1], p[2])
  PROVE  TypeOK' /\ Connections'
<1> USE DEF IInv
<1>0. Connections
  BY DEF Connections
<1>1. p[1] \in Servers /\ p[2] \in Servers /\ p[1] # p[2]
  BY DEF Pairs
<1>2. ASSUME NEW out \in BOOLEAN, OpenSocket(p[1], p[2], out)
      PROVE  TypeOK' /\ Connections'
  <2>1. TypeOK'
    BY <1>2, SocketTypes
  <2>2. CASE out = TRUE
    BY <1>0, <1>1, <1>2, <2>1, <2>2, OutConnections
  <2>3. CASE out = FALSE
    BY <1>0, <1>1, <1>2, <2>1, <2>3, InConnections
  <2> QED
    BY <2>2, <2>3
<1>3. CASE \/ Heartbeats(p[1], p[2]) \/ LeaderTask(p[1], p[2])
           \/ ReadAnnouncement(p[1], p[2]) \/ LoseAnnouncement(p[1], p[2])
  BY <1>0, <1>3, LinkTypes, LinkConnections
<1> QED
  BY <1>2, <1>3

(***************************************************************************)
(* The theorems                                                            *)
(***************************************************************************)
\* The invariant holds in every reachable state of a cluster of pa2's servers.
THEOREM Invariance == Spec => []IInv
<1>1. Init => IInv
  BY Initially
<1>2. IInv /\ [Next]_vars => IInv'
  <2>1. CASE Next
    <3> SUFFICES ASSUME IInv PROVE IInv'
      BY <2>1
    <3>1. OnlyLower'
      BY <2>1, LowerStep DEF IInv
    <3>2. TypeOK' /\ Connections'
      <4>1. \/ \E s \in Servers : Main(s) \/ Restart(s) \/ Fail(s)
            \/ \E p \in Pairs :
                 \/ \E out \in BOOLEAN : OpenSocket(p[1], p[2], out)
                 \/ Heartbeats(p[1], p[2]) \/ LeaderTask(p[1], p[2])
                 \/ ReadAnnouncement(p[1], p[2]) \/ LoseAnnouncement(p[1], p[2])
        BY <2>1 DEF Next, Work
      <4> QED
        BY <4>1, MainStep, FailureStep, LinkStep
    <3> QED
      BY <3>1, <3>2 DEF IInv, Connections
  <2>2. CASE UNCHANGED vars
    <3> SUFFICES ASSUME IInv PROVE IInv'
      BY <2>2
    <3> USE DEF vars, startup, election, ghosts
    <3>1. TypeOK' /\ OnlyLower'
      BY <2>2 DEF IInv, TypeOK, OnlyLower, Open
    <3>2. Connections'
      <4>1. /\ UNCHANGED <<mode, todo, openings, starts, timer>>
            /\ TypeOK /\ OnlyLower /\ Connections
        BY <2>2 DEF IInv, Connections
      <4>2. \A p \in Pairs : Open(p)' = Open(p)
        BY <4>1 DEF Open
      <4> QED
        BY <4>1, <4>2, OthersConnections
    <3> QED
      BY <3>1, <3>2 DEF IInv, Connections
  <2> QED
    BY <2>1, <2>2
<1> QED
  BY <1>1, <1>2, PTL DEF Spec

\* The state keeps its types; a server considers itself alive, and a connection has a
\* leader task as long as it has heartbeats (peer_task).
THEOREM TypeCorrect == Spec => []TypeOK
<1>1. IInv => TypeOK
  BY DEF IInv
<1> QED
  BY <1>1, Invariance, PTL

\* No receiver is taken twice (peer_task) unless a server with a higher id comes back.
THEOREM OnlyReturnStops == Spec => []OnlyReturnPoisons
<1>1. IInv => OnlyReturnPoisons
  BY DEF IInv
<1> QED
  BY <1>1, Invariance, PTL

-----------------------------------------------------------------------------
(***************************************************************************)
(* What LeaderFollows rests on                                             *)
(***************************************************************************)
Failed(s) == mode[s] \in {"killed", "frozen"}
AFailure == \E s \in Servers : Failed(s)

\* One server fails, and is silent to all that are connected to it.
FewFail ==
  /\ failures = 0 => ~AFailure
  /\ \A s, t \in Servers : Failed(s) /\ Failed(t) => s = t
  /\ \A s \in Servers : \A t \in Servers \ {s} : Failed(t) => silent[<<s, t>>]

StartedOnce == \A s \in Servers : starts[s] <= 1

OnlyFailedSilent ==
  \A s \in Servers : \A t \in Servers \ {s} : silent[<<s, t>>] => Failed(t)

\* Heartbeats have marked the peer dead, and, later, notified the leader tasks.
Noticed(s, t) == timer[<<s, t>>] \in {"marked", "done"}
Told(s) == \E f \in Servers \ {s} : timer[<<s, f>>] = "done"

\* Nothing that the failed server announced is left once its failure is noticed.
NoticedFailed ==
  \A s \in Servers : \A t \in Servers \ {s} :
    /\ Noticed(s, t) <=> t \notin alive[s]
    /\ Noticed(s, t) => Failed(t) /\ announced[<<t, s>>] = 0

AllStarted ==
  AFailure => \A s \in Servers : \A t \in Servers \ {s} : task[<<s, t>>] \notin {"none", "start"}

\* Leader tasks run once their server was told, and choose from those that are still alive.
Chosen ==
  \A s \in Servers : \A t \in Servers \ {s} :
    /\ task[<<s, t>>] \in {"woken", "set", "announce"} => Told(s)
    /\ task[<<s, t>>] \in {"set", "announce"} => choice[<<s, t>>] = Highest(alive[s])

\* A server that was told follows, or has a task that will make it.
Following ==
  \A s \in Servers :
    IF Told(s)
    THEN \/ leader[s] = Highest(alive[s])
         \/ \E t \in Servers \ {s} : task[<<s, t>>] \in {"woken", "set"}
    ELSE leader[s] = Highest(Servers) \/ AFailure

\* A server that announces itself is the highest, or the highest of those that survive.
Announcers ==
  \A s \in Servers : \A t \in Servers \ {s} : announced[<<s, t>>] > 0 =>
    \/ s = Highest(Servers)
    \/ \E f \in Servers : Failed(f) /\ s = Highest(Servers \ {f})

Calm == /\ StartedOnce /\ OnlyFailedSilent /\ NoticedFailed /\ AllStarted
        /\ Chosen /\ Following /\ Announcers

LeaderInv == FewFail /\ (orderly => Calm)

-----------------------------------------------------------------------------
\* No two servers have the same priority (validate_config), so that the highest stays the
\* highest among fewer.
LEMMA HighestOfFewer ==
  ASSUME NEW S \in SUBSET Servers, NEW T \in SUBSET S, Highest(S) \in T, S # {}
  PROVE  Highest(T) = Highest(S)
<1>1. /\ Highest(S) \in S /\ \A t \in S : Priority[t] <= Priority[Highest(S)]
      /\ Highest(T) \in T /\ \A t \in T : Priority[t] <= Priority[Highest(T)]
  BY HighestExists
<1>2. /\ Priority[Highest(T)] <= Priority[Highest(S)]
      /\ Priority[Highest(S)] <= Priority[Highest(T)]
  BY <1>1
<1>3. Priority[Highest(T)] = Priority[Highest(S)]
  <2>1. Priority[Highest(T)] \in Nat /\ Priority[Highest(S)] \in Nat
    BY <1>1, Constants
  <2> QED
    BY <1>2, <2>1
<1>4. \A a, b \in Servers : Priority[a] = Priority[b] => a = b
  <2>1. Servers = {Config[i] : i \in DOMAIN Config}
    BY Zenon, ClusterAssumption
  <2>2. \A i, j \in DOMAIN Config : Priority[Config[i]] = Priority[Config[j]] => i = j
    BY Zenon, ClusterAssumption
  <2> QED
    BY <2>1, <2>2
<1> QED
  BY <1>1, <1>3, <1>4

\* Who noticed the failure considers all others alive.
LEMMA OthersAlive ==
  ASSUME TypeOK, FewFail, NoticedFailed, NEW s \in Servers
  PROVE  /\ \A f \in Servers \ {s} : Noticed(s, f) => alive[s] = Servers \ {f}
         /\ Told(s) => \E f \in Servers \ {s} : Noticed(s, f) /\ Failed(f)
         /\ ~AFailure => ~Told(s) /\ alive[s] = Servers
<1>1. alive[s] \subseteq Servers /\ s \in alive[s]
  BY DEF TypeOK
<1>2. ASSUME NEW f \in Servers \ {s}, Noticed(s, f)
      PROVE  alive[s] = Servers \ {f}
  <2>1. Failed(f) /\ f \notin alive[s]
    BY <1>2 DEF NoticedFailed
  <2>2. ASSUME NEW t \in Servers, t \notin alive[s] PROVE t = f
    <3>1. t # s /\ Noticed(s, t)
      BY <1>1, <2>2 DEF NoticedFailed
    <3>2. Failed(t)
      BY <3>1 DEF NoticedFailed
    <3> QED
      BY <2>1, <3>2 DEF FewFail
  <2> QED
    BY <1>1, <2>1, <2>2
<1>3. ASSUME Told(s) PROVE \E f \in Servers \ {s} : Noticed(s, f) /\ Failed(f)
  BY <1>3 DEF Told, Noticed, NoticedFailed
<1>4. ASSUME ~AFailure PROVE alive[s] = Servers
  <2>1. \A t \in Servers \ {s} : ~Failed(t)
    BY <1>4 DEF AFailure
  <2>2. \A t \in Servers \ {s} : t \in alive[s]
    BY <2>1 DEF NoticedFailed
  <2> QED
    BY <1>1, <2>2
<1> QED
  BY <1>2, <1>3, <1>4 DEF AFailure

LEMMA LeaderInit == Init => LeaderInv
<1> SUFFICES ASSUME Init PROVE LeaderInv
  OBVIOUS
<1> USE DEF Init, Failed, AFailure
<1>0. \A s \in Servers : \A t \in Servers \ {s} : <<s, t>> \in Pairs
  BY DEF Pairs
<1>1. FewFail
  BY DEF FewFail
<1>2. StartedOnce /\ OnlyFailedSilent /\ AllStarted
  BY <1>0 DEF StartedOnce, OnlyFailedSilent, AllStarted
<1>3. NoticedFailed /\ Chosen /\ Following /\ Announcers
  BY <1>0 DEF NoticedFailed, Noticed, Chosen, Following, Told, Announcers
<1> QED
  BY <1>1, <1>2, <1>3 DEF LeaderInv, Calm

\* Only a server that starts a second time, or gives another up, or a failure ends the calm.
LEMMA CalmBefore ==
  ASSUME Next, orderly' PROVE orderly
BY DEF Next, Work, Main, FirstStart, Listen, Connect, Refused, OpenSocket, Heartbeats, MarkDead,
   Notify, LeaderTask, TaskStarts, TaskLooks, TaskSets, TaskAnnounces, ReadAnnouncement,
   LoseAnnouncement, Restart, Fail, ghosts

\* No server is stopped as long as none is started again.
LEMMA NobodyPoisoned ==
  ASSUME OnlyReturnPoisons, StartedOnce, TypeOK
  PROVE  \A s \in Servers : mode[s] # "poisoned"
BY DEF OnlyReturnPoisons, StartedOnce, TypeOK

\* A failure, or none, lasts, as do the links that it broke.
LEMMA FewFailStep ==
  ASSUME TypeOK, FewFail, Next, MaxFailures \in 0 .. 1
  PROVE  FewFail'
<1> USE DEF FewFail, AFailure, Failed
<1>0. \A s \in Servers : \A t \in Servers \ {s} : <<s, t>> \in Pairs
  BY DEF Pairs
<1>1. ASSUME NEW s \in Servers, Start(s) PROVE FewFail'
  <2>1. \A t \in Servers : mode'[t] = IF t = s THEN "connecting" ELSE mode[t]
    BY <1>1 DEF Start, TypeOK
  <2>2. UNCHANGED <<silent, failures>>
    BY <1>1 DEF Start
  <2> QED
    BY <2>1, <2>2
<1>2. ASSUME NEW s \in Servers, Fail(s) PROVE FewFail'
  <2>1. failures \in Nat /\ failures < MaxFailures /\ failures' = failures + 1
    BY <1>2 DEF Fail, TypeOK
  <2>2. failures = 0 /\ failures' # 0
    BY <2>1
  <2>3. \A t \in Servers : ~Failed(t)
    BY <2>2
  <2>4. \A t \in Servers : Failed(t)' => t = s
    BY <1>2, <2>3 DEF Fail, TypeOK
  <2>5. \A a \in Servers : \A b \in Servers \ {a} : silent'[<<a, b>>] = (silent[<<a, b>>] \/ b = s)
    BY <1>0, <1>2 DEF Fail
  <2> QED
    BY <2>2, <2>4, <2>5
<1>3. ASSUME NEW s \in Servers, NEW t \in Servers, Connect(s, t) PROVE FewFail'
  <2>1. UNCHANGED <<mode, failures>>
    BY <1>3 DEF Connect, ghosts
  <2>2. \A a \in Servers : \A b \in Servers \ {a} :
          silent'[<<a, b>>] = IF a = s /\ b = t THEN mode[t] # "up" ELSE silent[<<a, b>>]
    BY <1>0, <1>3 DEF Connect, TypeOK
  <2> QED
    BY ZenonT(60), <2>1, <2>2
<1>4. ASSUME NEW s \in Servers, NEW t \in Servers \ {s}, NEW out \in BOOLEAN, OpenSocket(s, t, out)
      PROVE  FewFail'
  <2>1. failures' = failures /\ Running(s) /\ ~Failed(s)
    BY <1>4 DEF OpenSocket, ghosts, Running
  <2>2. \A a \in Servers : Failed(a)' => Failed(a)
    BY <1>4 DEF OpenSocket, TypeOK
  <2>3. \A a \in Servers : \A b \in Servers \ {a} : b # s /\ silent[<<a, b>>] => silent'[<<a, b>>]
    <3>1. \/ silent' = [p \in Pairs |-> silent[p] \/ p[2] = s]
          \/ silent' = silent \/ silent' = [silent EXCEPT ![<<t, s>>] = FALSE]
      BY <1>4 DEF OpenSocket
    <3> QED
      BY <1>0, <3>1 DEF TypeOK
  <2>4. ~Failed(s)'
    BY <2>1, <2>2
  <2> QED
    BY <2>1, <2>2, <2>3, <2>4
<1>5. ASSUME UNCHANGED <<silent, failures>>, \A a \in Servers : Failed(a)' => Failed(a)
      PROVE  FewFail'
  BY <1>5
<1>6. ASSUME NEW s \in Servers, Listen(s) \/ \E t \in Servers : Refused(s, t)
      PROVE  FewFail'
  BY <1>5, <1>6 DEF Listen, Refused, ghosts, TypeOK
<1>7. ASSUME NEW p \in Pairs,
             \/ Heartbeats(p[1], p[2]) \/ LeaderTask(p[1], p[2])
             \/ ReadAnnouncement(p[1], p[2]) \/ LoseAnnouncement(p[1], p[2])
      PROVE  FewFail'
  <2>1. UNCHANGED <<mode, silent, failures>>
    BY <1>7 DEF Heartbeats, MarkDead, Notify, LeaderTask, TaskStarts, TaskLooks, TaskSets,
       TaskAnnounces, ReadAnnouncement, LoseAnnouncement, ghosts
  <2> QED
    BY <1>5, <2>1
<1>8. ASSUME NEW p \in Pairs, NEW out \in BOOLEAN, OpenSocket(p[1], p[2], out)
      PROVE  FewFail'
  <2>1. p[1] \in Servers /\ p[2] \in Servers \ {p[1]}
    BY DEF Pairs
  <2> QED
    BY <1>4, <1>8, <2>1
<1>9. ASSUME NEW s \in Servers, Main(s) \/ Restart(s) \/ Fail(s)
      PROVE  FewFail'
  BY <1>1, <1>2, <1>3, <1>6, <1>9 DEF Main, FirstStart, Restart
<1> QED
  BY <1>7, <1>8, <1>9 DEF Next, Work

\* The state in which one connected server may have failed, and what follows from it.
Orderly == IInv /\ FewFail /\ Calm /\ OnlyReturnPoisons'

LEMMA OrderlyFacts ==
  ASSUME Orderly
  PROVE  /\ TypeOK /\ FewFail /\ StartedOnce /\ OnlyFailedSilent /\ NoticedFailed
         /\ AllStarted /\ Chosen /\ Following /\ Announcers /\ OnlyReturnPoisons
         /\ StartsCounted /\ OnlyLower
         /\ \A s \in Servers : \A t \in Servers \ {s} : <<s, t>> \in Pairs /\ <<t, s>> \in Pairs
         /\ \A s \in Servers : mode[s] # "poisoned"
BY NobodyPoisoned DEF Orderly, IInv, Calm, Pairs

\* Steps that tell no server of anything.
LEMMA QuietCalm ==
  ASSUME Orderly, UNCHANGED <<timer, task, choice, alive, leader, announced, starts>>,
         \A s \in Servers : Failed(s)' = Failed(s),
         \A s \in Servers : \A t \in Servers \ {s} : silent'[<<s, t>>] => Failed(t)
  PROVE  Calm'
<1> USE OrderlyFacts
<1>0. AFailure' = AFailure
  BY DEF AFailure
<1>1. StartedOnce' /\ OnlyFailedSilent' /\ AllStarted'
  BY <1>0 DEF StartedOnce, OnlyFailedSilent, AllStarted
<1>2. NoticedFailed'
  BY DEF NoticedFailed, Noticed
<1>3. Chosen' /\ Following'
  BY <1>0 DEF Chosen, Following, Told
<1>4. Announcers'
  BY DEF Announcers
<1> QED
  BY <1>1, <1>2, <1>3, <1>4 DEF Calm

\* A server starts before any failure: after one, all leader tasks have run.
LEMMA StartCalm ==
  ASSUME Orderly, NEW s \in Servers, FirstStart(s)
  PROVE  Calm'
<1> USE OrderlyFacts
<1>1. /\ starts[s] = 0 /\ \A t \in Servers \ {s} : task[<<s, t>>] = "none" /\ ~Open(<<s, t>>)
  BY DEF FirstStart, StartsCounted, TypeOK
<1>2. ~AFailure /\ \A t \in Servers : ~Failed(t)
  <2>1. \A t \in Servers \ {s} : ~Failed(t)
    BY <1>1 DEF AllStarted, AFailure
  <2>2. ~Failed(s)
    BY DEF FirstStart, Failed
  <2> QED
    BY <2>1, <2>2 DEF AFailure
<1>3. /\ \A t \in Servers : mode'[t] = IF t = s THEN "connecting" ELSE mode[t]
      /\ \A t \in Servers : starts'[t] = IF t = s THEN starts[s] + 1 ELSE starts[t]
      /\ \A t \in Servers : alive'[t] = IF t = s THEN Servers ELSE alive[t]
      /\ \A t \in Servers : leader'[t] = IF t = s THEN Highest(Servers) ELSE leader[t]
      /\ UNCHANGED <<announced, silent>>
  BY DEF FirstStart, Start, TypeOK
<1>4. \A a \in Servers : \A b \in Servers \ {a} :
        /\ timer'[<<a, b>>] = IF a = s THEN "off" ELSE timer[<<a, b>>]
        /\ task'[<<a, b>>] = IF a = s THEN "none" ELSE task[<<a, b>>]
        /\ choice'[<<a, b>>] = IF a = s THEN s ELSE choice[<<a, b>>]
  BY DEF FirstStart, Start, Of
<1>5. ~AFailure' /\ \A t \in Servers : ~Failed(t)'
  BY <1>2, <1>3 DEF AFailure, Failed
<1>6. StartedOnce' /\ OnlyFailedSilent' /\ AllStarted'
  BY <1>1, <1>2, <1>3, <1>5 DEF StartedOnce, OnlyFailedSilent, AllStarted
<1>7. \A a \in Servers : \A b \in Servers \ {a} :
        ~Noticed(a, b) /\ ~Noticed(a, b)' /\ b \in alive[a] /\ b \in alive'[a]
  <2>1. \A a \in Servers : \A b \in Servers \ {a} : ~Noticed(a, b) /\ b \in alive[a]
    BY <1>2 DEF NoticedFailed
  <2> QED
    BY <1>3, <1>4, <2>1 DEF Noticed
<1>8. NoticedFailed' /\ \A t \in Servers : ~Told(t) /\ ~Told(t)'
  BY <1>7 DEF NoticedFailed, Told, Noticed
<1>9. Chosen' /\ Following'
  BY <1>2, <1>3, <1>4, <1>8 DEF Chosen, Following
<1>10. Announcers'
  BY <1>2, <1>3 DEF Announcers
<1> QED
  BY <1>6, <1>8, <1>9, <1>10 DEF Calm

\* A connection is opened before any failure, by its end here.
LEMMA OpenCalm ==
  ASSUME Orderly, NEW s \in Servers, NEW t \in Servers \ {s}, NEW out \in BOOLEAN,
         OpenSocket(s, t, out)
  PROVE  Calm'
<1> USE OrderlyFacts
<1>0. starts' = starts /\ UNCHANGED <<alive, leader, choice, announced>>
  BY DEF OpenSocket, ghosts
<1>1. ~Open(<<s, t>>)
  <2> SUFFICES ASSUME Open(<<s, t>>) PROVE FALSE
    OBVIOUS
  <2>1. mode'[s] = "poisoned"
    BY DEF OpenSocket, TypeOK
  <2>2. PICK u \in Servers : starts'[u] > 1
    BY <2>1 DEF Orderly, OnlyReturnPoisons
  <2>3. starts[u] <= 1 /\ starts[u] \in Nat
    BY DEF StartedOnce, TypeOK
  <2> QED
    BY <1>0, <2>2, <2>3
<1>2. /\ UNCHANGED mode
      /\ timer' = [timer EXCEPT ![<<s, t>>] = "on"]
      /\ task' = [task EXCEPT ![<<s, t>>] = "start"]
      /\ silent' = silent \/ silent' = [silent EXCEPT ![<<t, s>>] = FALSE]
  BY <1>1 DEF OpenSocket
<1>3. timer[<<s, t>>] = "off" /\ task[<<s, t>>] = "none"
  BY <1>1 DEF TypeOK, Open
<1>4. \A a \in Servers : \A b \in Servers \ {a} :
        /\ timer'[<<a, b>>] = IF a = s /\ b = t THEN "on" ELSE timer[<<a, b>>]
        /\ task'[<<a, b>>] = IF a = s /\ b = t THEN "start" ELSE task[<<a, b>>]
        /\ silent'[<<a, b>>] => silent[<<a, b>>]
  BY ZenonT(60), <1>2 DEF TypeOK
<1>5. ~AFailure /\ AFailure' = AFailure /\ \A a \in Servers : Failed(a)' = Failed(a)
  BY <1>2, <1>3 DEF AllStarted, AFailure, Failed
<1>6. StartedOnce' /\ OnlyFailedSilent' /\ AllStarted'
  BY <1>0, <1>4, <1>5 DEF StartedOnce, OnlyFailedSilent, AllStarted
<1>7. NoticedFailed'
  <2>1. \A a \in Servers : \A b \in Servers \ {a} : Noticed(a, b)' <=> Noticed(a, b)
    <3> SUFFICES ASSUME NEW a \in Servers, NEW b \in Servers \ {a}
                 PROVE  timer'[<<a, b>>] \in {"marked", "done"} <=>
                          timer[<<a, b>>] \in {"marked", "done"}
      BY DEF Noticed
    <3>1. timer'[<<a, b>>] = IF a = s /\ b = t THEN "on" ELSE timer[<<a, b>>]
      BY <1>4
    <3> QED
      BY <1>3, <3>1
  <2> QED
    BY <1>0, <1>5, <2>1 DEF NoticedFailed
<1>8. \A a \in Servers : Told(a)' = Told(a)
  BY ZenonT(60), <1>3, <1>4 DEF Told
<1>9. Chosen'
  BY <1>0, <1>4, <1>8 DEF Chosen
<1>10. Following'
  BY <1>0, <1>3, <1>4, <1>5, <1>8 DEF Following
<1>11. Announcers'
  BY <1>0, <1>5 DEF Announcers
<1> QED
  BY <1>6, <1>7, <1>9, <1>10, <1>11 DEF Calm

\* The first failure comes when all leader tasks wait, or what is left is not orderly.
LEMMA FailCalm ==
  ASSUME Orderly, MaxFailures \in 0 .. 1, NEW s \in Servers, Fail(s), orderly'
  PROVE  Calm'
<1> USE OrderlyFacts
<1>1. failures = 0
  BY DEF Fail, TypeOK
<1>2. ~AFailure /\ \A t \in Servers : ~Failed(t)
  BY <1>1 DEF FewFail, AFailure
<1>3. \A a \in Servers : \A b \in Servers \ {a} : task[<<a, b>>] \notin {"none", "start"}
  BY <1>2 DEF Fail, Failed
<1>4. /\ \A t \in Servers : Failed(t)' <=> t = s
      /\ \A a \in Servers : \A b \in Servers \ {a} :
           /\ silent'[<<a, b>>] <=> silent[<<a, b>>] \/ b = s
           /\ announced'[<<a, b>>] = IF b = s THEN 0 ELSE announced[<<a, b>>]
      /\ UNCHANGED <<timer, task, choice, alive, leader, starts>>
  BY <1>2 DEF Fail, Failed, TypeOK
<1>5. StartedOnce' /\ OnlyFailedSilent' /\ AllStarted'
  BY <1>2, <1>3, <1>4 DEF StartedOnce, OnlyFailedSilent, AllStarted
<1>6. NoticedFailed'
  BY <1>2, <1>4 DEF NoticedFailed, Noticed
<1>7. \A t \in Servers : ~Told(t) /\ ~Told(t)'
  BY <1>2, <1>4 DEF Told, NoticedFailed, Noticed
<1>8. Chosen' /\ Following'
  BY <1>2, <1>4, <1>7 DEF Chosen, Following
<1>9. Announcers'
  <2> SUFFICES ASSUME NEW a \in Servers, NEW b \in Servers \ {a}, announced'[<<a, b>>] > 0
               PROVE  a = Highest(Servers)
    BY DEF Announcers
  <2>1. announced'[<<a, b>>] = announced[<<a, b>>]
    BY <1>4
  <2> QED
    BY <1>2, <2>1 DEF Announcers
<1> QED
  BY <1>5, <1>6, <1>8, <1>9 DEF Calm

\* Heartbeats notice the failure, and then wake every leader task, for all of them wait.
LEMMA HeartbeatsCalm ==
  ASSUME Orderly, NEW s \in Servers, NEW t \in Servers \ {s}, Heartbeats(s, t)
  PROVE  Calm'
<1> USE OrderlyFacts
<1>0. /\ UNCHANGED <<mode, starts, silent, choice, leader, announced>>
      /\ AFailure' = AFailure /\ \A a \in Servers : Failed(a)' = Failed(a)
  BY DEF Heartbeats, MarkDead, Notify, election, ghosts, AFailure, Failed
<1>1. StartedOnce' /\ OnlyFailedSilent' /\ Announcers'
  BY <1>0 DEF StartedOnce, OnlyFailedSilent, Announcers
<1>2. CASE MarkDead(s, t)
  <2>1. /\ timer[<<s, t>>] = "on" /\ Failed(t) /\ announced[<<t, s>>] = 0 /\ AFailure
        /\ UNCHANGED task
    BY <1>2 DEF MarkDead, OnlyFailedSilent, election, AFailure
  <2>2. /\ \A a \in Servers : \A b \in Servers \ {a} :
             timer'[<<a, b>>] = IF a = s /\ b = t THEN "marked" ELSE timer[<<a, b>>]
        /\ \A a \in Servers : alive'[a] = IF a = s THEN alive[s] \ {t} ELSE alive[a]
    BY <1>2 DEF MarkDead, TypeOK
  <2>3. ~Told(s)
    <3>1. ASSUME NEW f \in Servers \ {s}, timer[<<s, f>>] = "done" PROVE FALSE
      <4>1. Failed(f) /\ f # t
        BY <2>1, <3>1 DEF NoticedFailed, Noticed
      <4> QED
        BY <2>1, <4>1 DEF FewFail
    <3> QED
      BY <3>1 DEF Told
  <2>4. \A a \in Servers : Told(a)' = Told(a)
    BY <2>1, <2>2 DEF Told
  <2>5. AllStarted'
    BY <1>0, <2>1 DEF AllStarted
  <2>6. NoticedFailed'
    <3>1. \A a \in Servers : \A b \in Servers \ {a} :
            /\ Noticed(a, b)' <=> Noticed(a, b) \/ (a = s /\ b = t)
            /\ b \in alive'[a] <=> b \in alive[a] /\ ~(a = s /\ b = t)
      BY <2>2 DEF Noticed
    <3> QED
      BY <1>0, <2>1, <3>1 DEF NoticedFailed
  <2>7. Chosen'
    BY <1>0, <2>1, <2>2, <2>3, <2>4 DEF Chosen
  <2>8. Following'
    BY <1>0, <2>1, <2>2, <2>3, <2>4 DEF Following
  <2> QED
    BY <1>1, <2>5, <2>6, <2>7, <2>8 DEF Calm
<1>3. CASE Notify(s, t)
  <2>1. /\ timer[<<s, t>>] = "marked" /\ UNCHANGED alive
        /\ \A a \in Servers : \A b \in Servers \ {a} :
             /\ timer'[<<a, b>>] = IF a = s /\ b = t THEN "done" ELSE timer[<<a, b>>]
             /\ task'[<<a, b>>] = IF a = s /\ task[<<a, b>>] = "waiting" THEN "woken"
                                  ELSE task[<<a, b>>]
    BY <1>3 DEF Notify, TypeOK
  <2>2. Failed(t) /\ AFailure
    BY <2>1 DEF NoticedFailed, Noticed, AFailure
  <2>3. ~Told(s)
    <3>1. ASSUME NEW f \in Servers \ {s}, timer[<<s, f>>] = "done" PROVE FALSE
      <4>1. Failed(f) /\ f # t
        BY <2>1, <3>1 DEF NoticedFailed, Noticed
      <4> QED
        BY <2>2, <4>1 DEF FewFail
    <3> QED
      BY <3>1 DEF Told
  <2>4. Told(s)' /\ \A a \in Servers \ {s} : Told(a)' = Told(a)
    BY <2>1 DEF Told
  <2>5. task[<<s, t>>] = "waiting"
    <3>1. task[<<s, t>>] \notin {"none", "start", "woken", "set", "announce"}
      BY <2>2, <2>3 DEF AllStarted, Chosen
    <3> QED
      BY <3>1 DEF TypeOK
  <2>6. AllStarted'
    BY <1>0, <2>1 DEF AllStarted
  <2>7. NoticedFailed'
    BY ZenonT(60), <1>0, <2>1 DEF NoticedFailed, Noticed
  <2>8. Chosen'
    BY <1>0, <2>1, <2>4 DEF Chosen
  <2>9. Following'
    <3>1. task'[<<s, t>>] = "woken"
      BY <2>1, <2>5
    <3>2. ASSUME NEW a \in Servers \ {s}
          PROVE  \A b \in Servers \ {a} : task'[<<a, b>>] = task[<<a, b>>]
      BY <2>1
    <3> QED
      BY <1>0, <2>1, <2>4, <3>1, <3>2 DEF Following
  <2> QED
    BY <1>1, <2>6, <2>7, <2>8, <2>9 DEF Calm
<1> QED
  BY <1>2, <1>3 DEF Heartbeats

\* Leader tasks choose from those that are alive, and make their server follow its choice.
LEMMA TaskCalm ==
  ASSUME Orderly, NEW s \in Servers, NEW t \in Servers \ {s}, LeaderTask(s, t)
  PROVE  Calm'
<1> USE OrderlyFacts
<1>0. /\ UNCHANGED <<mode, starts, silent, timer, alive>>
      /\ AFailure' = AFailure /\ \A a \in Servers : Failed(a)' = Failed(a)
      /\ \A a \in Servers : Told(a)' = Told(a)
      /\ \A a, b \in Servers : Noticed(a, b)' = Noticed(a, b)
  BY DEF LeaderTask, TaskStarts, TaskLooks, TaskSets, TaskAnnounces, ghosts, AFailure, Failed,
     Told, Noticed
<1>1. StartedOnce' /\ OnlyFailedSilent'
  BY <1>0 DEF StartedOnce, OnlyFailedSilent
<1>2. Running(s) /\ ~Failed(s) /\ alive[s] \in SUBSET Servers /\ Highest(alive[s]) \in Servers
  <2>1. Running(s) /\ ~Failed(s)
    BY DEF LeaderTask, TaskStarts, TaskLooks, TaskSets, TaskAnnounces, Running, Failed
  <2>2. alive[s] \in SUBSET Servers /\ alive[s] # {}
    BY DEF TypeOK
  <2> QED
    BY <2>1, <2>2, HighestExists
<1>3. \A a \in Servers : \A b \in Servers \ {a} :
        \/ Announced(s, t)[<<a, b>>] = announced[<<a, b>>]
        \/ a = s /\ b = t
  BY DEF Announced, TypeOK
<1>4. ASSUME announced' = announced \/ announced' = Announced(s, t)
      PROVE  NoticedFailed'
  <2>1. \A a \in Servers : \A b \in Servers \ {a} :
          announced'[<<a, b>>] = announced[<<a, b>>] \/ (a = s /\ b = t)
    BY <1>3, <1>4
  <2>2. \A a \in Servers : \A b \in Servers \ {a} :
          Noticed(a, b) => Failed(b) /\ b # s /\ announced'[<<b, a>>] = 0
    BY <1>2, <2>1 DEF NoticedFailed
  <2> QED
    BY <1>0, <2>2 DEF NoticedFailed
<1>5. ASSUME \/ announced' = announced
             \/ /\ announced' = Announced(s, t)
                /\ s = Highest(Servers) \/ \E f \in Servers : Failed(f) /\ s = Highest(Servers \ {f})
      PROVE  Announcers'
  <2> SUFFICES ASSUME NEW a \in Servers, NEW b \in Servers \ {a}, announced'[<<a, b>>] > 0
               PROVE  \/ a = Highest(Servers)
                      \/ \E f \in Servers : Failed(f) /\ a = Highest(Servers \ {f})
    BY <1>0 DEF Announcers
  <2>1. CASE announced'[<<a, b>>] = announced[<<a, b>>]
    BY <2>1 DEF Announcers
  <2>2. CASE announced'[<<a, b>>] # announced[<<a, b>>]
    BY <1>3, <1>5, <2>2
  <2> QED
    BY <2>1, <2>2
<1>6. CASE TaskStarts(s, t)
  <2>1. ~AFailure /\ task[<<s, t>>] = "start"
    BY <1>6 DEF TaskStarts, AllStarted
  <2>2. /\ \A a \in Servers : \A b \in Servers \ {a} :
             task'[<<a, b>>] = IF a = s /\ b = t THEN "waiting" ELSE task[<<a, b>>]
        /\ UNCHANGED <<choice, leader>>
    BY <1>6 DEF TaskStarts, TypeOK
  <2>3. AllStarted'
    BY <1>0, <2>1 DEF AllStarted
  <2>4. Chosen'
    BY <1>0, <2>2 DEF Chosen
  <2>5. Following'
    BY <1>0, <2>1, <2>2 DEF Following
  <2>6. NoticedFailed' /\ Announcers'
    BY <1>4, <1>5, <1>6 DEF TaskStarts
  <2> QED
    BY <1>1, <2>3, <2>4, <2>5, <2>6 DEF Calm
<1>7. CASE TaskLooks(s, t)
  <2>1. /\ task[<<s, t>>] = "woken" /\ UNCHANGED <<leader, announced>>
        /\ \A a \in Servers : \A b \in Servers \ {a} :
             /\ task'[<<a, b>>] = IF a = s /\ b = t THEN "set" ELSE task[<<a, b>>]
             /\ choice'[<<a, b>>] = IF a = s /\ b = t THEN Highest(alive[s]) ELSE choice[<<a, b>>]
    BY <1>2, <1>7 DEF TaskLooks, TypeOK
  <2>2. AllStarted'
    BY <1>0, <2>1 DEF AllStarted
  <2>3. Chosen'
    <3> SUFFICES ASSUME NEW a \in Servers, NEW b \in Servers \ {a}
                 PROVE  /\ task'[<<a, b>>] \in {"woken", "set", "announce"} => Told(a)'
                        /\ task'[<<a, b>>] \in {"set", "announce"} =>
                             choice'[<<a, b>>] = Highest(alive'[a])
      BY DEF Chosen
    <3>1. CASE a = s /\ b = t
      <4>1. Told(s) /\ choice'[<<s, t>>] = Highest(alive[s])
        BY <2>1 DEF Chosen
      <4> QED
        BY <1>0, <3>1, <4>1
    <3>2. CASE ~(a = s /\ b = t)
      BY <1>0, <2>1, <3>2 DEF Chosen
    <3> QED
      BY <3>1, <3>2
  <2>4. Following'
    BY <1>0, <2>1 DEF Following
  <2>5. NoticedFailed' /\ Announcers'
    BY <1>4, <1>5, <2>1
  <2> QED
    BY <1>1, <2>2, <2>3, <2>4, <2>5 DEF Calm
<1>8. CASE TaskSets(s, t)
  <2>1. /\ task[<<s, t>>] = "set" /\ UNCHANGED <<choice, announced>>
        /\ \A a \in Servers : \A b \in Servers \ {a} :
             task'[<<a, b>>] = IF a = s /\ b = t THEN "announce" ELSE task[<<a, b>>]
        /\ \A a \in Servers : leader'[a] = IF a = s THEN choice[<<s, t>>] ELSE leader[a]
    BY <1>8 DEF TaskSets, TypeOK
  <2>2. Told(s) /\ choice[<<s, t>>] = Highest(alive[s])
    BY <2>1 DEF Chosen
  <2>3. AllStarted'
    BY <1>0, <2>1 DEF AllStarted
  <2>4. Chosen'
    BY <1>0, <2>1 DEF Chosen
  <2>5. Following'
    BY <1>0, <2>1, <2>2 DEF Following
  <2>6. NoticedFailed' /\ Announcers'
    BY <1>4, <1>5, <2>1
  <2> QED
    BY <1>1, <2>3, <2>4, <2>5, <2>6 DEF Calm
<1>9. CASE TaskAnnounces(s, t)
  <2>1. /\ task[<<s, t>>] = "announce" /\ UNCHANGED <<choice, leader>>
        /\ \A a \in Servers : \A b \in Servers \ {a} :
             task'[<<a, b>>] = IF a = s /\ b = t THEN "waiting" ELSE task[<<a, b>>]
        /\ announced' = IF choice[<<s, t>>] = s THEN Announced(s, t) ELSE announced
    BY <1>9 DEF TaskAnnounces, TypeOK
  <2>2. Told(s) /\ choice[<<s, t>>] = Highest(alive[s])
    BY <2>1 DEF Chosen
  <2>3. \E f \in Servers : Failed(f) /\ Highest(alive[s]) = Highest(Servers \ {f})
    BY <2>2, OthersAlive
  <2>4. AllStarted'
    BY <1>0, <2>1 DEF AllStarted
  <2>5. Chosen'
    BY <1>0, <2>1 DEF Chosen
  <2>6. Following'
    BY <1>0, <2>1 DEF Following
  <2>7. NoticedFailed' /\ Announcers'
    BY <1>4, <1>5, <2>1, <2>2, <2>3
  <2> QED
    BY <1>1, <2>4, <2>5, <2>6, <2>7 DEF Calm
<1> QED
  BY <1>6, <1>7, <1>8, <1>9 DEF LeaderTask

\* An announcement that is read after the failure was noticed is a survivor's.
LEMMA AnnouncementCalm ==
  ASSUME Orderly, NEW s \in Servers, NEW t \in Servers \ {s},
         ReadAnnouncement(s, t) \/ LoseAnnouncement(s, t)
  PROVE  Calm'
<1> USE OrderlyFacts
<1>0. /\ UNCHANGED <<mode, starts, silent, timer, alive, task, choice>>
      /\ AFailure' = AFailure /\ \A a \in Servers : Failed(a)' = Failed(a)
      /\ \A a \in Servers : Told(a)' = Told(a)
      /\ \A a, b \in Servers : Noticed(a, b)' = Noticed(a, b)
  BY DEF ReadAnnouncement, LoseAnnouncement, ghosts, AFailure, Failed, Told, Noticed
<1>1. /\ announced[<<s, t>>] > 0 /\ announced[<<s, t>>] \in Nat
      /\ \A a \in Servers : \A b \in Servers \ {a} :
           announced'[<<a, b>>] = IF a = s /\ b = t THEN announced[<<s, t>>] - 1
                                  ELSE announced[<<a, b>>]
  BY DEF ReadAnnouncement, LoseAnnouncement, TypeOK
<1>2. StartedOnce' /\ OnlyFailedSilent' /\ AllStarted' /\ Chosen'
  BY <1>0 DEF StartedOnce, OnlyFailedSilent, AllStarted, Chosen
<1>3. NoticedFailed'
  <2>1. \A a \in Servers : \A b \in Servers \ {a} :
          announced[<<a, b>>] = 0 => announced'[<<a, b>>] = 0
    BY <1>1
  <2> QED
    BY <1>0, <2>1 DEF NoticedFailed
<1>4. Announcers'
  <2>1. \A a \in Servers : \A b \in Servers \ {a} :
          announced'[<<a, b>>] > 0 => announced[<<a, b>>] > 0
    BY <1>1
  <2> QED
    BY <1>0, <2>1 DEF Announcers
<1>5. Following'
  <2>1. /\ s = Highest(Servers) \/ \E f \in Servers : Failed(f) /\ s = Highest(Servers \ {f})
    BY <1>1 DEF Announcers
  <2>2. ASSUME Told(t) PROVE s = Highest(alive[t])
    <3>1. PICK f \in Servers \ {t} : timer[<<t, f>>] = "done"
      BY <2>2 DEF Told
    <3>2. Noticed(t, f) /\ Failed(f) /\ announced[<<f, t>>] = 0
      BY <3>1 DEF Noticed, NoticedFailed
    <3>3. alive[t] = Servers \ {f} /\ f # s
      BY <1>1, <3>2, OthersAlive
    <3>4. CASE s = Highest(Servers)
      BY <3>3, <3>4, HighestOfFewer, Servers \in SUBSET Servers
    <3>5. CASE \E g \in Servers : Failed(g) /\ s = Highest(Servers \ {g})
      BY <3>2, <3>3, <3>5 DEF FewFail
    <3> QED
      BY <2>1, <3>4, <3>5
  <2>3. \A a \in Servers : leader'[a] = leader[a] \/ (a = t /\ leader'[a] = s)
    BY DEF ReadAnnouncement, LoseAnnouncement, TypeOK
  <2>4. ASSUME NEW a \in Servers
        PROVE  IF Told(a)
               THEN \/ leader'[a] = Highest(alive[a])
                    \/ \E b \in Servers \ {a} : task[<<a, b>>] \in {"woken", "set"}
               ELSE leader'[a] = Highest(Servers) \/ AFailure
    BY <2>1, <2>2, <2>3 DEF Following, AFailure
  <2> QED
    BY <1>0, <2>4 DEF Following
<1> QED
  BY <1>2, <1>3, <1>4, <1>5 DEF Calm

LEMMA LeaderStep ==
  ASSUME IInv, IInv', LeaderInv, [Next]_vars, MaxFailures \in 0 .. 1
  PROVE  LeaderInv'
<1>1. CASE UNCHANGED vars
  <2>1. FewFail'
    BY <1>1 DEF vars, ghosts, LeaderInv, FewFail, AFailure, Failed
  <2>2. ASSUME orderly' PROVE Calm'
    <3>1. Orderly
      BY <1>1, <2>2 DEF vars, ghosts, LeaderInv, Orderly, IInv
    <3>2. /\ UNCHANGED <<timer, task, choice, alive, leader, announced, starts, silent>>
          /\ \A s \in Servers : Failed(s)' = Failed(s)
      BY <1>1 DEF vars, ghosts, election, Failed
    <3> QED
      BY <3>1, <3>2, OrderlyFacts, QuietCalm DEF OnlyFailedSilent
  <2> QED
    BY <2>1, <2>2 DEF LeaderInv
<1>2. CASE Next
  <2>1. FewFail'
    BY <1>2, FewFailStep DEF LeaderInv, IInv
  <2>2. ASSUME orderly' PROVE Calm'
    <3>1. Orderly /\ orderly
      BY <1>2, <2>2, CalmBefore DEF LeaderInv, Orderly, IInv
    <3>2. ASSUME NEW s \in Servers, Main(s) PROVE Calm'
      <4>1. CASE FirstStart(s)
        BY <3>1, <4>1, StartCalm
      <4>2. CASE Listen(s)
        <5>1. /\ UNCHANGED <<timer, task, choice, alive, leader, announced, starts, silent>>
              /\ \A t \in Servers : Failed(t)' = Failed(t)
          BY <3>1, <4>2, OrderlyFacts DEF Listen, ghosts, election, Failed, TypeOK
        <5> QED
          BY <3>1, <5>1, OrderlyFacts, QuietCalm DEF OnlyFailedSilent
      <4>3. ASSUME NEW t \in Servers, Connect(s, t) PROVE Calm'
        <5>1. /\ UNCHANGED <<timer, task, choice, alive, leader, announced, starts>>
              /\ \A a \in Servers : Failed(a)' = Failed(a)
          BY <4>3 DEF Connect, ghosts, election, Failed
        <5>2. \A a \in Servers : \A b \in Servers \ {a} :
                silent'[<<a, b>>] = IF a = s /\ b = t THEN mode[t] # "up" ELSE silent[<<a, b>>]
          BY <3>1, <4>3, OrderlyFacts DEF Connect, TypeOK
        <5>3. mode[t] # "up" => Failed(t)
          BY <3>1, <4>3, OrderlyFacts DEF Connect, Failed
        <5>4. \A a \in Servers : \A b \in Servers \ {a} : silent'[<<a, b>>] => Failed(b)
          BY <3>1, <5>2, <5>3, OrderlyFacts DEF OnlyFailedSilent
        <5> QED
          BY <3>1, <5>1, <5>4, QuietCalm
      <4>4. ASSUME NEW t \in Servers, Refused(s, t) PROVE Calm'
        <5>1. /\ UNCHANGED <<timer, task, choice, alive, leader, announced, starts, silent>>
              /\ \A a \in Servers : Failed(a)' = Failed(a)
          BY <2>2, <4>4 DEF Refused, ghosts, election, Failed
        <5> QED
          BY <3>1, <5>1, OrderlyFacts, QuietCalm DEF OnlyFailedSilent
      <4> QED
        BY <3>2, <4>1, <4>2, <4>3, <4>4 DEF Main
    <3>3. ASSUME NEW s \in Servers, Restart(s) PROVE Calm'
      BY <2>2, <3>3 DEF Restart
    <3>4. ASSUME NEW s \in Servers, Fail(s) PROVE Calm'
      BY <2>2, <3>1, <3>4, FailCalm
    <3>5. ASSUME NEW p \in Pairs,
                 \/ \E out \in BOOLEAN : OpenSocket(p[1], p[2], out)
                 \/ Heartbeats(p[1], p[2]) \/ LeaderTask(p[1], p[2])
                 \/ ReadAnnouncement(p[1], p[2]) \/ LoseAnnouncement(p[1], p[2])
          PROVE  Calm'
      <4>1. p[1] \in Servers /\ p[2] \in Servers \ {p[1]}
        BY DEF Pairs
      <4> QED
        BY <3>1, <3>5, <4>1, OpenCalm, HeartbeatsCalm, TaskCalm, AnnouncementCalm
    <3> QED
      BY <1>2, <3>2, <3>3, <3>4, <3>5 DEF Next, Work
  <2> QED
    BY <2>1, <2>2 DEF LeaderInv
<1> QED
  BY <1>1, <1>2

\* What a settled survivor has read and been told leaves it one leader.
LEMMA SettledFollows == IInv /\ LeaderInv => LeaderFollows
<1> SUFFICES ASSUME IInv, LeaderInv, orderly, NEW s \in Survivors, Settled(s)
             PROVE  leader[s] = Highest(alive[s])
  BY DEF LeaderFollows
<1>1. /\ FewFail /\ NoticedFailed /\ Following /\ TypeOK
  BY DEF LeaderInv, Calm, IInv
<1>2. s \in Servers /\ ~Failed(s)
  BY DEF Survivors, Running, Failed
<1>3. CASE Told(s)
  BY <1>1, <1>2, <1>3 DEF Following, Settled
<1>4. CASE ~Told(s)
  <2>1. \A t \in Servers \ {s} : ~silent[<<s, t>>]
    BY <1>4 DEF Settled, Told
  <2>2. ~AFailure
    BY <1>1, <1>2, <2>1 DEF FewFail, AFailure
  <2>3. leader[s] = Highest(Servers) /\ alive[s] = Servers
    BY <1>1, <1>2, <1>4, <2>2, OthersAlive DEF Following
  <2> QED
    BY <2>3
<1> QED
  BY <1>3, <1>4

\* "When heartbeats mark a peer failed, each surviving server" (README) follows the highest
\* of those it still considers alive (leader_announcement_task): for one failure, at any time
\* after the servers have connected, whatever announcements were on their way. (After a
\* second one this is not so: its notification can find no task that waits.)
THEOREM OneFailureFollowed ==
  ASSUME MaxFailures \in 0 .. 1
  PROVE  Spec => []LeaderFollows
<1>1. IInv /\ LeaderInv /\ [Next]_vars /\ IInv' => LeaderInv'
  BY LeaderStep
<1> QED
  BY <1>1, LeaderInit, SettledFollows, Invariance, PTL DEF Spec
=============================================================================
