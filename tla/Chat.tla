-------------------------------- MODULE Chat --------------------------------
(***************************************************************************)
(* What the servers of pa2 promise their clients: the chat of one server.  *)
(* There is one AppState; every request takes effect in one step, after it *)
(* is sent and before it is answered, and its answer is the result of that *)
(* step. (An answered request is "done".)                                  *)
(***************************************************************************)
EXTENDS DiscordState

CONSTANTS Users, Requests, Preset, Registered, Joined

VARIABLES chat,     \* the one AppState
          status,   \* of each request: "idle", "pending", "done", "gone"
          result    \* what it came to

chatVars == <<chat, status, result>>

None == [code |-> "NONE", value |-> {}]

Init ==
  /\ chat = [users |-> Registered,
             channels |-> [ch \in Preset |->
               [NewChannel EXCEPT !.users = {u \in Users : <<u, ch>> \in Joined}]]]
  /\ status = [r \in Requests |-> "idle"]
  /\ result = [r \in Requests |-> None]

\* An operation of distributed_stateops.rs, with the checks it makes: the channel
\* for leave_channel and send_message, then the user.
Perform(st, r) ==
  IF r.op \in {"leave_channel", "send_message"} /\ ~ChannelExists(st, r.channel)
    THEN Effect(st, "UNKNOWN_CHANNEL", {})
  ELSE IF r.op \in {"join_channel", "leave_channel", "send_message"}
          /\ ~UserExists(st, r.user)
    THEN Effect(st, "UNKNOWN_USER", {})
  ELSE CASE r.op = "create_user"   -> CreateUser(st, r.user)
         [] r.op = "join_channel"  -> JoinChannel(st, r.user, r.channel)
         [] r.op = "leave_channel" -> LeaveChannel(st, r.user, r.channel)
         [] r.op = "send_message"  -> SendMessage(st, r.user, r.channel, r.id)
         [] r.op = "list_channel_users" -> ListChannelUsers(st, r.channel)
         [] r.op = "get_messages"  -> GetMessages(st, r.channel)
         [] r.op = "get_users"     -> Effect(st, "OK", st.users)
         [] r.op = "get_channels"  -> Effect(st, "OK", DOMAIN st.channels)

Becomes(r, was, is) == status[r] = was /\ status' = [status EXCEPT ![r] = is]

Ask(r) == Becomes(r, "idle", "pending") /\ UNCHANGED <<chat, result>>

Serve(r) ==
  /\ Becomes(r, "pending", "done")
  /\ chat' = Perform(chat, r).state
  /\ result' = [result EXCEPT ![r] = Perform(chat, r).result]

\* A client goes away; what it asked may still be done, before or after.
GoAway(r) ==
  /\ status[r] \in {"pending", "done"}
  /\ status' = [status EXCEPT ![r] = "gone"]
  /\ result' = [result EXCEPT ![r] = None]
  /\ UNCHANGED chat

ServeLate(r) ==
  /\ status[r] = "gone"
  /\ chat' = Perform(chat, r).state
  /\ UNCHANGED <<status, result>>

Next == \E r \in Requests : Ask(r) \/ Serve(r) \/ GoAway(r) \/ ServeLate(r)

Spec == Init /\ [][Next]_chatVars
=============================================================================
