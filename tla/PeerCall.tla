------------------------------ MODULE PeerCall ------------------------------
(***************************************************************************)
(* What send_request (pa2/src/server_middleware.rs) promises to the layer  *)
(* above it about the calls one server makes to one of its peers, stated   *)
(* without queues, sequence numbers or heartbeats.                         *)
(*                                                                         *)
(* A call is completed at most once: with the answer of the peer, which    *)
(* has then executed the request, or with None ("unavailable"), which the  *)
(* callback's comment reserves for a peer that failed its heartbeats.  The *)
(* peer executes a request at most once, possibly after the caller has     *)
(* been told it is unavailable, or has gone away.                          *)
(*                                                                         *)
(* PeerLink implements this module; Replication is built on it.            *)
(***************************************************************************)
CONSTANT Calls

VARIABLES outcome,    \* what each caller knows of its call
          executed,   \* the calls the peer has executed
          failed      \* the peer is marked dead; it is never marked alive again

vars == <<outcome, executed, failed>>

Outcomes == {"idle", "pending", "answered", "unavailable", "dropped"}

TypeOK ==
  /\ outcome \in [Calls -> Outcomes]
  /\ executed \subseteq Calls
  /\ failed \in BOOLEAN

Init ==
  /\ outcome = [c \in Calls |-> "idle"]
  /\ executed = {}
  /\ failed = FALSE

Request(c) ==
  /\ outcome[c] = "idle"
  /\ outcome' = [outcome EXCEPT ![c] = "pending"]
  /\ UNCHANGED <<executed, failed>>

\* The peer runs the request, whatever the caller has been told meanwhile.
Execute(c) ==
  /\ outcome[c] # "idle"
  /\ c \notin executed
  /\ executed' = executed \cup {c}
  /\ UNCHANGED <<outcome, failed>>

Answer(c) ==
  /\ outcome[c] = "pending"
  /\ c \in executed
  /\ outcome' = [outcome EXCEPT ![c] = "answered"]
  /\ UNCHANGED <<executed, failed>>

\* The caller stops waiting (its HTTP client disconnected).
Drop(c) ==
  /\ outcome[c] = "pending"
  /\ outcome' = [outcome EXCEPT ![c] = "dropped"]
  /\ UNCHANGED <<executed, failed>>

Fail ==
  /\ ~failed
  /\ failed' = TRUE
  /\ UNCHANGED <<outcome, executed>>

\* Calls are refused in batches: every callback that is waiting is drained.
Refuse(S) ==
  /\ failed
  /\ S # {}
  /\ \A c \in S : outcome[c] = "pending"
  /\ outcome' = [c \in Calls |-> IF c \in S THEN "unavailable" ELSE outcome[c]]
  /\ UNCHANGED <<executed, failed>>

Next ==
  \/ \E c \in Calls : Request(c) \/ Execute(c) \/ Answer(c) \/ Drop(c)
  \/ Fail
  \/ \E S \in SUBSET Calls : Refuse(S)

Spec == Init /\ [][Next]_vars
=============================================================================
