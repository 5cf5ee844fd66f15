-------------------------- MODULE SharedConnection --------------------------
(***************************************************************************)
(* What backend.go promises about the connections it shares among          *)
(* requests: at most one is current, requests join only the current one,   *)
(* a superseded one is closed when its last user has left and not before.  *)
(* ClientHandle implements this.                                           *)
(***************************************************************************)

CONSTANTS Clients, Requests

VARIABLES
    state,      \* state[c]: "unbuilt", "current", "superseded", "closed"
    users       \* users[c]: the requests that hold c

vars == <<state, users>>

TypeOK ==
    /\ state \in [Clients -> {"unbuilt", "current", "superseded", "closed"}]
    /\ users \in [Clients -> SUBSET Requests]

Init ==
    /\ state = [c \in Clients |-> "unbuilt"]
    /\ users = [c \in Clients |-> {}]

Current(c) == state[c] = "current"

(* The first request that finds no current connection opens one.           *)
Open(r, c) ==
    /\ state[c] = "unbuilt" /\ \A d \in Clients : ~Current(d)
    /\ state' = [state EXCEPT ![c] = "current"]
    /\ users' = [users EXCEPT ![c] = @ \cup {r}]

Join(r, c) ==
    /\ Current(c)
    /\ users' = [users EXCEPT ![c] = @ \cup {r}]
    /\ UNCHANGED state

Supersede(c) ==
    /\ Current(c)
    /\ state' = [state EXCEPT ![c] = "superseded"]
    /\ UNCHANGED users

(* The last user of a superseded connection closes it on the way out,      *)
(* unless whoever superseded it is still about to.                         *)
Leave(r, c) ==
    /\ r \in users[c]
    /\ users' = [users EXCEPT ![c] = @ \ {r}]
    /\ \/ UNCHANGED state
       \/ /\ state[c] = "superseded" /\ users[c] = {r}
          /\ state' = [state EXCEPT ![c] = "closed"]

Close(c) ==
    /\ state[c] = "superseded" /\ users[c] = {}
    /\ state' = [state EXCEPT ![c] = "closed"]
    /\ UNCHANGED users

Next ==
    \E c \in Clients :
        \/ Supersede(c) \/ Close(c)
        \/ \E r \in Requests : Open(r, c) \/ Join(r, c) \/ Leave(r, c)

Spec == Init /\ [][Next]_vars

(* Nobody uses a closed connection, and there is one current at most.      *)
Promise ==
    /\ \A c \in Clients : state[c] = "closed" => users[c] = {}
    /\ \A c, d \in Clients : Current(c) /\ Current(d) => c = d

=============================================================================
