------------------------------ MODULE DemoCalls ------------------------------
(***************************************************************************)
(* What run_demo_mode (src/examples/intranet_client.rs) promises each      *)
(* client, stated without messages, correlation ids or timers: a round     *)
(* asks the demo calculations 1, 2, ... NCalcs in order, one at a time;    *)
(* each one ends either with its right answer accepted or with nothing     *)
(* accepted (an error).  A client may stop at any time.  This is the      *)
(* safety part of the contract: that no call stays pending forever rests   *)
(* on kameo's request timer, which the detailed model can only assume.     *)
(***************************************************************************)
EXTENDS Naturals

CONSTANTS
  Clients,     \* the clients
  NCalcs,      \* the number of calculations in a round
  Answer(_),   \* the right answer to calculation i
  NoAnswer     \* the answer recorded before any was accepted

VARIABLES
  asking,      \* the clients in the middle of a round
  cur,         \* the calculation each client is on
  accepted     \* the latest answer each client accepted, with its index

vars == <<asking, cur, accepted>>

Init ==
  /\ asking = {}
  /\ cur = [c \in Clients |-> 1]
  /\ accepted = [c \in Clients |-> [i |-> 0, val |-> NoAnswer]]

(* A round starts at the first calculation. *)
StartRound(c) ==
  /\ c \notin asking
  /\ asking' = asking \cup {c}
  /\ cur' = [cur EXCEPT ![c] = 1]
  /\ UNCHANGED accepted

(* The calculation is over: on to the next one, or the round ends. *)
Advance(c) ==
  \/ /\ cur[c] < NCalcs
     /\ cur' = [cur EXCEPT ![c] = @ + 1]
     /\ UNCHANGED asking
  \/ /\ cur[c] = NCalcs
     /\ asking' = asking \ {c}
     /\ UNCHANGED cur

(* The current calculation gets its right answer. *)
Answered(c) ==
  /\ c \in asking
  /\ accepted' = [accepted EXCEPT ![c] = [i |-> cur[c], val |-> Answer(cur[c])]]
  /\ Advance(c)

(* The current calculation fails: nothing is accepted. *)
Failed(c) ==
  /\ c \in asking
  /\ UNCHANGED accepted
  /\ Advance(c)

(* The client stops in the middle of a round. *)
Stop(c) ==
  /\ c \in asking
  /\ asking' = asking \ {c}
  /\ UNCHANGED <<cur, accepted>>

Next ==
  \E c \in Clients : StartRound(c) \/ Answered(c) \/ Failed(c) \/ Stop(c)

Spec == Init /\ [][Next]_vars
=============================================================================
