----------------------------- MODULE IntranetRpc -----------------------------
(***************************************************************************)
(* The intranet RPC demo (src/examples): calculator servers and demo       *)
(* clients talking through kameo's remote actors over libp2p.              *)
(*                                                                         *)
(*  - a server (intranet_server.rs) registers a CalculatorActor under      *)
(*    "calculator" and a NotificationActor under "notification", then runs *)
(*    three push loops that look up "client_handler" and tell it a         *)
(*    notification;                                                        *)
(*  - a client (intranet_client.rs) registers its ClientNotificationHandler*)
(*    under "client_handler", looks up "notification" and asks it to       *)
(*    subscribe, then runs the demo loop: find a calculator other than     *)
(*    itself, ask it the five demo calculations one after the other;       *)
(*  - the registry and the request/reply transport are kameo's: a          *)
(*    registration is a record that outlives its owner, a lookup may miss, *)
(*    an ask resolves with the reply whose id it carries or with an error  *)
(*    (timeout or transport) when its timer fires, a message in flight can *)
(*    be lost when its connection closes.                                  *)
(***************************************************************************)
EXTENDS Naturals, FiniteSets, Sequences, F64

CONSTANTS
  Servers,     \* server processes (their PeerIds)
  Clients,     \* client processes (their PeerIds)
  NoPeer,      \* no peer: the calculator a client has not found yet
  MaxRounds,   \* bound on the rounds of each client's demo loop
  MaxPushes    \* bound on the iterations of each push loop

ASSUME ConstantsAssumption ==
  /\ Servers \cap Clients = {}
  /\ NoPeer \notin Servers \cup Clients
  /\ MaxRounds \in Nat
  /\ MaxPushes \in Nat

(* run_demo_mode: the predefined calculations, 12.5 written as 25/2 *)
Calcs ==
  << [op |-> "add", a |-> Fin(15, 1),  b |-> Fin(25, 1)],
     [op |-> "sub", a |-> Fin(100, 1), b |-> Fin(35, 1)],
     [op |-> "mul", a |-> Fin(25, 2),  b |-> Fin(8, 1)],
     [op |-> "div", a |-> Fin(144, 1), b |-> Fin(12, 1)],
     [op |-> "div", a |-> Fin(100, 1), b |-> Fin(0, 1)] >>

NCalcs == Len(Calcs)

(* The result the calculator replies to the i-th demo calculation *)
Result(i) == CalcReply(Calcs[i].op, Calcs[i].a, Calcs[i].b)

(* The values a reply can carry: a demo result, or None *)
Vals == {Result(i) : i \in 1 .. NCalcs} \cup {None}

PushKinds == {"status", "task", "event"}   \* the three push loops

ServerPcs == {"starting", "calc_registered", "running", "exited"}
ClientPcs == {"register", "lookup_notification", "subscribing", "find",
              "calling", "exited"}
ExitCauses == {"none", "register", "lookup", "subscribe_timeout",
               "subscribe_transport", "killed"}

(* Asks in flight: body 0 is SubscribeDataStream, body i the i-th demo     *)
(* calculation; id is the ask's correlation id, unique per client.         *)
ReqMsg == [from : Clients, to : Servers, id : Nat, body : 0 .. NCalcs]
(* Replies: val is the calculator's result (None for a subscription), sub  *)
(* the event_count a subscription id is made of (-1 for a calculation).    *)
RepMsg == [from : Servers, to : Clients, id : Nat,
           val : Vals, sub : Int]
(* Tells of the push loops *)
PushMsg == [from : Servers, to : Clients, kind : PushKinds, seq : Nat]

VARIABLES
  registry,          \* kameo's registry: records [name, peer]
  spc,               \* where each server's main is
  request_count,     \* CalculatorActor::request_count
  connected_clients, \* keys of NotificationActor::connected_clients
  event_count,       \* NotificationActor::event_count
  pushes,            \* iterations done by each push loop
  cpc,               \* where each client's main is
  round,             \* run_demo_mode's round
  ci,                \* index of the demo calculation being asked
  calculator,        \* the calculator find_calculator_service returned
  callId,            \* correlation id of the client's latest ask
  lastOk,            \* the latest calculation reply the client accepted
  notification_count,\* ClientNotificationHandler::notification_count
  exitCause,         \* why a client's process ended
  reqs, reps, notes  \* messages in flight

serverVars == <<spc, request_count, connected_clients, event_count, pushes>>
clientVars == <<cpc, round, ci, calculator, callId, lastOk,
                notification_count, exitCause>>
netVars    == <<reqs, reps, notes>>
vars       == <<registry, serverVars, clientVars, netVars>>

TypeOK ==
  /\ registry \subseteq [name : {"calculator", "notification"}, peer : Servers]
                        \cup [name : {"client_handler"}, peer : Clients]
  /\ spc \in [Servers -> ServerPcs]
  /\ request_count \in [Servers -> Nat]
  /\ connected_clients \in [Servers -> SUBSET Clients]
  /\ event_count \in [Servers -> Nat]
  /\ pushes \in [Servers -> [PushKinds -> 0 .. MaxPushes]]
  /\ cpc \in [Clients -> ClientPcs]
  /\ round \in [Clients -> 0 .. MaxRounds]
  /\ ci \in [Clients -> 1 .. NCalcs]
  /\ calculator \in [Clients -> Servers \cup {NoPeer}]
  /\ callId \in [Clients -> Nat]
  /\ lastOk \in [Clients -> [i : 0 .. NCalcs, val : Vals]]
  /\ notification_count \in [Clients -> Nat]
  /\ exitCause \in [Clients -> ExitCauses]
  /\ reqs \subseteq ReqMsg
  /\ reps \subseteq RepMsg
  /\ notes \subseteq PushMsg

-----------------------------------------------------------------------------
(* The peers a lookup of name can resolve to: every record ever            *)
(* registered under it, its owner still running or not.                    *)
Providers(name) == {r.peer : r \in {q \in registry : q.name = name}}

Init ==
  /\ registry = {}
  /\ spc = [s \in Servers |-> "starting"]
  /\ request_count = [s \in Servers |-> 0]
  /\ connected_clients = [s \in Servers |-> {}]
  /\ event_count = [s \in Servers |-> 0]
  /\ pushes = [s \in Servers |-> [k \in PushKinds |-> 0]]
  /\ cpc = [c \in Clients |-> "register"]
  /\ round = [c \in Clients |-> 0]
  /\ ci = [c \in Clients |-> 1]
  /\ calculator = [c \in Clients |-> NoPeer]
  /\ callId = [c \in Clients |-> 0]
  /\ lastOk = [c \in Clients |-> [i |-> 0, val |-> None]]
  /\ notification_count = [c \in Clients |-> 0]
  /\ exitCause = [c \in Clients |-> "none"]
  /\ reqs = {} /\ reps = {} /\ notes = {}

-----------------------------------------------------------------------------
(***************************************************************************)
(* Server                                                                  *)
(***************************************************************************)

(* register_calculator_service: calculator_ref.register("calculator")?;   *)
(* an error ends main, and with it the process.                           *)
RegisterCalculator(s) ==
  /\ spc[s] = "starting"
  /\ \/ /\ registry' = registry \cup {[name |-> "calculator", peer |-> s]}
        /\ spc' = [spc EXCEPT ![s] = "calc_registered"]
     \/ /\ spc' = [spc EXCEPT ![s] = "exited"]
        /\ UNCHANGED registry
  /\ UNCHANGED <<request_count, connected_clients, event_count, pushes,
                 clientVars, netVars>>

(* register_notification_service, then start_push_services, which only    *)
(* spawns the three push loops.                                           *)
RegisterNotification(s) ==
  /\ spc[s] = "calc_registered"
  /\ \/ /\ registry' = registry \cup {[name |-> "notification", peer |-> s]}
        /\ spc' = [spc EXCEPT ![s] = "running"]
     \/ /\ spc' = [spc EXCEPT ![s] = "exited"]
        /\ UNCHANGED registry
  /\ UNCHANGED <<request_count, connected_clients, event_count, pushes,
                 clientVars, netVars>>

(* Ctrl-C (or any end of the process): its registrations stay behind.     *)
ServerStop(s) ==
  /\ spc[s] # "exited"
  /\ spc' = [spc EXCEPT ![s] = "exited"]
  /\ UNCHANGED <<registry, request_count, connected_clients, event_count,
                 pushes, clientVars, netVars>>

(* Message<AddRequest|SubtractRequest|MultiplyRequest|DivideRequest> for  *)
(* CalculatorActor: count the request, reply with the result.             *)
CalculatorHandle(s) ==
  /\ spc[s] \in {"calc_registered", "running"}
  /\ \E m \in reqs :
       /\ m.to = s
       /\ m.body # 0
       /\ request_count' = [request_count EXCEPT ![s] = @ + 1]
       /\ reqs' = reqs \ {m}
       /\ reps' = reps \cup {[from |-> s, to |-> m.from, id |-> m.id,
                              val |-> Result(m.body), sub |-> -1]}
  /\ UNCHANGED <<registry, spc, connected_clients, event_count, pushes,
                 clientVars, notes>>

(* Message<SubscribeDataStream> for NotificationActor: the subscription   *)
(* id is made of the client and event_count, which then grows; the client *)
(* is inserted (or overwritten) in connected_clients.                     *)
NotificationSubscribe(s) ==
  /\ spc[s] = "running"
  /\ \E m \in reqs :
       /\ m.to = s
       /\ m.body = 0
       /\ event_count' = [event_count EXCEPT ![s] = @ + 1]
       /\ connected_clients' = [connected_clients EXCEPT ![s] = @ \cup {m.from}]
       /\ reqs' = reqs \ {m}
       /\ reps' = reps \cup {[from |-> s, to |-> m.from, id |-> m.id,
                              val |-> None, sub |-> event_count[s]]}
  /\ UNCHANGED <<registry, spc, request_count, pushes, clientVars, notes>>

(* One iteration of push_server_status_loop, push_task_completion_loop or *)
(* broadcast_system_events_loop: look "client_handler" up and tell the    *)
(* one handler found, if any; a miss or an error skips the delivery.      *)
(* The subscription table is not read.                                    *)
PushNotification(s, k) ==
  /\ spc[s] = "running"
  /\ pushes[s][k] < MaxPushes
  /\ pushes' = [pushes EXCEPT ![s][k] = @ + 1]
  /\ \/ \E h \in Providers("client_handler") :
          notes' = notes \cup {[from |-> s, to |-> h, kind |-> k,
                                seq |-> pushes[s][k] + 1]}
     \/ UNCHANGED notes
  /\ UNCHANGED <<registry, spc, request_count, connected_clients, event_count,
                 clientVars, reqs, reps>>

-----------------------------------------------------------------------------
(***************************************************************************)
(* Client                                                                  *)
(***************************************************************************)

(* subscribe_to_push_services, step 2: register("client_handler")?        *)
RegisterHandler(c) ==
  /\ cpc[c] = "register"
  /\ \/ /\ registry' = registry \cup {[name |-> "client_handler", peer |-> c]}
        /\ cpc' = [cpc EXCEPT ![c] = "lookup_notification"]
        /\ UNCHANGED exitCause
     \/ /\ cpc' = [cpc EXCEPT ![c] = "exited"]
        /\ exitCause' = [exitCause EXCEPT ![c] = "register"]
        /\ UNCHANGED registry
  /\ UNCHANGED <<serverVars, round, ci, calculator, callId, lastOk,
                 notification_count, netVars>>

(* Steps 3 and 4: lookup("notification").await? and, when found, ask it  *)
(* SubscribeDataStream.  None: go on without pushes; Err: main ends.      *)
LookupNotification(c) ==
  /\ cpc[c] = "lookup_notification"
  /\ \/ \E s \in Providers("notification") :
          /\ callId' = [callId EXCEPT ![c] = @ + 1]
          /\ reqs' = reqs \cup {[from |-> c, to |-> s, id |-> callId[c] + 1,
                                 body |-> 0]}
          /\ cpc' = [cpc EXCEPT ![c] = "subscribing"]
          /\ UNCHANGED exitCause
     \/ /\ cpc' = [cpc EXCEPT ![c] = "find"]
        /\ UNCHANGED <<callId, reqs, exitCause>>
     \/ /\ cpc' = [cpc EXCEPT ![c] = "exited"]
        /\ exitCause' = [exitCause EXCEPT ![c] = "lookup"]
        /\ UNCHANGED <<callId, reqs>>
  /\ UNCHANGED <<registry, serverVars, round, ci, calculator, lastOk,
                 notification_count, reps, notes>>

(* The subscription ask resolves with its reply: on to the demo loop.     *)
Subscribed(c) ==
  /\ cpc[c] = "subscribing"
  /\ \E m \in reps :
       /\ m.to = c
       /\ m.id = callId[c]
       /\ reps' = reps \ {m}
  /\ cpc' = [cpc EXCEPT ![c] = "find"]
  /\ UNCHANGED <<registry, serverVars, round, ci, calculator, callId, lastOk,
                 notification_count, exitCause, reqs, notes>>

(* The subscription ask's `.await?` returns an error, a Timeout when its  *)
(* timer fires or a Transport error when its connection fails: either one *)
(* ends main.  A reply still in flight is an orphan.                      *)
SubscribeError(c) ==
  /\ cpc[c] = "subscribing"
  /\ cpc' = [cpc EXCEPT ![c] = "exited"]
  /\ \E cause \in {"subscribe_timeout", "subscribe_transport"} :
       exitCause' = [exitCause EXCEPT ![c] = cause]
  /\ UNCHANGED <<registry, serverVars, round, ci, calculator, callId, lastOk,
                 notification_count, netVars>>

(* Ask calculation i of the demo list of the calculator found this round. *)
AskCalc(c, s, i) ==
  /\ ci' = [ci EXCEPT ![c] = i]
  /\ callId' = [callId EXCEPT ![c] = @ + 1]
  /\ reqs' = reqs \cup {[from |-> c, to |-> s, id |-> callId[c] + 1, body |-> i]}
  /\ cpc' = [cpc EXCEPT ![c] = "calling"]

(* Validation variant of NextCalc: an off-by-one that asks past the end   *)
(* of the calculation list.                                               *)
NextCalcPastEnd(c) ==
  \/ /\ ci[c] <= NCalcs
     /\ AskCalc(c, calculator[c], ci[c] + 1)
  \/ /\ ci[c] = NCalcs
     /\ cpc' = [cpc EXCEPT ![c] = "find"]
     /\ UNCHANGED <<ci, callId, reqs>>

(* After one calculation resolved: ask the next one, or end the round.    *)
NextCalc(c) ==
  \/ /\ ci[c] < NCalcs
     /\ AskCalc(c, calculator[c], ci[c] + 1)
  \/ /\ ci[c] = NCalcs
     /\ cpc' = [cpc EXCEPT ![c] = "find"]
     /\ UNCHANGED <<ci, callId, reqs>>

(* A round of run_demo_mode: find_calculator_service walks lookup_all,    *)
(* skipping the client's own peer, and returns the first other provider;  *)
(* None (no provider, or the stream failed) skips the round.              *)
FindCalculator(c) ==
  /\ cpc[c] = "find"
  /\ round[c] < MaxRounds
  /\ round' = [round EXCEPT ![c] = @ + 1]
  /\ \/ \E s \in Providers("calculator") \ {c} :
          /\ calculator' = [calculator EXCEPT ![c] = s]
          /\ AskCalc(c, s, 1)
     \/ UNCHANGED <<cpc, ci, calculator, callId, reqs>>
  /\ UNCHANGED <<registry, serverVars, lastOk, notification_count, exitCause,
                 reps, notes>>

(* Validation variant of CalcReplied: any reply to the client is taken,   *)
(* its correlation id unchecked.                                          *)
CalcRepliedAnyId(c) ==
  /\ cpc[c] = "calling"
  /\ \E m \in reps :
       /\ m.to = c
       /\ lastOk' = [lastOk EXCEPT ![c] = [i |-> ci[c], val |-> m.val]]
       /\ reps' = reps \ {m}
  /\ NextCalc(c)
  /\ UNCHANGED <<registry, serverVars, round, calculator, notification_count,
                 exitCause, notes>>

(* execute_add/subtract/multiply/divide, Ok arm: the reply correlated     *)
(* with the pending ask is taken as its result.                           *)
CalcReplied(c) ==
  /\ cpc[c] = "calling"
  /\ \E m \in reps :
       /\ m.to = c
       /\ m.id = callId[c]
       /\ lastOk' = [lastOk EXCEPT ![c] = [i |-> ci[c], val |-> m.val]]
       /\ reps' = reps \ {m}
  /\ NextCalc(c)
  /\ UNCHANGED <<registry, serverVars, round, calculator, notification_count,
                 exitCause, notes>>

(* execute_*, Err arm: the ask's timer fired, or the transport failed;    *)
(* the error is logged and the demo goes on.                              *)
CalcError(c) ==
  /\ cpc[c] = "calling"
  /\ NextCalc(c)
  /\ UNCHANGED <<registry, serverVars, round, calculator, lastOk,
                 notification_count, exitCause, reps, notes>>

(* ClientNotificationHandler: every kind of push counts once.             *)
HandleNotification(c) ==
  /\ cpc[c] \notin {"register", "exited"}
  /\ \E m \in notes :
       /\ m.to = c
       /\ notification_count' = [notification_count EXCEPT ![c] = @ + 1]
       /\ notes' = notes \ {m}
  /\ UNCHANGED <<registry, serverVars, cpc, round, ci, calculator, callId,
                 lastOk, exitCause, reqs, reps>>

(* The client process is killed: its registration stays behind.          *)
ClientKilled(c) ==
  /\ cpc[c] # "exited"
  /\ cpc' = [cpc EXCEPT ![c] = "exited"]
  /\ exitCause' = [exitCause EXCEPT ![c] = "killed"]
  /\ UNCHANGED <<registry, serverVars, round, ci, calculator, callId, lastOk,
                 notification_count, netVars>>

-----------------------------------------------------------------------------
(***************************************************************************)
(* Transport                                                               *)
(***************************************************************************)

(* A connection closes (idle timeout, network failure, the peer ended):   *)
(* a message in flight on it is lost.  The event loops only log this.     *)
LoseMessage ==
  /\ \/ \E m \in reqs : reqs' = reqs \ {m} /\ UNCHANGED <<reps, notes>>
     \/ \E m \in reps : reps' = reps \ {m} /\ UNCHANGED <<reqs, notes>>
     \/ \E m \in notes : notes' = notes \ {m} /\ UNCHANGED <<reqs, reps>>
  /\ UNCHANGED <<registry, serverVars, clientVars>>

(* Every process has ended and nothing is in flight: the system stops.    *)
Terminated ==
  /\ \A s \in Servers : spc[s] = "exited"
  /\ \A c \in Clients : cpc[c] = "exited"
  /\ reqs = {} /\ reps = {} /\ notes = {}
  /\ UNCHANGED vars

Next ==
  \/ \E s \in Servers :
       \/ RegisterCalculator(s) \/ RegisterNotification(s) \/ ServerStop(s)
       \/ CalculatorHandle(s) \/ NotificationSubscribe(s)
       \/ \E k \in PushKinds : PushNotification(s, k)
  \/ \E c \in Clients :
       \/ RegisterHandler(c) \/ LookupNotification(c) \/ Subscribed(c)
       \/ SubscribeError(c) \/ FindCalculator(c) \/ CalcReplied(c)
       \/ CalcError(c) \/ HandleNotification(c) \/ ClientKilled(c)
  \/ LoseMessage
  \/ Terminated

Spec == Init /\ [][Next]_vars

(* The abstract demo loop of DemoCalls: a client is asking while it waits *)
(* on a calculation; its current calculation and the latest accepted      *)
(* result are ci and lastOk.                                              *)
Calls == INSTANCE DemoCalls
           WITH asking <- {c \in Clients : cpc[c] = "calling"},
                cur <- ci, accepted <- lastOk,
                Answer <- Result, NoAnswer <- None

-----------------------------------------------------------------------------
(***************************************************************************)
(* Properties                                                              *)
(***************************************************************************)

(* Correlation: a result the client accepts for the i-th demo calculation *)
(* is the calculator's result for that calculation, even when an earlier  *)
(* ask timed out and its reply arrives late (execute_* Ok arms).          *)
ReplyMatchesRequest ==
  \A c \in Clients : lastOk[c].i # 0 => lastOk[c].val = Result(lastOk[c].i)

(* Spec 4.3: a push goes to every registered client push endpoint.  An    *)
(* iteration of a push loop that delivers to some client delivers to      *)
(* every running client whose handler is registered.                      *)
PushReachesEveryHandler ==
  [][\A s \in Servers, k \in PushKinds :
       notes' # notes /\ pushes'[s][k] # pushes[s][k] =>
         {c \in Providers("client_handler") : cpc[c] # "exited"}
           \subseteq {m.to : m \in notes' \ notes}]_vars

(* Spec 7: a Timeout is a per-call error, local to its call.  The        *)
(* subscribe ask of subscribe_to_push_services timing out (no reply      *)
(* within the request timeout) must not end the client process.          *)
SubscribeTimeoutNotFatal ==
  \A c \in Clients : exitCause[c] # "subscribe_timeout"
=============================================================================
