-------------------------- MODULE IntranetRpcProofs --------------------------
(***************************************************************************)
(* Proofs about IntranetRpc, for every value of the constants.            *)
(***************************************************************************)
EXTENDS IntranetRpc, TLAPS

(* The demo list has five calculations. *)
LEMMA NCalcsValue == NCalcs = 5
  BY DEF NCalcs, Calcs

-----------------------------------------------------------------------------
(* TypeOK is not inductive by itself: a client that is calling asks the   *)
(* calculator it found, so that calculator must be a server.              *)
CallingHasCalculator ==
  \A c \in Clients : cpc[c] = "calling" => calculator[c] \in Servers

TypeInv == TypeOK /\ CallingHasCalculator

(* The reply values: None, and the result of each demo calculation. *)
LEMMA NoneVal == None \in Vals
  BY DEF Vals

LEMMA ResultVal == \A i \in 1 .. NCalcs : Result(i) \in Vals
  BY DEF Vals

(* Only clients register under "client_handler". *)
LEMMA HandlerIsClient ==
  ASSUME TypeOK, NEW h \in Providers("client_handler")
  PROVE  h \in Clients
<1>1. PICK r \in registry : r.name = "client_handler" /\ h = r.peer
  BY DEF Providers
<1>2. r \in [name : {"calculator", "notification"}, peer : Servers]
             \cup [name : {"client_handler"}, peer : Clients]
  BY DEF TypeOK
<1>. QED
  BY <1>1, <1>2

LEMMA InitTypeInv == Init => TypeInv
<1> SUFFICES ASSUME Init PROVE TypeInv
  OBVIOUS
<1>1. lastOk \in [Clients -> [i : 0 .. NCalcs, val : Vals]]
  BY NoneVal, NCalcsValue DEF Init
<1>2. pushes \in [Servers -> [PushKinds -> 0 .. MaxPushes]]
  BY ConstantsAssumption DEF Init
<1>3. ci \in [Clients -> 1 .. NCalcs]
  BY NCalcsValue DEF Init
<1>. QED
  BY <1>1, <1>2, <1>3, ConstantsAssumption DEF Init, TypeInv, TypeOK, CallingHasCalculator,
     ServerPcs, ClientPcs, ExitCauses

(* Asking calculation i of calculator s keeps the client's state typed. *)
LEMMA AskCalcType ==
  ASSUME TypeOK, NEW c \in Clients, NEW s \in Servers, NEW i \in 1 .. NCalcs,
         AskCalc(c, s, i)
  PROVE  /\ ci' \in [Clients -> 1 .. NCalcs]
         /\ callId' \in [Clients -> Nat]
         /\ reqs' \subseteq ReqMsg
         /\ cpc' = [cpc EXCEPT ![c] = "calling"]
<1>1. callId[c] + 1 \in Nat
  BY DEF TypeOK
<1>. QED
  BY <1>1 DEF AskCalc, TypeOK, ReqMsg

(* After a calculation resolved, the next ask goes to the same calculator. *)
LEMMA NextCalcType ==
  ASSUME TypeOK, CallingHasCalculator, NEW c \in Clients, cpc[c] = "calling",
         NextCalc(c)
  PROVE  /\ ci' \in [Clients -> 1 .. NCalcs]
         /\ callId' \in [Clients -> Nat]
         /\ reqs' \subseteq ReqMsg
         /\ cpc' \in [Clients -> ClientPcs]
         /\ \A d \in Clients : cpc'[d] = "calling" => calculator[d] \in Servers
<1>1. calculator[c] \in Servers
  BY DEF CallingHasCalculator
<1>2. CASE ci[c] < NCalcs /\ AskCalc(c, calculator[c], ci[c] + 1)
  <2>0. ci[c] \in 1 .. NCalcs
    BY DEF TypeOK
  <2>1. ci[c] + 1 \in 1 .. NCalcs
    BY <1>2, <2>0, NCalcsValue
  <2>2. /\ ci' \in [Clients -> 1 .. NCalcs]
        /\ callId' \in [Clients -> Nat]
        /\ reqs' \subseteq ReqMsg
        /\ cpc' = [cpc EXCEPT ![c] = "calling"]
    BY <1>1, <1>2, <2>1, AskCalcType
  <2>3. cpc' \in [Clients -> ClientPcs]
    BY <2>2 DEF TypeOK, ClientPcs
  <2>4. \A d \in Clients : cpc'[d] = "calling" => calculator[d] \in Servers
    BY <1>1, <2>2 DEF TypeOK, CallingHasCalculator
  <2>. QED
    BY <2>2, <2>3, <2>4
<1>3. CASE ci[c] = NCalcs /\ cpc' = [cpc EXCEPT ![c] = "find"] /\ UNCHANGED <<ci, callId, reqs>>
  BY <1>3 DEF TypeOK, CallingHasCalculator, ClientPcs
<1>. QED
  BY <1>2, <1>3 DEF NextCalc

LEMMA NextTypeInv == TypeInv /\ [Next]_vars => TypeInv'
<1> SUFFICES ASSUME TypeOK, CallingHasCalculator, [Next]_vars
             PROVE TypeOK' /\ CallingHasCalculator'
  BY DEF TypeInv
<1> USE ConstantsAssumption, NCalcsValue DEF ServerPcs, ClientPcs, ExitCauses, PushKinds
<1>1. ASSUME NEW s \in Servers, RegisterCalculator(s) PROVE TypeOK' /\ CallingHasCalculator'
  BY <1>1 DEF RegisterCalculator, TypeOK, CallingHasCalculator, clientVars, netVars
<1>2. ASSUME NEW s \in Servers, RegisterNotification(s) PROVE TypeOK' /\ CallingHasCalculator'
  <2>1. UNCHANGED <<request_count, connected_clients, event_count, pushes,
                    clientVars, netVars>>
    BY <1>2 DEF RegisterNotification
  <2>2. CASE /\ registry' = registry \cup {[name |-> "notification", peer |-> s]}
             /\ spc' = [spc EXCEPT ![s] = "running"]
    BY <2>1, <2>2 DEF TypeOK, CallingHasCalculator, clientVars, netVars
  <2>3. CASE /\ spc' = [spc EXCEPT ![s] = "exited"]
             /\ UNCHANGED registry
    BY <2>1, <2>3 DEF TypeOK, CallingHasCalculator, clientVars, netVars
  <2>. QED
    BY <1>2, <2>2, <2>3 DEF RegisterNotification
<1>3. ASSUME NEW s \in Servers, ServerStop(s) PROVE TypeOK' /\ CallingHasCalculator'
  BY <1>3 DEF ServerStop, TypeOK, CallingHasCalculator, clientVars, netVars
<1>4. ASSUME NEW s \in Servers, CalculatorHandle(s) PROVE TypeOK' /\ CallingHasCalculator'
  <2>1. PICK m \in reqs : /\ m.to = s /\ m.body # 0
                         /\ request_count' = [request_count EXCEPT ![s] = @ + 1]
                         /\ reqs' = reqs \ {m}
                         /\ reps' = reps \cup {[from |-> s, to |-> m.from, id |-> m.id,
                                                val |-> Result(m.body), sub |-> -1]}
    BY <1>4 DEF CalculatorHandle
  <2>2. m \in ReqMsg
    BY DEF TypeOK
  <2>3. Result(m.body) \in Vals
    BY <2>1, <2>2, ResultVal DEF ReqMsg
  <2>4. reps' \subseteq RepMsg
    BY <2>1, <2>2, <2>3 DEF TypeOK, RepMsg, ReqMsg
  <2>5. request_count' \in [Servers -> Nat]
    BY <2>1 DEF TypeOK
  <2>. QED
    BY <1>4, <2>1, <2>4, <2>5 DEF CalculatorHandle, TypeOK, CallingHasCalculator, clientVars
<1>5. ASSUME NEW s \in Servers, NotificationSubscribe(s) PROVE TypeOK' /\ CallingHasCalculator'
  <2>1. PICK m \in reqs : /\ m.to = s /\ m.body = 0
                         /\ event_count' = [event_count EXCEPT ![s] = @ + 1]
                         /\ connected_clients' = [connected_clients EXCEPT ![s] = @ \cup {m.from}]
                         /\ reqs' = reqs \ {m}
                         /\ reps' = reps \cup {[from |-> s, to |-> m.from, id |-> m.id,
                                                val |-> None, sub |-> event_count[s]]}
    BY <1>5 DEF NotificationSubscribe
  <2>2. m \in ReqMsg
    BY DEF TypeOK
  <2>3. reps' \subseteq RepMsg
    BY <2>1, <2>2, NoneVal DEF TypeOK, RepMsg, ReqMsg
  <2>4. /\ event_count' \in [Servers -> Nat]
        /\ connected_clients' \in [Servers -> SUBSET Clients]
    BY <2>1, <2>2 DEF TypeOK, ReqMsg
  <2>. QED
    BY <1>5, <2>1, <2>3, <2>4 DEF NotificationSubscribe, TypeOK, CallingHasCalculator, clientVars
<1>6. ASSUME NEW s \in Servers, NEW k \in PushKinds, PushNotification(s, k)
      PROVE TypeOK' /\ CallingHasCalculator'
  <2>1. Providers("client_handler") \subseteq Clients
    BY HandlerIsClient
  <2>2. pushes' \in [Servers -> [PushKinds -> 0 .. MaxPushes]]
    BY <1>6 DEF PushNotification, TypeOK
  <2>3. notes' \subseteq PushMsg
    <3>1. pushes[s][k] + 1 \in Nat
      BY DEF TypeOK
    <3>2. CASE \E h \in Providers("client_handler") :
                 notes' = notes \cup {[from |-> s, to |-> h, kind |-> k,
                                       seq |-> pushes[s][k] + 1]}
      BY <3>1, <3>2, <2>1 DEF TypeOK, PushMsg
    <3>3. CASE UNCHANGED notes
      BY <3>3 DEF TypeOK
    <3>. QED
      BY <1>6, <3>2, <3>3 DEF PushNotification
  <2>. QED
    BY <1>6, <2>2, <2>3 DEF PushNotification, TypeOK, CallingHasCalculator, clientVars
<1>7. ASSUME NEW c \in Clients, RegisterHandler(c) PROVE TypeOK' /\ CallingHasCalculator'
  <2>1. CASE /\ registry' = registry \cup {[name |-> "client_handler", peer |-> c]}
             /\ cpc' = [cpc EXCEPT ![c] = "lookup_notification"]
             /\ UNCHANGED exitCause
    BY <1>7, <2>1 DEF RegisterHandler, TypeOK, CallingHasCalculator, serverVars, netVars
  <2>2. CASE /\ cpc' = [cpc EXCEPT ![c] = "exited"]
             /\ exitCause' = [exitCause EXCEPT ![c] = "register"]
             /\ UNCHANGED registry
    BY <1>7, <2>2 DEF RegisterHandler, TypeOK, CallingHasCalculator, serverVars, netVars
  <2>. QED
    BY <1>7, <2>1, <2>2 DEF RegisterHandler
<1>8. ASSUME NEW c \in Clients, LookupNotification(c) PROVE TypeOK' /\ CallingHasCalculator'
  <2>1. Providers("notification") \subseteq Servers
    BY DEF TypeOK, Providers
  <2>2. callId[c] + 1 \in Nat
    BY DEF TypeOK
  <2>3. CASE \E s \in Providers("notification") :
               /\ callId' = [callId EXCEPT ![c] = @ + 1]
               /\ reqs' = reqs \cup {[from |-> c, to |-> s, id |-> callId[c] + 1,
                                      body |-> 0]}
               /\ cpc' = [cpc EXCEPT ![c] = "subscribing"]
               /\ UNCHANGED exitCause
    BY <1>8, <2>1, <2>2, <2>3 DEF LookupNotification, TypeOK, CallingHasCalculator, serverVars,
                                  ReqMsg
  <2>4. CASE /\ cpc' = [cpc EXCEPT ![c] = "find"]
             /\ UNCHANGED <<callId, reqs, exitCause>>
    BY <1>8, <2>4 DEF LookupNotification, TypeOK, CallingHasCalculator, serverVars
  <2>5. CASE /\ cpc' = [cpc EXCEPT ![c] = "exited"]
             /\ exitCause' = [exitCause EXCEPT ![c] = "lookup"]
             /\ UNCHANGED <<callId, reqs>>
    BY <1>8, <2>5 DEF LookupNotification, TypeOK, CallingHasCalculator, serverVars
  <2>. QED
    BY <1>8, <2>3, <2>4, <2>5 DEF LookupNotification
<1>9. ASSUME NEW c \in Clients, Subscribed(c) PROVE TypeOK' /\ CallingHasCalculator'
  BY <1>9 DEF Subscribed, TypeOK, CallingHasCalculator, serverVars
<1>10. ASSUME NEW c \in Clients, SubscribeError(c) PROVE TypeOK' /\ CallingHasCalculator'
  BY <1>10 DEF SubscribeError, TypeOK, CallingHasCalculator, serverVars, netVars
<1>11. ASSUME NEW c \in Clients, FindCalculator(c) PROVE TypeOK' /\ CallingHasCalculator'
  <2>1. Providers("calculator") \subseteq Servers
    BY DEF TypeOK, Providers
  <2>2. round' \in [Clients -> 0 .. MaxRounds]
    BY <1>11 DEF FindCalculator, TypeOK
  <2>3. CASE \E s \in Providers("calculator") \ {c} :
               /\ calculator' = [calculator EXCEPT ![c] = s]
               /\ AskCalc(c, s, 1)
    <3>1. PICK s \in Providers("calculator") \ {c} :
                 /\ calculator' = [calculator EXCEPT ![c] = s]
                 /\ AskCalc(c, s, 1)
      BY <2>3
    <3>2. 1 \in 1 .. NCalcs
      BY NCalcsValue
    <3>3. s \in Servers
      BY <2>1, <3>1
    <3>4. /\ ci' \in [Clients -> 1 .. NCalcs]
          /\ callId' \in [Clients -> Nat]
          /\ reqs' \subseteq ReqMsg
          /\ cpc' = [cpc EXCEPT ![c] = "calling"]
      BY <3>1, <3>2, <3>3, AskCalcType
    <3>5. calculator' \in [Clients -> Servers \cup {NoPeer}]
          /\ calculator'[c] \in Servers
      BY <3>1, <3>3 DEF TypeOK
    <3>6. CallingHasCalculator'
      BY <3>1, <3>4, <3>5 DEF CallingHasCalculator, TypeOK
    <3>7. cpc' \in [Clients -> ClientPcs]
      BY <3>4 DEF TypeOK, ClientPcs
    <3>. QED
      BY <1>11, <2>2, <3>4, <3>5, <3>6, <3>7 DEF FindCalculator, TypeOK, serverVars
  <2>4. CASE UNCHANGED <<cpc, ci, calculator, callId, reqs>>
    BY <1>11, <2>2, <2>4 DEF FindCalculator, TypeOK, CallingHasCalculator, serverVars
  <2>. QED
    BY <1>11, <2>3, <2>4 DEF FindCalculator
<1>12. ASSUME NEW c \in Clients, CalcReplied(c) PROVE TypeOK' /\ CallingHasCalculator'
  <2>1. PICK m \in reps : /\ m.to = c /\ m.id = callId[c]
                         /\ lastOk' = [lastOk EXCEPT ![c] = [i |-> ci[c], val |-> m.val]]
                         /\ reps' = reps \ {m}
    BY <1>12 DEF CalcReplied
  <2>2. m \in RepMsg
    BY DEF TypeOK
  <2>3. lastOk' \in [Clients -> [i : 0 .. NCalcs, val : Vals]]
    BY <2>1, <2>2 DEF TypeOK, RepMsg
  <2>4. reps' \subseteq RepMsg
    BY <2>1 DEF TypeOK
  <2>. QED
    BY <1>12, <2>3, <2>4, NextCalcType DEF CalcReplied, TypeOK, CallingHasCalculator, serverVars
<1>13. ASSUME NEW c \in Clients, CalcError(c) PROVE TypeOK' /\ CallingHasCalculator'
  BY <1>13, NextCalcType DEF CalcError, TypeOK, CallingHasCalculator, serverVars
<1>14. ASSUME NEW c \in Clients, HandleNotification(c) PROVE TypeOK' /\ CallingHasCalculator'
  BY <1>14 DEF HandleNotification, TypeOK, CallingHasCalculator, serverVars
<1>15. ASSUME NEW c \in Clients, ClientKilled(c) PROVE TypeOK' /\ CallingHasCalculator'
  BY <1>15 DEF ClientKilled, TypeOK, CallingHasCalculator, serverVars, netVars, ClientPcs, ExitCauses
<1>16. CASE LoseMessage
  BY <1>16 DEF LoseMessage, TypeOK, CallingHasCalculator, serverVars, clientVars
<1>17. CASE Terminated \/ UNCHANGED vars
  BY <1>17 DEF Terminated, TypeOK, CallingHasCalculator, vars, serverVars, clientVars, netVars
<1>. QED
  BY <1>1, <1>2, <1>3, <1>4, <1>5, <1>6, <1>7, <1>8, <1>9, <1>10, <1>11,
     <1>12, <1>13, <1>14, <1>15, <1>16, <1>17 DEF Next

(* The type invariant holds in every reachable state. *)
THEOREM TypeCorrect == Spec => []TypeOK
<1>1. TypeInv => TypeOK
  BY DEF TypeInv
<1>. QED
  BY <1>1, InitTypeInv, NextTypeInv, PTL DEF Spec
-----------------------------------------------------------------------------
(***************************************************************************)
(* Correlation.  ReplyMatchesRequest is not inductive: it speaks of the    *)
(* reply accepted, not of the messages in flight.  The strengthening says  *)
(* that no message carries a correlation id the client has not issued, and *)
(* that the request and the reply carrying the id of a pending calculation *)
(* are for the calculation being asked.                                    *)
(***************************************************************************)
IdsIssued ==
  /\ \A m \in reqs : m.id \in 1 .. callId[m.from]
  /\ \A m \in reps : m.id \in 1 .. callId[m.to]

PendingRequest ==
  \A m \in reqs : m.id = callId[m.from] /\ cpc[m.from] = "calling" => m.body = ci[m.from]

PendingReply ==
  \A m \in reps : m.id = callId[m.to] /\ cpc[m.to] = "calling" => m.val = Result(ci[m.to])

CorrInv == TypeInv /\ IdsIssued /\ PendingRequest /\ PendingReply /\ ReplyMatchesRequest

Corr == IdsIssued /\ PendingRequest /\ PendingReply /\ ReplyMatchesRequest

LEMMA InitCorrInv == Init => CorrInv
<1> SUFFICES ASSUME Init PROVE CorrInv
  OBVIOUS
<1>1. TypeInv
  BY InitTypeInv
<1>. QED
  BY <1>1 DEF Init, CorrInv, IdsIssued, PendingRequest, PendingReply, ReplyMatchesRequest

(* A step that leaves the client's calls and the asks in flight alone.   *)
LEMMA CorrFrame ==
  ASSUME CorrInv, UNCHANGED <<cpc, callId, ci, reqs, reps, lastOk>>
  PROVE  Corr'
  BY DEF CorrInv, Corr, IdsIssued, PendingRequest, PendingReply, ReplyMatchesRequest

(* A step that only moves client c to a place other than "calling" and   *)
(* drops messages in flight.                                              *)
LEMMA CorrLeave ==
  ASSUME CorrInv, NEW c \in Clients, NEW p, p # "calling",
         cpc' = [cpc EXCEPT ![c] = p],
         reqs' \subseteq reqs, reps' \subseteq reps,
         UNCHANGED <<callId, ci, lastOk>>
  PROVE  Corr'
  BY DEF CorrInv, TypeInv, TypeOK, Corr, IdsIssued, PendingRequest, PendingReply,
         ReplyMatchesRequest

(* Asking calculation i with a fresh correlation id: the old messages of  *)
(* the client now carry an id below the pending one.                      *)
LEMMA AskCalcCorr ==
  ASSUME TypeOK, IdsIssued, PendingRequest, PendingReply,
         NEW c \in Clients, NEW s \in Servers, NEW i \in 1 .. NCalcs,
         AskCalc(c, s, i), reps' \subseteq reps
  PROVE  IdsIssued' /\ PendingRequest' /\ PendingReply'
<1>1. /\ ci' = [ci EXCEPT ![c] = i]
      /\ callId' = [callId EXCEPT ![c] = @ + 1]
      /\ reqs' = reqs \cup {[from |-> c, to |-> s, id |-> callId[c] + 1, body |-> i]}
      /\ cpc' = [cpc EXCEPT ![c] = "calling"]
  BY DEF AskCalc
<1>2. callId[c] \in Nat
  BY DEF TypeOK
<1>3. IdsIssued'
  BY <1>1, <1>2 DEF IdsIssued, TypeOK, ReqMsg, RepMsg
<1>4. PendingRequest'
  BY <1>1, <1>2 DEF IdsIssued, PendingRequest, TypeOK, ReqMsg
<1>5. PendingReply'
  BY <1>1, <1>2 DEF IdsIssued, PendingReply, TypeOK, RepMsg
<1>. QED
  BY <1>3, <1>4, <1>5

(* After a calculation resolved: the next ask, or the end of the round.   *)
LEMMA NextCalcCorr ==
  ASSUME TypeOK, CallingHasCalculator, IdsIssued, PendingRequest, PendingReply,
         NEW c \in Clients, cpc[c] = "calling", NextCalc(c), reps' \subseteq reps
  PROVE  IdsIssued' /\ PendingRequest' /\ PendingReply'
<1>1. CASE ci[c] < NCalcs /\ AskCalc(c, calculator[c], ci[c] + 1)
  <2>1. calculator[c] \in Servers
    BY DEF CallingHasCalculator
  <2>2. ci[c] \in 1 .. NCalcs
    BY DEF TypeOK
  <2>3. ci[c] + 1 \in 1 .. NCalcs
    BY <1>1, <2>2, NCalcsValue
  <2>. QED
    BY <1>1, <2>1, <2>3, AskCalcCorr
<1>2. CASE ci[c] = NCalcs /\ cpc' = [cpc EXCEPT ![c] = "find"] /\ UNCHANGED <<ci, callId, reqs>>
  BY <1>2 DEF TypeOK, IdsIssued, PendingRequest, PendingReply
<1>. QED
  BY <1>1, <1>2 DEF NextCalc

LEMMA NextCorrInv == CorrInv /\ [Next]_vars => CorrInv'
<1> SUFFICES ASSUME CorrInv, [Next]_vars PROVE CorrInv'
  OBVIOUS
<1> USE ConstantsAssumption, NCalcsValue
<1>0. TypeInv'
  BY NextTypeInv DEF CorrInv
<1>a. TypeOK /\ CallingHasCalculator /\ IdsIssued /\ PendingRequest /\ PendingReply
  BY DEF CorrInv, TypeInv
<1> SUFFICES Corr'
  BY <1>0 DEF CorrInv, Corr
<1>1. ASSUME NEW s \in Servers,
             \/ RegisterCalculator(s) \/ RegisterNotification(s) \/ ServerStop(s)
             \/ \E k \in PushKinds : PushNotification(s, k)
      PROVE  Corr'
  BY <1>1, CorrFrame DEF RegisterCalculator, RegisterNotification, ServerStop,
                         PushNotification, clientVars, netVars
<1>2. ASSUME NEW c \in Clients, HandleNotification(c) PROVE Corr'
  BY <1>2, CorrFrame DEF HandleNotification
<1>3. ASSUME NEW s \in Servers, CalculatorHandle(s) PROVE Corr'
  <2>1. PICK m \in reqs : /\ m.to = s /\ m.body # 0
                         /\ reqs' = reqs \ {m}
                         /\ reps' = reps \cup {[from |-> s, to |-> m.from, id |-> m.id,
                                                val |-> Result(m.body), sub |-> -1]}
    BY <1>3 DEF CalculatorHandle
  <2>2. UNCHANGED <<cpc, callId, ci, lastOk>>
    BY <1>3 DEF CalculatorHandle, clientVars
  <2>3. m \in ReqMsg
    BY <1>a DEF TypeOK
  <2>4. IdsIssued'
    BY <1>a, <2>1, <2>2, <2>3 DEF IdsIssued, ReqMsg
  <2>5. PendingRequest'
    BY <1>a, <2>1, <2>2 DEF PendingRequest
  <2>6. PendingReply'
    BY <1>a, <2>1, <2>2, <2>3 DEF PendingRequest, PendingReply, ReqMsg
  <2>. QED
    BY <2>2, <2>4, <2>5, <2>6 DEF Corr, CorrInv, ReplyMatchesRequest
<1>4. ASSUME NEW s \in Servers, NotificationSubscribe(s) PROVE Corr'
  <2>1. PICK m \in reqs : /\ m.to = s /\ m.body = 0
                         /\ reqs' = reqs \ {m}
                         /\ reps' = reps \cup {[from |-> s, to |-> m.from, id |-> m.id,
                                                val |-> None, sub |-> event_count[s]]}
    BY <1>4 DEF NotificationSubscribe
  <2>2. UNCHANGED <<cpc, callId, ci, lastOk>>
    BY <1>4 DEF NotificationSubscribe, clientVars
  <2>3. m \in ReqMsg
    BY <1>a DEF TypeOK
  <2>8. ci[m.from] \in 1 .. NCalcs
    BY <1>a, <2>3 DEF TypeOK, ReqMsg
  <2>4. ~(m.id = callId[m.from] /\ cpc[m.from] = "calling")
    BY <1>a, <2>1, <2>8 DEF PendingRequest
  <2>5. IdsIssued'
    BY <1>a, <2>1, <2>2, <2>3 DEF IdsIssued, ReqMsg
  <2>6. PendingRequest'
    BY <1>a, <2>1, <2>2 DEF PendingRequest
  <2>7. PendingReply'
    BY <1>a, <2>1, <2>2, <2>4 DEF PendingReply
  <2>. QED
    BY <2>2, <2>5, <2>6, <2>7 DEF Corr, CorrInv, ReplyMatchesRequest
<1>5. ASSUME NEW c \in Clients, RegisterHandler(c) PROVE Corr'
  <2>1. PICK p \in {"lookup_notification", "exited"} : cpc' = [cpc EXCEPT ![c] = p]
    BY <1>5 DEF RegisterHandler
  <2>. QED
    BY <1>5, <2>1, CorrLeave DEF RegisterHandler, netVars
<1>6. ASSUME NEW c \in Clients, LookupNotification(c) PROVE Corr'
  <2>1. CASE \E s \in Providers("notification") :
               /\ callId' = [callId EXCEPT ![c] = @ + 1]
               /\ reqs' = reqs \cup {[from |-> c, to |-> s, id |-> callId[c] + 1,
                                      body |-> 0]}
               /\ cpc' = [cpc EXCEPT ![c] = "subscribing"]
    <3>1. PICK s \in Providers("notification") :
               /\ callId' = [callId EXCEPT ![c] = @ + 1]
               /\ reqs' = reqs \cup {[from |-> c, to |-> s, id |-> callId[c] + 1,
                                      body |-> 0]}
               /\ cpc' = [cpc EXCEPT ![c] = "subscribing"]
      BY <2>1
    <3>2. UNCHANGED <<ci, reps, lastOk>>
      BY <1>6 DEF LookupNotification
    <3>3. callId[c] \in Nat
      BY <1>a DEF TypeOK
    <3>4. IdsIssued'
      BY <1>a, <3>1, <3>2, <3>3 DEF IdsIssued, TypeOK, ReqMsg, RepMsg
    <3>5. PendingRequest'
      BY <1>a, <3>1, <3>2, <3>3 DEF PendingRequest, TypeOK, ReqMsg
    <3>6. PendingReply'
      BY <1>a, <3>1, <3>2, <3>3 DEF PendingReply, TypeOK, RepMsg
    <3>. QED
      BY <3>2, <3>4, <3>5, <3>6 DEF Corr, CorrInv, ReplyMatchesRequest
  <2>2. CASE \E p \in {"find", "exited"} :
               cpc' = [cpc EXCEPT ![c] = p] /\ UNCHANGED <<callId, reqs>>
    BY <1>6, <2>2, CorrLeave DEF LookupNotification
  <2>. QED
    BY <1>6, <2>1, <2>2 DEF LookupNotification
<1>7. ASSUME NEW c \in Clients, Subscribed(c) PROVE Corr'
  BY <1>7, CorrLeave DEF Subscribed
<1>8. ASSUME NEW c \in Clients, SubscribeError(c) \/ ClientKilled(c) PROVE Corr'
  BY <1>8, CorrLeave DEF SubscribeError, ClientKilled, netVars
<1>9. ASSUME NEW c \in Clients, FindCalculator(c) PROVE Corr'
  <2>1. UNCHANGED <<lastOk, reps>>
    BY <1>9 DEF FindCalculator
  <2>2. CASE \E s \in Providers("calculator") \ {c} : AskCalc(c, s, 1)
    <3>1. PICK s \in Providers("calculator") \ {c} : AskCalc(c, s, 1)
      BY <2>2
    <3>2. s \in Servers
      BY <1>a, <3>1 DEF TypeOK, Providers
    <3>3. IdsIssued' /\ PendingRequest' /\ PendingReply'
      BY <1>a, <2>1, <3>1, <3>2, AskCalcCorr
    <3>. QED
      BY <2>1, <3>3 DEF Corr, CorrInv, ReplyMatchesRequest
  <2>3. CASE UNCHANGED <<cpc, ci, calculator, callId, reqs>>
    BY <2>1, <2>3, CorrFrame
  <2>. QED
    BY <1>9, <2>2, <2>3 DEF FindCalculator
<1>10. ASSUME NEW c \in Clients, CalcReplied(c) PROVE Corr'
  <2>1. PICK m \in reps : /\ m.to = c /\ m.id = callId[c]
                         /\ lastOk' = [lastOk EXCEPT ![c] = [i |-> ci[c], val |-> m.val]]
                         /\ reps' = reps \ {m}
    BY <1>10 DEF CalcReplied
  <2>2. cpc[c] = "calling" /\ NextCalc(c)
    BY <1>10 DEF CalcReplied
  <2>3. IdsIssued' /\ PendingRequest' /\ PendingReply'
    BY <1>a, <2>1, <2>2, NextCalcCorr
  <2>4. m.val = Result(ci[c])
    BY <1>a, <2>1, <2>2 DEF PendingReply
  <2>5. ReplyMatchesRequest'
    BY <2>1, <2>4, <1>a DEF CorrInv, ReplyMatchesRequest, TypeOK
  <2>. QED
    BY <2>3, <2>5 DEF Corr
<1>11. ASSUME NEW c \in Clients, CalcError(c) PROVE Corr'
  <2>1. cpc[c] = "calling" /\ NextCalc(c) /\ UNCHANGED <<reps, lastOk>>
    BY <1>11 DEF CalcError
  <2>2. IdsIssued' /\ PendingRequest' /\ PendingReply'
    BY <1>a, <2>1, NextCalcCorr
  <2>. QED
    BY <2>1, <2>2 DEF Corr, CorrInv, ReplyMatchesRequest
<1>12. CASE LoseMessage
  <2>1. reqs' \subseteq reqs /\ reps' \subseteq reps
    BY <1>12 DEF LoseMessage
  <2>. QED
    BY <1>12, <2>1 DEF LoseMessage, clientVars, CorrInv, Corr, IdsIssued, PendingRequest,
                       PendingReply, ReplyMatchesRequest
<1>13. CASE Terminated \/ UNCHANGED vars
  BY <1>13, CorrFrame DEF Terminated, vars, clientVars, netVars
<1>. QED
  BY <1>1, <1>2, <1>3, <1>4, <1>5, <1>6, <1>7, <1>8, <1>9, <1>10, <1>11, <1>12, <1>13
  DEF Next

(* The correlation property of the execute_* Ok arms: a result a client   *)
(* accepts for the i-th demo calculation is the calculator's result for   *)
(* it, whatever asks timed out, replies arrived late or messages were     *)
(* lost before.                                                           *)
THEOREM RepliesCorrelated == Spec => []ReplyMatchesRequest
<1>1. CorrInv => ReplyMatchesRequest
  BY DEF CorrInv
<1>. QED
  BY <1>1, InitCorrInv, NextCorrInv, PTL DEF Spec

-----------------------------------------------------------------------------
(***************************************************************************)
(* Refinement: run_demo_mode implements the abstract demo loop DemoCalls.  *)
(* Calls!Spec is the safety part of the demo loop's contract; the proof   *)
(* rests on CorrInv, whose PendingReply says                               *)
(* that the reply a calling client takes carries Result(ci[c]).            *)
(***************************************************************************)

(* The set the refinement mapping gives DemoCalls' asking. *)
Asking == {c \in Clients : cpc[c] = "calling"}

LEMMA InitCalls == Init => Calls!Init
BY DEF Init, Calls!Init

(* A step that moves no client into or out of "calling" and leaves ci and *)
(* lastOk alone is a stutter of DemoCalls.                                *)
LEMMA CallsStutter ==
  ASSUME cpc \in [Clients -> ClientPcs],
         NEW c \in Clients, NEW p, cpc[c] # "calling", p # "calling",
         cpc' = [cpc EXCEPT ![c] = p] \/ cpc' = cpc,
         UNCHANGED <<ci, lastOk>>
  PROVE  UNCHANGED Calls!vars
<1>1. Asking' = Asking
  BY DEF Asking
<1>. QED
  BY <1>1 DEF Calls!vars, Asking

(* NextCalc after the calculation of a calling client is Advance. *)
LEMMA NextCalcAdvance ==
  ASSUME TypeOK, NEW c \in Clients, cpc[c] = "calling", NextCalc(c)
  PROVE  Calls!Advance(c)
<1>1. ci[c] \in 1 .. NCalcs
  BY DEF TypeOK
<1>2. CASE ci[c] < NCalcs /\ AskCalc(c, calculator[c], ci[c] + 1)
  <2>1. ci' = [ci EXCEPT ![c] = ci[c] + 1] /\ cpc' = [cpc EXCEPT ![c] = "calling"]
    BY <1>2 DEF AskCalc
  <2>2. Asking' = Asking
    BY <2>1 DEF Asking, TypeOK
  <2>. QED
    BY <1>2, <2>1, <2>2 DEF Calls!Advance, Asking
<1>3. CASE ci[c] = NCalcs /\ cpc' = [cpc EXCEPT ![c] = "find"] /\ UNCHANGED <<ci, callId, reqs>>
  <2>1. Asking' = Asking \ {c}
    BY <1>3 DEF Asking, TypeOK
  <2>. QED
    BY <1>3, <2>1 DEF Calls!Advance, Asking
<1>. QED
  BY <1>2, <1>3 DEF NextCalc

LEMMA NextCalls == CorrInv /\ [Next]_vars => [Calls!Next]_Calls!vars
<1> SUFFICES ASSUME CorrInv, [Next]_vars PROVE [Calls!Next]_Calls!vars
  OBVIOUS
<1> USE DEF ServerPcs, ClientPcs
<1>a. TypeOK /\ PendingReply
  BY DEF CorrInv, TypeInv
<1>1. ASSUME NEW s \in Servers,
             \/ RegisterCalculator(s) \/ RegisterNotification(s) \/ ServerStop(s)
             \/ CalculatorHandle(s) \/ NotificationSubscribe(s)
             \/ \E k \in PushKinds : PushNotification(s, k)
      PROVE  UNCHANGED Calls!vars
  BY <1>1 DEF RegisterCalculator, RegisterNotification, ServerStop, CalculatorHandle,
              NotificationSubscribe, PushNotification, clientVars, Calls!vars, Asking
<1>2. ASSUME NEW c \in Clients, HandleNotification(c) PROVE UNCHANGED Calls!vars
  BY <1>2 DEF HandleNotification, Calls!vars, Asking
<1>3. ASSUME NEW c \in Clients,
             RegisterHandler(c) \/ LookupNotification(c) \/ Subscribed(c) \/ SubscribeError(c)
      PROVE  UNCHANGED Calls!vars
  <2>1. cpc[c] \in {"register", "lookup_notification", "subscribing"}
    BY <1>3 DEF RegisterHandler, LookupNotification, Subscribed, SubscribeError
  <2>2. \E p \in {"lookup_notification", "subscribing", "find", "exited"} :
          cpc' = [cpc EXCEPT ![c] = p]
    BY <1>3 DEF RegisterHandler, LookupNotification, Subscribed, SubscribeError
  <2>3. UNCHANGED <<ci, lastOk>>
    BY <1>3 DEF RegisterHandler, LookupNotification, Subscribed, SubscribeError
  <2>. QED
    BY <2>1, <2>2, <2>3, <1>a, CallsStutter DEF TypeOK
<1>4. ASSUME NEW c \in Clients, ClientKilled(c) PROVE [Calls!Next]_Calls!vars
  <2>1. cpc' = [cpc EXCEPT ![c] = "exited"] /\ UNCHANGED <<ci, lastOk>>
    BY <1>4 DEF ClientKilled
  <2>2. CASE cpc[c] = "calling"
    <3>1. Asking' = Asking \ {c} /\ c \in Asking
      BY <2>1, <2>2, <1>a DEF Asking, TypeOK
    <3>. QED
      BY <2>1, <3>1 DEF Calls!Next, Calls!Stop, Asking
  <2>3. CASE cpc[c] # "calling"
    BY <2>1, <2>3, <1>a, CallsStutter DEF TypeOK
  <2>. QED
    BY <2>2, <2>3
<1>5. ASSUME NEW c \in Clients, FindCalculator(c) PROVE [Calls!Next]_Calls!vars
  <2>1. cpc[c] = "find" /\ UNCHANGED lastOk
    BY <1>5 DEF FindCalculator
  <2>2. CASE \E s \in Providers("calculator") \ {c} : AskCalc(c, s, 1)
    <3>1. ci' = [ci EXCEPT ![c] = 1] /\ cpc' = [cpc EXCEPT ![c] = "calling"]
      BY <2>2 DEF AskCalc
    <3>2. Asking' = Asking \cup {c} /\ c \notin Asking
      BY <2>1, <3>1, <1>a DEF Asking, TypeOK
    <3>. QED
      BY <2>1, <3>1, <3>2 DEF Calls!Next, Calls!StartRound, Asking
  <2>3. CASE UNCHANGED <<cpc, ci, calculator, callId, reqs>>
    BY <2>1, <2>3 DEF Calls!vars, Asking
  <2>. QED
    BY <1>5, <2>2, <2>3 DEF FindCalculator
<1>6. ASSUME NEW c \in Clients, CalcReplied(c) PROVE Calls!Next
  <2>1. PICK m \in reps : /\ m.to = c /\ m.id = callId[c]
                         /\ lastOk' = [lastOk EXCEPT ![c] = [i |-> ci[c], val |-> m.val]]
    BY <1>6 DEF CalcReplied
  <2>2. cpc[c] = "calling" /\ NextCalc(c)
    BY <1>6 DEF CalcReplied
  <2>3. m.val = Result(ci[c])
    BY <1>a, <2>1, <2>2 DEF PendingReply
  <2>4. Calls!Advance(c) /\ c \in Asking
    BY <1>a, <2>2, NextCalcAdvance DEF Asking
  <2>. QED
    BY <2>1, <2>3, <2>4 DEF Calls!Next, Calls!Answered, Asking
<1>7. ASSUME NEW c \in Clients, CalcError(c) PROVE Calls!Next
  <2>1. cpc[c] = "calling" /\ NextCalc(c) /\ UNCHANGED lastOk
    BY <1>7 DEF CalcError
  <2>2. Calls!Advance(c) /\ c \in Asking
    BY <1>a, <2>1, NextCalcAdvance DEF Asking
  <2>. QED
    BY <2>1, <2>2 DEF Calls!Next, Calls!Failed, Asking
<1>8. CASE LoseMessage \/ Terminated \/ UNCHANGED vars
  BY <1>8 DEF LoseMessage, Terminated, vars, clientVars, Calls!vars, Asking
<1>. QED
  BY <1>1, <1>2, <1>3, <1>4, <1>5, <1>6, <1>7, <1>8 DEF Next

(* The demo loop (run_demo_mode with the execute_* arms) refines the      *)
(* abstract DemoCalls: each round asks the calculations in order, and     *)
(* every result it accepts is the right answer to its calculation.        *)
THEOREM CallsRefinement == Spec => Calls!Spec
<1>1. Spec => []CorrInv
  BY InitCorrInv, NextCorrInv, PTL DEF Spec
<1>. QED
  BY <1>1, InitCalls, NextCalls, PTL DEF Spec, Calls!Spec

=============================================================================
