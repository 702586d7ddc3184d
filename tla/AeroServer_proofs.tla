-------------------------- MODULE AeroServer_proofs --------------------------
(***************************************************************************)
(* Proofs about AeroServer, for every number of callers, connections and   *)
(* identities and every RETRY_COUNT the assumption allows.                 *)
(***************************************************************************)
EXTENDS AeroServer, TLAPS

(* AeroTypeOK is not inductive: an attempt that fails past the head of the *)
(* loop has to be known to be within the bound already.                    *)
TypeInv ==
  /\ AeroTypeOK
  /\ \A w \in Callers :
       pc[w] \in {"login", "agent", "request"} => attempt[w] < RETRY_COUNT

(* Every step of a call keeps the types.                                   *)
LEMMA CallStepType ==
  ASSUME TypeInv, NEW w \in Callers, CallStep(w)
  PROVE  TypeInv'
<1> USE AeroAssumption DEF TypeInv, AeroTypeOK, Operation, Location, FaultCap, serverVars,
        sessionVars, connVars, resultVars
<1>1. CASE Reuse(w)
  BY <1>1 DEF Reuse, AtLoop, Goto
<1>2. CASE Dial(w)
  BY <1>2 DEF Dial, AtLoop, Goto, AfterConnect
<1>3. CASE DialFail(w)
  BY <1>3 DEF DialFail, AtLoop, NextAttempt
<1>4. CASE LoginOk(w)
  BY <1>4 DEF LoginOk, Goto, AfterConnect, Reached
<1>5. CASE LoginFail(w)
  BY <1>5 DEF LoginFail, NextAttempt, Close
<1>6. CASE UserAgentSet(w)
  BY <1>6 DEF UserAgentSet, Goto
<1>7. CASE UserAgentFail(w)
  BY <1>7 DEF UserAgentFail, NextAttempt, Close
<1>8. CASE InfoAnswered(w)
  BY <1>8 DEF InfoAnswered, Return
<1>9. CASE InfoDenied(w)
  BY <1>9 DEF InfoDenied, Return
<1>10. CASE InfoFailed(w)
  BY <1>10 DEF InfoFailed, NextAttempt, Close
<1>11. CASE UsersAnswered(w)
  BY <1>11 DEF UsersAnswered, Return
<1>12. CASE RoleViolation(w)
  BY <1>12 DEF RoleViolation, Return
<1>13. CASE UsersFailed(w)
  BY <1>13 DEF UsersFailed, NextAttempt, Close
<1>14. CASE GiveUp(w)
  BY <1>14 DEF GiveUp, Return
<1> QED
  BY <1>1, <1>2, <1>3, <1>4, <1>5, <1>6, <1>7, <1>8, <1>9, <1>10, <1>11, <1>12,
     <1>13, <1>14 DEF CallStep

(* So does everything the node and the network do.                         *)
LEMMA EnvironmentType ==
  ASSUME TypeInv, Environment
  PROVE  TypeInv'
<1> USE AeroAssumption DEF TypeInv, AeroTypeOK, Operation, Location, FaultCap, serverVars,
        sessionVars, connVars, callVars
<1>1. CASE ServerChange
  BY <1>1 DEF ServerChange
<1>2. CASE ServerDown
  BY <1>2 DEF ServerDown
<1>3. CASE ServerStart
  BY <1>3 DEF ServerStart
<1>4. CASE PrivilegeChange
  BY <1>4 DEF PrivilegeChange
<1>5. ASSUME NEW s \in Sockets, NetDrop(s)
      PROVE  TypeInv'
  BY <1>5 DEF NetDrop
<1> QED
  BY <1>1, <1>2, <1>3, <1>4, <1>5 DEF Environment

(* And every step of the specification.                                    *)
LEMMA NextType ==
  ASSUME TypeInv, [AeroNext]_aeroVars
  PROVE  TypeInv'
<1>1. ASSUME NEW w \in Callers, NEW o \in Operation, BeginCall(w, o)
      PROVE  TypeInv'
  BY <1>1, AeroAssumption DEF BeginCall, TypeInv, AeroTypeOK, Operation, Location,
       FaultCap, serverVars, sessionVars, connVars
<1>2. ASSUME NEW w \in Callers, Watch(w)
      PROVE  TypeInv'
  BY <1>2, AeroAssumption DEF Watch, TypeInv, AeroTypeOK, Operation, Location,
       FaultCap, serverVars, sessionVars, connVars
<1>3. CASE UNCHANGED aeroVars
  BY <1>3 DEF aeroVars, TypeInv, AeroTypeOK
<1> QED
  BY <1>1, <1>2, <1>3, CallStepType, EnvironmentType DEF AeroNext

LEMMA InitType == AeroInit => TypeInv
BY AeroAssumption DEF AeroInit, TypeInv, AeroTypeOK, Operation, Location, FaultCap

(* The strengthened type invariant holds.                                  *)
LEMMA TypeInvariance == AeroSpec => []TypeInv
<1>1. TypeInv /\ [AeroNext]_aeroVars => TypeInv'
  BY NextType
<1> QED
  BY <1>1, InitType, PTL DEF AeroSpec

(* AeroTypeOK is an invariant: in particular no call makes more than       *)
(* RETRY_COUNT attempts.                                                   *)
THEOREM TypeCorrect == AeroSpec => []AeroTypeOK
<1>1. TypeInv => AeroTypeOK
  BY DEF TypeInv
<1> QED
  BY <1>1, TypeInvariance, PTL

-----------------------------------------------------------------------------
(***************************************************************************)
(* Connections and results.  OneSocket and AuthenticatedRequests only hold *)
(* because calls do not overlap, because a call is past the head of the    *)
(* loop only with an open connection, and because a connection outlives    *)
(* its login only if the login succeeded.                                  *)
(***************************************************************************)
OneCall == \A v, w \in Callers : pc[v] # "idle" /\ pc[w] # "idle" => v = w

ConnectedPastLoop ==
  \A w \in Callers : pc[w] \in {"login", "agent", "request"} => aeroConnection \in opened

LoggedInUnlessLogin ==
  RequiresAuthentication /\ (\A w \in Callers : pc[w] # "login") => live \subseteq loggedIn

ResultsPending ==
  \A w \in Callers :
    /\ pc[w] # "idle" => op[w] \in Operation /\ reply[w] = NoReply
    /\ op[w] = "info" /\ pc[w] = "loop" /\ attempt[w] > 0 => err[w]

ConnInv ==
  /\ TypeInv
  /\ live \subseteq opened
  /\ OneSocket
  /\ OneCall
  /\ ConnectedPastLoop
  /\ LoggedInUnlessLogin
  /\ ResultsPending
  /\ InfoAnswersOrFails
  /\ RoleViolationNotRetried

(* No step of a call breaks ConnInv.                                       *)
LEMMA CallStepConn ==
  ASSUME ConnInv, TypeInv', NEW w \in Callers, CallStep(w)
  PROVE  ConnInv'
<1> USE AeroAssumption DEF ConnInv, TypeInv, AeroTypeOK, Operation, Location,
        OneSocket, OneCall, ConnectedPastLoop, LoggedInUnlessLogin, ResultsPending,
        InfoAnswersOrFails, RoleViolationNotRetried, serverVars, sessionVars,
        connVars, resultVars
<1>1. CASE Reuse(w)
  BY <1>1 DEF Reuse, AtLoop, Goto, IsServerConnected
<1>2. CASE Dial(w)
  BY <1>2 DEF Dial, AtLoop, Goto, AfterConnect, IsServerConnected
<1>3. CASE DialFail(w)
  BY <1>3 DEF DialFail, AtLoop, NextAttempt, IsServerConnected
<1>4. CASE LoginOk(w)
  BY <1>4 DEF LoginOk, Goto, AfterConnect, Reached
<1>5. CASE LoginFail(w)
  BY <1>5 DEF LoginFail, NextAttempt, Close
<1>6. CASE UserAgentSet(w)
  BY <1>6 DEF UserAgentSet, Goto
<1>7. CASE UserAgentFail(w)
  BY <1>7 DEF UserAgentFail, NextAttempt, Close
<1>8. CASE InfoAnswered(w)
  BY <1>8 DEF InfoAnswered, Return
<1>9. CASE InfoDenied(w)
  BY <1>9 DEF InfoDenied, Return
<1>10. CASE InfoFailed(w)
  BY <1>10 DEF InfoFailed, NextAttempt, Close
<1>11. CASE UsersAnswered(w)
  BY <1>11 DEF UsersAnswered, Return
<1>12. CASE RoleViolation(w)
  BY <1>12 DEF RoleViolation, Return
<1>13. CASE UsersFailed(w)
  BY <1>13 DEF UsersFailed, NextAttempt, Close
<1>14. CASE GiveUp(w)
  BY <1>14 DEF GiveUp, Return
<1> QED
  BY <1>1, <1>2, <1>3, <1>4, <1>5, <1>6, <1>7, <1>8, <1>9, <1>10, <1>11, <1>12,
     <1>13, <1>14 DEF CallStep

(* Neither does anything the node and the network do.                      *)
LEMMA EnvironmentConn ==
  ASSUME ConnInv, TypeInv', Environment
  PROVE  ConnInv'
<1> USE AeroAssumption DEF ConnInv, TypeInv, AeroTypeOK, Operation, Location,
        OneSocket, OneCall, ConnectedPastLoop, LoggedInUnlessLogin, ResultsPending,
        InfoAnswersOrFails, RoleViolationNotRetried, serverVars, sessionVars,
        connVars, callVars
<1>1. CASE ServerChange
  BY <1>1 DEF ServerChange
<1>2. CASE ServerDown
  BY <1>2 DEF ServerDown
<1>3. CASE ServerStart
  BY <1>3 DEF ServerStart
<1>4. CASE PrivilegeChange
  BY <1>4 DEF PrivilegeChange
<1>5. ASSUME NEW s \in Sockets, NetDrop(s)
      PROVE  ConnInv'
  BY <1>5 DEF NetDrop
<1> QED
  BY <1>1, <1>2, <1>3, <1>4, <1>5 DEF Environment

(* ConnInv is inductive, given the types.                                  *)
LEMMA ConnInvariance == AeroSpec => []ConnInv
<1>1. AeroInit => ConnInv
  BY AeroAssumption DEF AeroInit, ConnInv, TypeInv, AeroTypeOK, Operation, Location,
     FaultCap, OneSocket, OneCall, ConnectedPastLoop, LoggedInUnlessLogin,
     ResultsPending, InfoAnswersOrFails, RoleViolationNotRetried
<1>2. ConnInv /\ TypeInv' /\ [AeroNext]_aeroVars => ConnInv'
  <2> SUFFICES ASSUME ConnInv, TypeInv', [AeroNext]_aeroVars
               PROVE  ConnInv'
    OBVIOUS
  <2>1. ASSUME NEW w \in Callers, NEW o \in Operation, Serial(w), BeginCall(w, o)
        PROVE  ConnInv'
    BY <2>1, AeroAssumption DEF Serial, BeginCall, ConnInv, TypeInv, AeroTypeOK,
         Operation, Location, OneSocket, OneCall, ConnectedPastLoop,
         LoggedInUnlessLogin, ResultsPending, InfoAnswersOrFails,
         RoleViolationNotRetried, serverVars, sessionVars, connVars
  <2>2. ASSUME NEW w \in Callers, Watch(w)
        PROVE  ConnInv'
    BY <2>2, AeroAssumption DEF Watch, ConnInv, TypeInv, AeroTypeOK,
         Operation, Location, OneSocket, OneCall, ConnectedPastLoop,
         LoggedInUnlessLogin, ResultsPending, InfoAnswersOrFails,
         RoleViolationNotRetried, serverVars, sessionVars, connVars
  <2>3. CASE UNCHANGED aeroVars
    BY <2>3 DEF aeroVars, ConnInv, TypeInv, AeroTypeOK, OneSocket, OneCall,
         ConnectedPastLoop, LoggedInUnlessLogin, ResultsPending, InfoAnswersOrFails,
         RoleViolationNotRetried
  <2> QED
    BY <2>1, <2>2, <2>3, CallStepConn, EnvironmentConn DEF AeroNext
<1> QED
  BY <1>1, <1>2, TypeInvariance, PTL DEF AeroSpec

(* No failure, at whatever point of an attempt, leaves an open connection  *)
(* behind: "allow only ONE connection".                                    *)
THEOREM OneSocketHolds == AeroSpec => []OneSocket
<1>1. ConnInv => OneSocket
  BY DEF ConnInv
<1> QED
  BY <1>1, ConnInvariance, PTL

(* A request reaches the node only on a session that has logged in.        *)
THEOREM AuthenticatedRequestsHolds == AeroSpec => []AuthenticatedRequests
<1>1. ConnInv => AuthenticatedRequests
  <2> SUFFICES ASSUME ConnInv, NEW w \in Callers, RequiresAuthentication,
                      pc[w] \in {"agent", "request"}, Reached
               PROVE  aeroConnection \in loggedIn
    BY DEF AuthenticatedRequests
  <2>1. \A v \in Callers : pc[v] # "login"
    BY DEF ConnInv, OneCall
  <2> QED
    BY <2>1 DEF ConnInv, LoggedInUnlessLogin, Reached
<1> QED
  BY <1>1, ConnInvariance, PTL

(* RequestInfo never returns an empty response with a nil error.           *)
THEOREM InfoAnswersOrFailsHolds == AeroSpec => []InfoAnswersOrFails
<1>1. ConnInv => InfoAnswersOrFails
  BY DEF ConnInv
<1> QED
  BY <1>1, ConnInvariance, PTL

(* "Do not retry if there's role violation."                               *)
THEOREM RoleViolationNotRetriedHolds == AeroSpec => []RoleViolationNotRetried
<1>1. ConnInv => RoleViolationNotRetried
  BY SMTT(60) DEF ConnInv
<1> QED
  BY <1>1, ConnInvariance, PTL

-----------------------------------------------------------------------------
(***************************************************************************)
(* What the retries are worth.  FailureNeedsFaults follows from a count:   *)
(* while the node answers, an attempt of an info call fails only on a      *)
(* connection whose other end is gone, and uses that connection up, so     *)
(* that attempts and dead connections together never outnumber the one the *)
(* call may start with and the cuts since.  A users call keeps the         *)
(* connection on most errors and forgets all but a failed login, hence its *)
(* weaker bound and the longer case analysis.                              *)
(***************************************************************************)
Zombie == aeroConnection \in opened \ live

InfoBudget(w) == attempt[w] + (IF Zombie THEN 1 ELSE 0) <= faults[w] + 1

UsersBudget(w) ==
  /\ attempt[w] >= 2 /\ ~IsServerConnected => faults[w] >= 1
  /\ attempt[w] >= 1 /\ Zombie => faults[w] >= 1
  /\ pc[w] = "login" /\ attempt[w] >= 2 => faults[w] >= 1
  /\ pc[w] = "login" /\ Zombie => faults[w] >= 1
  /\ ~(pc[w] = "login" /\ Zombie /\ attempt[w] >= 2)
  /\ err[w] => pc[w] = "loop" /\ attempt[w] <= 2 /\ ~IsServerConnected

FaultInv ==
  /\ ConnInv
  /\ \A w \in Callers :
       /\ faults[w] < FaultCap => server = "up"
       /\ pc[w] = "agent" => op[w] = "info"
       /\ pc[w] # "idle" /\ op[w] = "info" /\ faults[w] < FaultCap => InfoBudget(w)
       /\ pc[w] # "idle" /\ op[w] = "users" /\ faults[w] < 2 => UsersBudget(w)
  /\ FailureNeedsFaults

(* No step of a call breaks FaultInv.                                      *)
LEMMA CallStepFault ==
  ASSUME FaultInv, ConnInv', NEW w \in Callers, CallStep(w)
  PROVE  FaultInv'
<1> USE AeroAssumption DEF FaultInv, ConnInv, TypeInv, AeroTypeOK, Operation, Location,
        OneSocket, OneCall, ConnectedPastLoop, ResultsPending, FaultCap, Zombie,
        InfoBudget, UsersBudget, IsServerConnected, FailureNeedsFaults,
        serverVars, sessionVars, connVars, resultVars
<1>1. CASE Reuse(w)
  BY <1>1 DEF Reuse, AtLoop, Goto
<1>2. CASE Dial(w)
  BY <1>2 DEF Dial, AtLoop, Goto, AfterConnect
<1>3. CASE DialFail(w)
  BY <1>3 DEF DialFail, AtLoop, NextAttempt
<1>4. CASE LoginOk(w)
  BY <1>4 DEF LoginOk, Goto, AfterConnect, Reached
<1>5. CASE LoginFail(w)
  BY <1>5 DEF LoginFail, NextAttempt, Close, Reached
<1>6. CASE UserAgentSet(w)
  BY <1>6 DEF UserAgentSet, Goto, Reached
<1>7. CASE UserAgentFail(w)
  BY <1>7 DEF UserAgentFail, NextAttempt, Close, Unreachable, Reached
<1>8. CASE InfoAnswered(w)
  BY <1>8 DEF InfoAnswered, Return
<1>9. CASE InfoDenied(w)
  BY <1>9 DEF InfoDenied, Return
<1>10. CASE InfoFailed(w)
  BY <1>10 DEF InfoFailed, NextAttempt, Close, Unreachable, Reached
<1>11. CASE UsersAnswered(w)
  BY <1>11 DEF UsersAnswered, Return
<1>12. CASE RoleViolation(w)
  BY <1>12 DEF RoleViolation, Return
<1>13. CASE UsersFailed(w)
  BY <1>13 DEF UsersFailed, NextAttempt, Close, Unreachable, Reached
<1>14. CASE GiveUp(w)
  BY <1>14 DEF GiveUp, Return
<1> QED
  BY <1>1, <1>2, <1>3, <1>4, <1>5, <1>6, <1>7, <1>8, <1>9, <1>10, <1>11, <1>12,
     <1>13, <1>14 DEF CallStep

(* Neither does the environment: a cut that makes a dead connection is     *)
(* counted, anything worse exhausts the count.                             *)
LEMMA EnvironmentFault ==
  ASSUME FaultInv, ConnInv', Environment
  PROVE  FaultInv'
<1> USE AeroAssumption DEF FaultInv, ConnInv, TypeInv, AeroTypeOK, Operation, Location,
        OneSocket, OneCall, ConnectedPastLoop, ResultsPending, FaultCap, Zombie,
        InfoBudget, UsersBudget, IsServerConnected, FailureNeedsFaults, serverVars,
        sessionVars, connVars, callVars
<1>1. CASE ServerChange
  BY <1>1 DEF ServerChange
<1>2. CASE ServerDown
  BY <1>2 DEF ServerDown
<1>3. CASE ServerStart
  BY <1>3 DEF ServerStart
<1>4. CASE PrivilegeChange
  BY <1>4 DEF PrivilegeChange
<1>5. ASSUME NEW s \in Sockets, NetDrop(s)
      PROVE  FaultInv'
  BY <1>5 DEF NetDrop
<1> QED
  BY <1>1, <1>2, <1>3, <1>4, <1>5 DEF Environment

(* FaultInv is inductive, given ConnInv.                                   *)
LEMMA FaultInvariance == AeroSpec => []FaultInv
<1>1. AeroInit /\ ConnInv => FaultInv
  BY AeroAssumption DEF AeroInit, FaultInv, InfoBudget, UsersBudget, FailureNeedsFaults
<1>2. FaultInv /\ ConnInv' /\ [AeroNext]_aeroVars => FaultInv'
  <2> SUFFICES ASSUME FaultInv, ConnInv', [AeroNext]_aeroVars
               PROVE  FaultInv'
    OBVIOUS
  <2>1. ASSUME NEW w \in Callers, NEW o \in Operation, Serial(w), BeginCall(w, o)
        PROVE  FaultInv'
    BY <2>1, AeroAssumption DEF Serial, BeginCall, FaultInv, ConnInv, TypeInv, AeroTypeOK, Operation, Location,
         OneSocket, OneCall, ConnectedPastLoop, ResultsPending, FaultCap, Zombie,
         InfoBudget, UsersBudget, IsServerConnected, FailureNeedsFaults,
         serverVars, sessionVars, connVars
  <2>2. ASSUME NEW w \in Callers, Watch(w)
        PROVE  FaultInv'
    BY <2>2, AeroAssumption DEF Watch, FaultInv, ConnInv, TypeInv, AeroTypeOK, Operation, Location,
         OneSocket, OneCall, ConnectedPastLoop, ResultsPending, FaultCap, Zombie,
         InfoBudget, UsersBudget, IsServerConnected, FailureNeedsFaults,
         serverVars, sessionVars, connVars
  <2>3. CASE UNCHANGED aeroVars
    BY <2>3 DEF aeroVars, FaultInv, Zombie, InfoBudget, UsersBudget,
         IsServerConnected, FailureNeedsFaults
  <2> QED
    BY <2>1, <2>2, <2>3, CallStepFault, EnvironmentFault DEF AeroNext
<1> QED
  BY <1>1, <1>2, ConnInvariance, PTL DEF AeroSpec

(* While the node answers, an info call fails only if RETRY_COUNT - 1      *)
(* connections were cut since its caller last looked, a users call only if *)
(* two were.                                                               *)
THEOREM FailureNeedsFaultsHolds == AeroSpec => []FailureNeedsFaults
<1>1. FaultInv => FailureNeedsFaults
  BY DEF FaultInv
<1> QED
  BY <1>1, FaultInvariance, PTL


-----------------------------------------------------------------------------
(* A connection that works is neither replaced nor dropped, by no error    *)
(* path of either kind of call.                                            *)
THEOREM NoNeedlessReconnectHolds == AeroSpec => NoNeedlessReconnect
<1>1. ASSUME IsServerConnected, Reached, server = "up", NEW w \in Callers, CallStep(w)
      PROVE  aeroConnection' = aeroConnection
  <2>1. CASE Reuse(w) \/ Dial(w) \/ DialFail(w) \/ LoginOk(w) \/ LoginFail(w)
    BY <1>1, <2>1 DEF Reuse, Dial, DialFail, LoginOk, LoginFail, connVars
  <2>2. CASE UserAgentSet(w) \/ UserAgentFail(w) \/ InfoAnswered(w) \/ InfoDenied(w)
               \/ InfoFailed(w)
    BY <1>1, <2>2 DEF UserAgentSet, UserAgentFail, InfoAnswered, InfoDenied, InfoFailed,
       Unreachable, connVars
  <2>3. CASE UsersAnswered(w) \/ RoleViolation(w) \/ UsersFailed(w) \/ GiveUp(w)
    BY <2>3 DEF UsersAnswered, RoleViolation, UsersFailed, GiveUp, connVars
  <2> QED
    BY <1>1, <2>1, <2>2, <2>3 DEF CallStep
<1>2. ASSUME NEW w \in Callers, Watch(w) \/ \E o \in Operation : BeginCall(w, o)
      PROVE  aeroConnection' = aeroConnection
  BY <1>2 DEF Watch, BeginCall, connVars
<1>3. ASSUME Environment
      PROVE  aeroConnection' = aeroConnection
  BY <1>3 DEF Environment, ServerChange, ServerDown, ServerStart, PrivilegeChange, NetDrop,
     connVars
<1>4. [AeroNext]_aeroVars =>
        [IsServerConnected /\ Reached /\ server = "up"
           => aeroConnection' = aeroConnection]_aeroVars
  BY <1>1, <1>2, <1>3 DEF AeroNext
<1> QED
  BY <1>4, PTL DEF AeroSpec, NoNeedlessReconnect
=============================================================================
