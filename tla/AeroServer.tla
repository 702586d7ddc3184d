----------------------------- MODULE AeroServer -----------------------------
(***************************************************************************)
(* The connection between the exporter and its Aerospike node: the type    *)
(* AerospikeServer of internal/pkg/dataprovider/aero_server.go.            *)
(*                                                                         *)
(* One AerospikeServer is shared by every caller (a scrape's goroutine, or *)
(* the OTel ticker), holds at most one connection and runs two kinds of    *)
(* call over it: RequestInfo ("info") and FetchUsersDetails ("users").     *)
(* Each is a loop of at most RETRY_COUNT attempts.  Every network          *)
(* operation of an attempt is an action of its own, so the server may      *)
(* stop, hang, change or cut the connection between any two of them.       *)
(*                                                                         *)
(* Nothing in AerospikeServer serialises its callers: that calls do not    *)
(* overlap is the rely condition Serial, which AeroNext assumes and the    *)
(* modules that use this one have to provide.                              *)
(***************************************************************************)
EXTENDS Naturals, FiniteSets

CONSTANTS
  Callers,                \* goroutines that call the data provider
  Sockets,                \* identities of TCP connections
  Idents,                 \* what a server says of itself: cluster, build, node id
  NoSocket, NoReply,      \* nil pointer, nil response
  RETRY_COUNT,            \* attempts of one call
  RequiresAuthentication, \* a user, or auth mode pki, is configured
  Modes, Privileges       \* how the node may behave, see below

ASSUME AeroAssumption ==
  /\ NoSocket \notin Sockets
  /\ NoReply \notin Idents
  /\ Idents # {}
  /\ RETRY_COUNT \in Nat /\ RETRY_COUNT >= 3
  /\ RequiresAuthentication \in BOOLEAN
  /\ Modes \subseteq {"up", "denying", "garbling", "hung"} /\ "up" \in Modes
  /\ Privileges \subseteq {"granted", "violation", "error"} /\ Privileges # {}

VARIABLES
  \* the Aerospike node and the network (external)
  server,         \* how the node treats this exporter: one of Modes or "down"
  ident,          \* what the node running now says of itself
  privilege,      \* what it answers to a users query
  live,           \* connections whose other end still exists
  loggedIn,       \* connections on which a login succeeded
  \* AerospikeServer
  aeroConnection, \* the connection held, or nil
  opened,         \* connections for which IsConnected() is true
  \* locals of the call each caller runs, or of the last one it ran
  op, pc, attempt, err, reply, shouldFetch,
  \* history: disturbances since the caller's last Watch, up to FaultCap
  faults

serverVars  == <<server, ident, privilege>>
sessionVars == <<live, loggedIn>>
connVars    == <<aeroConnection, opened>>
resultVars  == <<err, reply, shouldFetch>>
callVars    == <<op, pc, attempt, err, reply, shouldFetch>>
aeroVars    == <<server, ident, privilege, live, loggedIn, aeroConnection,
                 opened, op, pc, attempt, err, reply, shouldFetch, faults>>

(***************************************************************************)
(* Modes.  "up": the node answers.  "denying": it answers info requests with one   *)
(* ERROR: key and refuses logins.  "garbling": its answers do not parse.   *)
(* "hung": it accepts connections and never answers.  "down": no process.  *)
(* Privileges are the outcomes of a users query the node answers.          *)
(***************************************************************************)
Operation == {"info", "users"}
Location  == {"idle", "loop", "login", "agent", "request"}
FaultCap  == RETRY_COUNT - 1

AeroTypeOK ==
  /\ server \in Modes \cup {"down"}
  /\ ident \in Idents
  /\ privilege \in Privileges
  /\ live \subseteq Sockets
  /\ loggedIn \subseteq Sockets
  /\ aeroConnection \in Sockets \cup {NoSocket}
  /\ opened \subseteq Sockets
  /\ op \in [Callers -> Operation \cup {"none"}]
  /\ pc \in [Callers -> Location]
  /\ attempt \in [Callers -> 0 .. RETRY_COUNT]
  /\ err \in [Callers -> BOOLEAN]
  /\ reply \in [Callers -> Idents \cup {NoReply}]
  /\ shouldFetch \in [Callers -> BOOLEAN]
  /\ faults \in [Callers -> 0 .. FaultCap]

AeroInit ==
  /\ server = "up"
  /\ ident \in Idents
  /\ privilege \in Privileges
  /\ live = {} /\ loggedIn = {}
  /\ aeroConnection = NoSocket
  /\ opened = {}
  /\ op = [w \in Callers |-> "none"]
  /\ pc = [w \in Callers |-> "idle"]
  /\ attempt = [w \in Callers |-> 0]
  /\ err = [w \in Callers |-> FALSE]
  /\ reply = [w \in Callers |-> NoReply]
  /\ shouldFetch = [w \in Callers |-> TRUE]
  /\ faults = [w \in Callers |-> 0]

-----------------------------------------------------------------------------
(* Vocabulary of one attempt. *)

\* as.aeroConnection != nil && as.aeroConnection.IsConnected()
IsServerConnected == aeroConnection \in opened

\* The other end of the connection held will read what is written to it.
Reached == aeroConnection \in live

\* The next operation on the connection ends with an I/O error or a timeout.
Unreachable == ~Reached \/ server = "hung"

\* (*aero.Connection).Close: both ends are gone.
Close(s) ==
  /\ opened' = opened \ {s}
  /\ live' = live \ {s}
  /\ loggedIn' = loggedIn \ {s}

\* continue: the attempt is spent and the loop goes round.
NextAttempt(w) ==
  /\ pc' = [pc EXCEPT ![w] = "loop"]
  /\ attempt' = [attempt EXCEPT ![w] = @ + 1]

\* break, or the return after the loop.
Return(w) ==
  /\ pc' = [pc EXCEPT ![w] = "idle"]
  /\ UNCHANGED attempt

Goto(w, l) ==
  /\ pc' = [pc EXCEPT ![w] = l]
  /\ UNCHANGED attempt

\* Only fetchRequestInfoFromAerospike introduces itself on a new connection.
AfterConnect(w) == IF op[w] = "info" THEN "agent" ELSE "request"

-----------------------------------------------------------------------------
(* The calls. *)

\* RequestInfo(infoKeys) or FetchUsersDetails() is called: locals are fresh.
BeginCall(w, o) ==
  /\ pc[w] = "idle"
  /\ op' = [op EXCEPT ![w] = o]
  /\ pc' = [pc EXCEPT ![w] = "loop"]
  /\ attempt' = [attempt EXCEPT ![w] = 0]
  /\ err' = [err EXCEPT ![w] = FALSE]
  /\ reply' = [reply EXCEPT ![w] = NoReply]
  /\ shouldFetch' = [shouldFetch EXCEPT ![w] = TRUE]
  /\ UNCHANGED <<serverVars, sessionVars, connVars, faults>>

\* Mutant: one attempt too many.
AtLoopOnceMore(w) == pc[w] = "loop" /\ attempt[w] <= RETRY_COUNT

AtLoop(w) == pc[w] = "loop" /\ attempt[w] < RETRY_COUNT

\* The connection of an earlier attempt or call is used again.
Reuse(w) ==
  /\ AtLoop(w)
  /\ IsServerConnected
  /\ Goto(w, "request")
  /\ UNCHANGED <<serverVars, sessionVars, connVars, op, resultVars, faults>>

\* createNewConnection, up to the login.
Dial(w) ==
  /\ AtLoop(w)
  /\ ~IsServerConnected
  /\ server # "down"
  /\ \E s \in Sockets \ (opened \cup {aeroConnection}) :
       /\ aeroConnection' = s
       /\ opened' = opened \cup {s}
       /\ live' = live \cup {s}
  /\ err' = [err EXCEPT ![w] = FALSE]
  /\ Goto(w, IF RequiresAuthentication THEN "login" ELSE AfterConnect(w))
  /\ UNCHANGED <<serverVars, loggedIn, op, reply, shouldFetch, faults>>

\* aero.NewConnection fails, the connection held becomes nil.
DialFail(w) ==
  /\ AtLoop(w)
  /\ ~IsServerConnected
  /\ server # "up"
  /\ aeroConnection' = NoSocket
  /\ err' = [err EXCEPT ![w] = TRUE]
  /\ NextAttempt(w)
  /\ UNCHANGED <<serverVars, sessionVars, opened, op, reply, shouldFetch, faults>>

LoginOk(w) ==
  /\ pc[w] = "login"
  /\ Reached /\ server = "up"
  /\ loggedIn' = loggedIn \cup {aeroConnection}
  /\ Goto(w, AfterConnect(w))
  /\ UNCHANGED <<serverVars, live, connVars, op, resultVars, faults>>

\* Mutant: the connection is kept, open.
LoginFailKept(w) ==
  /\ pc[w] = "login"
  /\ ~Reached \/ server # "up"
  /\ err' = [err EXCEPT ![w] = TRUE]
  /\ NextAttempt(w)
  /\ UNCHANGED <<serverVars, sessionVars, connVars, op, reply, shouldFetch, faults>>

\* The library closes a connection whose login failed, the caller drops it.
LoginFail(w) ==
  /\ pc[w] = "login"
  /\ ~Reached \/ server # "up"
  /\ Close(aeroConnection)
  /\ aeroConnection' = NoSocket
  /\ err' = [err EXCEPT ![w] = TRUE]
  /\ NextAttempt(w)
  /\ UNCHANGED <<serverVars, op, reply, shouldFetch, faults>>

\* setUserAgent: an ERROR: answer is an answer too.
UserAgentSet(w) ==
  /\ pc[w] = "agent"
  /\ Reached /\ server \in {"up", "denying"}
  /\ err' = [err EXCEPT ![w] = FALSE]
  /\ Goto(w, "request")
  /\ UNCHANGED <<serverVars, sessionVars, connVars, op, reply, shouldFetch, faults>>

\* Mutant: a shadowed err.
UserAgentFailShadowed(w) ==
  /\ pc[w] = "agent"
  /\ \/ /\ Unreachable
        /\ Close(aeroConnection)
     \/ /\ Reached /\ server = "garbling"
        /\ UNCHANGED <<opened, sessionVars>>
  /\ NextAttempt(w)
  /\ UNCHANGED <<serverVars, aeroConnection, op, resultVars, faults>>

\* The connection is kept, closed after an I/O error, open otherwise.
UserAgentFail(w) ==
  /\ pc[w] = "agent"
  /\ \/ /\ Unreachable
        /\ Close(aeroConnection)
     \/ /\ Reached /\ server = "garbling"
        /\ UNCHANGED <<opened, sessionVars>>
  /\ err' = [err EXCEPT ![w] = TRUE]
  /\ NextAttempt(w)
  /\ UNCHANGED <<serverVars, aeroConnection, op, reply, shouldFetch, faults>>

InfoAnswered(w) ==
  /\ pc[w] = "request" /\ op[w] = "info"
  /\ Reached /\ server = "up"
  /\ reply' = [reply EXCEPT ![w] = ident]
  /\ err' = [err EXCEPT ![w] = FALSE]
  /\ Return(w)
  /\ UNCHANGED <<serverVars, sessionVars, connVars, op, shouldFetch, faults>>

\* A lone ERROR: key is returned as an error, without a retry.
InfoDenied(w) ==
  /\ pc[w] = "request" /\ op[w] = "info"
  /\ Reached /\ server = "denying"
  /\ err' = [err EXCEPT ![w] = TRUE]
  /\ Return(w)
  /\ UNCHANGED <<serverVars, sessionVars, connVars, op, reply, shouldFetch, faults>>

\* Mutant: forgotten, but not closed.
InfoFailedUnclosed(w) ==
  /\ pc[w] = "request" /\ op[w] = "info"
  /\ Unreachable \/ server = "garbling"
  /\ aeroConnection' = NoSocket
  /\ err' = [err EXCEPT ![w] = TRUE]
  /\ NextAttempt(w)
  /\ UNCHANGED <<serverVars, sessionVars, opened, op, reply, shouldFetch, faults>>

\* Mutant: a break for the continue.
InfoFailedAtOnce(w) ==
  /\ pc[w] = "request" /\ op[w] = "info"
  /\ Unreachable \/ server = "garbling"
  /\ Close(aeroConnection)
  /\ aeroConnection' = NoSocket
  /\ err' = [err EXCEPT ![w] = TRUE]
  /\ Return(w)
  /\ UNCHANGED <<serverVars, op, reply, shouldFetch, faults>>

\* Whatever the error, the connection is closed and forgotten.
InfoFailed(w) ==
  /\ pc[w] = "request" /\ op[w] = "info"
  /\ Unreachable \/ server = "garbling"
  /\ Close(aeroConnection)
  /\ aeroConnection' = NoSocket
  /\ err' = [err EXCEPT ![w] = TRUE]
  /\ NextAttempt(w)
  /\ UNCHANGED <<serverVars, op, reply, shouldFetch, faults>>

UsersAnswered(w) ==
  /\ pc[w] = "request" /\ op[w] = "users"
  /\ Reached /\ server = "up" /\ privilege = "granted"
  /\ reply' = [reply EXCEPT ![w] = ident]
  /\ Return(w)
  /\ UNCHANGED <<serverVars, sessionVars, connVars, op, err, shouldFetch, faults>>

\* Mutant: a continue for the break.
RoleViolationRetried(w) ==
  /\ pc[w] = "request" /\ op[w] = "users"
  /\ Reached /\ server = "up" /\ privilege = "violation"
  /\ shouldFetch' = [shouldFetch EXCEPT ![w] = FALSE]
  /\ NextAttempt(w)
  /\ UNCHANGED <<serverVars, sessionVars, connVars, op, err, reply, faults>>

RoleViolation(w) ==
  /\ pc[w] = "request" /\ op[w] = "users"
  /\ Reached /\ server = "up" /\ privilege = "violation"
  /\ shouldFetch' = [shouldFetch EXCEPT ![w] = FALSE]
  /\ Return(w)
  /\ UNCHANGED <<serverVars, sessionVars, connVars, op, err, reply, faults>>

\* Mutant: the connection is dropped whatever the error, as for info.
UsersFailedDropped(w) ==
  /\ pc[w] = "request" /\ op[w] = "users"
  /\ \/ Unreachable
     \/ server \in {"denying", "garbling"}
     \/ server = "up" /\ privilege = "error"
  /\ Close(aeroConnection)
  /\ aeroConnection' = NoSocket
  /\ NextAttempt(w)
  /\ UNCHANGED <<serverVars, op, resultVars, faults>>

\* Mutant: the attempt is not counted.
UsersFailedUncounted(w) ==
  /\ pc[w] = "request" /\ op[w] = "users"
  /\ \/ /\ Unreachable
        /\ Close(aeroConnection)
     \/ /\ Reached
        /\ server \in {"denying", "garbling"} \/ (server = "up" /\ privilege = "error")
        /\ UNCHANGED <<opened, sessionVars>>
  /\ Goto(w, "loop")
  /\ UNCHANGED <<serverVars, aeroConnection, op, resultVars, faults>>

\* Any other failure of QueryUsers is retried; it never reaches err.
UsersFailed(w) ==
  /\ pc[w] = "request" /\ op[w] = "users"
  /\ \/ /\ Unreachable
        /\ Close(aeroConnection)
     \/ /\ Reached
        /\ server \in {"denying", "garbling"} \/ (server = "up" /\ privilege = "error")
        /\ UNCHANGED <<opened, sessionVars>>
  /\ NextAttempt(w)
  /\ UNCHANGED <<serverVars, aeroConnection, op, resultVars, faults>>

\* The loop is over and no attempt succeeded.
GiveUp(w) ==
  /\ pc[w] = "loop"
  /\ attempt[w] = RETRY_COUNT
  /\ Return(w)
  /\ UNCHANGED <<serverVars, sessionVars, connVars, op, resultVars, faults>>

CallStep(w) ==
  \/ Reuse(w) \/ Dial(w) \/ DialFail(w) \/ LoginOk(w) \/ LoginFail(w)
  \/ UserAgentSet(w) \/ UserAgentFail(w)
  \/ InfoAnswered(w) \/ InfoDenied(w) \/ InfoFailed(w)
  \/ UsersAnswered(w) \/ RoleViolation(w) \/ UsersFailed(w) \/ GiveUp(w)

-----------------------------------------------------------------------------
(* The node and the network. *)

ServerChange ==
  /\ server # "down"
  /\ server' \in Modes \ {server}
  /\ faults' = [w \in Callers |-> FaultCap]
  /\ UNCHANGED <<ident, privilege, sessionVars, connVars, callVars>>

ServerDown ==
  /\ server # "down"
  /\ server' = "down"
  /\ live' = {} /\ loggedIn' = {}
  /\ faults' = [w \in Callers |-> FaultCap]
  /\ UNCHANGED <<ident, privilege, connVars, callVars>>

\* The node that comes back may be another one, or run another build.
ServerStart ==
  /\ server = "down"
  /\ server' = "up"
  /\ ident' \in Idents
  /\ UNCHANGED <<privilege, sessionVars, connVars, callVars, faults>>

PrivilegeChange ==
  /\ privilege' \in Privileges \ {privilege}
  /\ UNCHANGED <<server, ident, sessionVars, connVars, callVars, faults>>

\* A connection is cut; this end does not know before it uses it.
NetDrop(s) ==
  /\ s \in live
  /\ live' = live \ {s}
  /\ loggedIn' = loggedIn \ {s}
  /\ faults' = [w \in Callers |-> IF faults[w] < FaultCap THEN faults[w] + 1 ELSE FaultCap]
  /\ UNCHANGED <<serverVars, connVars, callVars>>

Environment ==
  \/ ServerChange \/ ServerDown \/ ServerStart \/ PrivilegeChange
  \/ \E s \in Sockets : NetDrop(s)

\* History: w has dealt with its last result and starts counting faults.
Watch(w) ==
  /\ pc[w] = "idle"
  /\ op' = [op EXCEPT ![w] = "none"]
  /\ err' = [err EXCEPT ![w] = FALSE]
  /\ reply' = [reply EXCEPT ![w] = NoReply]
  /\ faults' = [faults EXCEPT ![w] = IF server = "up" THEN 0 ELSE FaultCap]
  /\ UNCHANGED <<serverVars, sessionVars, connVars, pc, attempt, shouldFetch>>

-----------------------------------------------------------------------------
\* Rely condition: no other caller is inside a call.
Serial(w) == \A v \in Callers \ {w} : pc[v] = "idle"

AeroNext ==
  \/ \E w \in Callers :
       \/ \E o \in Operation : Serial(w) /\ BeginCall(w, o)
       \/ CallStep(w)
       \/ Watch(w)
  \/ Environment

AeroSpec == AeroInit /\ [][AeroNext]_aeroVars

-----------------------------------------------------------------------------
(* Properties. *)

(* "allow only ONE connection" (createClientPolicy): whatever fails, and   *)
(* wherever in an attempt, no open connection is ever left behind: the     *)
(* only one that can be open is the one held.                              *)
OneSocket == opened \subseteq {aeroConnection}

(* A connection is only ever reused because it is open: none stays open    *)
(* whose login did not succeed, so that no request of any later call       *)
(* reaches the node on a session that has not logged in.                   *)
AuthenticatedRequests ==
  \A w \in Callers :
    RequiresAuthentication /\ pc[w] \in {"agent", "request"} /\ Reached
      => aeroConnection \in loggedIn

(* RequestInfo never returns an empty response with a nil error: Refresh   *)
(* would take it for an answer and blank every label.                      *)
InfoAnswersOrFails ==
  \A w \in Callers :
    pc[w] = "idle" /\ op[w] = "info" => (err[w] <=> reply[w] = NoReply)

(* What the retries are worth.  While the node answers, an info call fails *)
(* only if RETRY_COUNT - 1 connections were cut under it, a users call     *)
(* only if two were: a connection that died since the last call, or one    *)
(* cut, never costs the result.                                            *)
FailureNeedsFaults ==
  \A w \in Callers :
    pc[w] = "idle" /\ err[w] =>
      faults[w] >= (IF op[w] = "info" THEN RETRY_COUNT - 1 ELSE 2)

(* "Do not retry if there's role violation" (fetchUsersRoles): the call    *)
(* that met one is over.                                                   *)
RoleViolationNotRetried ==
  \A w \in Callers : ~shouldFetch[w] => pc[w] = "idle"

(* A connection that works is neither replaced nor dropped.                *)
NoNeedlessReconnect ==
  [][IsServerConnected /\ Reached /\ server = "up"
       => aeroConnection' = aeroConnection]_aeroVars

(* Every call returns, whatever the node does meanwhile.                   *)
CallTerminates ==
  \A w \in Callers : (pc[w] # "idle") ~> (pc[w] = "idle")

=============================================================================
