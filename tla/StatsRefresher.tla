--------------------------- MODULE StatsRefresher ---------------------------
(***************************************************************************)
(* One refresh of all statistics: StatsRefresher.Refresh and               *)
(* RefreshUserStats of internal/pkg/statprocessors/statsrefresh.go, with   *)
(* the part of sp_users.go that decides whether users are fetched.         *)
(*                                                                         *)
(* A refresh is up to three calls of AeroServer: two info requests (pass   *)
(* one reads configurations, pass two the statistics and the labels) and,  *)
(* where it is configured, supported and permitted, one users query.  The  *)
(* six statistics processors compute without failing: what they compute    *)
(* is abstracted to the identity of the node whose answer they read.       *)
(***************************************************************************)
EXTENDS AeroServer

CONSTANTS
  UserStatsConfigured,  \* auth mode pki, or a user or a password is set
  Legacy,               \* identities whose build is older than 5.6.0.0
  Unversioned           \* identities whose build does not parse

ASSUME RefreshAssumption ==
  /\ UserStatsConfigured \in BOOLEAN
  /\ RequiresAuthentication => UserStatsConfigured
  /\ Legacy \subseteq Idents
  /\ Unversioned \subseteq Idents \ Legacy

VARIABLES
  labels,                    \* ClusterName, Service, Build, NodeId of sharedState
  shouldFetchUserStatistics, \* of the users processor
  phase,                     \* where the refresh of each caller is
  stats, users               \* whose answers its statistics were made from

refreshVars == <<labels, shouldFetchUserStatistics, phase, stats, users>>
statsVars   == <<aeroVars, refreshVars>>

Phase == {"idle", "passOne", "passTwo", "users", "failed", "ok"}

RefreshTypeOK ==
  /\ labels \in Idents \cup {NoReply}
  /\ shouldFetchUserStatistics \in BOOLEAN
  /\ phase \in [Callers -> Phase]
  /\ stats \in [Callers -> Idents \cup {NoReply}]
  /\ users \in [Callers -> Idents \cup {NoReply}]

StatsTypeOK == AeroTypeOK /\ RefreshTypeOK

RefreshInit ==
  /\ labels = NoReply
  /\ shouldFetchUserStatistics = TRUE
  /\ phase = [w \in Callers |-> "idle"]
  /\ stats = [w \in Callers |-> NoReply]
  /\ users = [w \in Callers |-> NoReply]

StatsInit == AeroInit /\ RefreshInit

-----------------------------------------------------------------------------
(* Refresh *)

\* The call made in this phase has returned.
Returned(w, p) == phase[w] = p /\ pc[w] = "idle"

Enter(w, p) == phase' = [phase EXCEPT ![w] = p]

\* Refresh returns: with an error, or with its statistics.
Leave(w, p) == Enter(w, p) /\ UNCHANGED aeroVars

StartRefresh(w) ==
  /\ phase[w] = "idle"
  /\ BeginCall(w, "info")
  /\ Enter(w, "passOne")
  /\ UNCHANGED <<labels, shouldFetchUserStatistics, stats, users>>

PassOneDone(w) ==
  /\ Returned(w, "passOne")
  /\ \/ err[w] /\ Leave(w, "failed")
     \/ ~err[w] /\ BeginCall(w, "info") /\ Enter(w, "passTwo")
  /\ UNCHANGED <<labels, shouldFetchUserStatistics, stats, users>>

PassTwoFailed(w) ==
  /\ Returned(w, "passTwo")
  /\ err[w]
  /\ Leave(w, "failed")
  /\ UNCHANGED <<labels, shouldFetchUserStatistics, stats, users>>

\* Mutant: the remembered outcome is not consulted.
CanAlwaysRefreshUserStats(w) ==
  UserStatsConfigured /\ reply[w] \notin Legacy \cup Unversioned

\* canRefreshUserStats(passTwoResponse)
CanRefreshUserStats(w) ==
  UserStatsConfigured /\ shouldFetchUserStatistics
    /\ reply[w] \notin Legacy \cup Unversioned

\* Mutant: the labels of the first node seen are kept.
PassTwoDoneCached(w) ==
  /\ Returned(w, "passTwo")
  /\ ~err[w]
  /\ labels' = IF labels = NoReply THEN reply[w] ELSE labels
  /\ stats' = [stats EXCEPT ![w] = reply[w]]
  /\ \/ /\ CanRefreshUserStats(w)
        /\ BeginCall(w, "users")
        /\ Enter(w, "users")
     \/ ~CanRefreshUserStats(w) /\ Leave(w, "ok")
  /\ UNCHANGED <<shouldFetchUserStatistics, users>>

\* An old build turns the users statistics off for good; a build that does
\* not parse skips them this time.
PassTwoDone(w) ==
  /\ Returned(w, "passTwo")
  /\ ~err[w]
  /\ labels' = reply[w]
  /\ stats' = [stats EXCEPT ![w] = reply[w]]
  /\ \/ /\ CanRefreshUserStats(w)
        /\ BeginCall(w, "users")
        /\ Enter(w, "users")
        /\ UNCHANGED shouldFetchUserStatistics
     \/ /\ ~CanRefreshUserStats(w)
        /\ Leave(w, "ok")
        /\ shouldFetchUserStatistics' =
             (shouldFetchUserStatistics /\ ~(UserStatsConfigured /\ reply[w] \in Legacy))
  /\ UNCHANGED users

\* Mutant: a role violation fails the refresh.
UsersDoneStrict(w) ==
  /\ Returned(w, "users")
  /\ shouldFetchUserStatistics' = shouldFetch[w]
  /\ Leave(w, IF err[w] \/ ~shouldFetch[w] THEN "failed" ELSE "ok")
  /\ users' = [users EXCEPT ![w] = IF err[w] THEN @ ELSE reply[w]]
  /\ UNCHANGED <<labels, stats>>

\* RefreshUserStats: the flag is assigned before the error is looked at.
UsersDone(w) ==
  /\ Returned(w, "users")
  /\ shouldFetchUserStatistics' = shouldFetch[w]
  /\ Leave(w, IF err[w] THEN "failed" ELSE "ok")
  /\ users' = [users EXCEPT ![w] = IF err[w] THEN @ ELSE reply[w]]
  /\ UNCHANGED <<labels, stats>>

RefreshStep(w) ==
  \/ PassOneDone(w) \/ PassTwoFailed(w) \/ PassTwoDone(w) \/ UsersDone(w)

Refreshing(w) == phase[w] \in {"passOne", "passTwo", "users"}

\* The caller takes what Refresh returned.
TakeOutcome(w) ==
  /\ phase[w] \in {"failed", "ok"}
  /\ Enter(w, "idle")
  /\ stats' = [stats EXCEPT ![w] = NoReply]
  /\ users' = [users EXCEPT ![w] = NoReply]
  /\ UNCHANGED <<labels, shouldFetchUserStatistics>>

\* History: a caller that is not in a refresh counts faults anew.
WatchAgain(w) ==
  /\ phase[w] = "idle"
  /\ Watch(w)
  /\ UNCHANGED refreshVars

-----------------------------------------------------------------------------
\* Rely condition: refreshes do not overlap.
SerialRefresh(w) == \A v \in Callers \ {w} : ~Refreshing(v)

StatsNext ==
  \/ \E w \in Callers :
       \/ SerialRefresh(w) /\ StartRefresh(w)
       \/ RefreshStep(w)
       \/ CallStep(w) /\ UNCHANGED refreshVars
       \/ TakeOutcome(w) /\ (UNCHANGED aeroVars \/ Watch(w))
       \/ WatchAgain(w)
  \/ Environment /\ UNCHANGED refreshVars

StatsSpec == StatsInit /\ [][StatsNext]_statsVars

\* A refresh that has begun runs to its end: its goroutine runs, and every
\* operation of a call ends, by an answer, an error or the timeout set on the
\* connection.
RefreshFairness ==
  \A w \in Callers :
    /\ WF_statsVars(CallStep(w) /\ UNCHANGED refreshVars)
    /\ WF_statsVars(RefreshStep(w))

StatsFairSpec == StatsSpec /\ RefreshFairness

-----------------------------------------------------------------------------
(* Properties. *)

(* What the retries are worth to a whole refresh of up to three calls: it  *)
(* fails only if the node stopped answering or two connections were cut    *)
(* since its caller last looked, never because of a connection that died   *)
(* between refreshes, a role violation or a refused users query.           *)
FailedRefreshNeedsFaults ==
  \A w \in Callers : phase[w] = "failed" => faults[w] >= 2

(* ShouldFetchUserStatistics is overwritten with the result of every users *)
(* query; still, once a role violation or an old build has turned it off   *)
(* nothing turns it on again, and no users query is begun any more: "this  *)
(* could be a permanent error leading to unnecessary errors on server end" *)
(* (fetchUsersRoles).                                                      *)
UserStatsStayOff ==
  [][~shouldFetchUserStatistics =>
       /\ ~shouldFetchUserStatistics'
       /\ \A w \in Callers : phase'[w] = "users" => phase[w] = "users"]_statsVars

(* A refresh whose labels were updated and that fails in its users query   *)
(* publishes nothing: statistics go out only with the labels of the node   *)
(* that answered them.                                                     *)
LabelsMatchStats ==
  \A w \in Callers : phase[w] \in {"users", "ok"} => stats[w] = labels

=============================================================================
