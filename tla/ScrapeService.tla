---------------------------- MODULE ScrapeService ----------------------------
(***************************************************************************)
(* What the exporter promises whoever scrapes /metrics.  Abstract: no      *)
(* connection, no retries, no mutex, no shared labels.                     *)
(*                                                                         *)
(* Scrapes overlap freely.  Each is answered once: with node_up 1 and the  *)
(* statistics of a node that was running at some moment of this scrape,    *)
(* under the labels of that same node, or with node_up 0, and then only if *)
(* the node was disturbed while the scrape was pending.                    *)
(***************************************************************************)
CONSTANTS Requests, Idents, NoReply, NoAnswer

VARIABLES
  ident,      \* the node running now, or the last one that ran
  pending,    \* scrapes asked and not answered
  seen,       \* for each pending scrape, the nodes that ran since
  disturbed,  \* pending scrapes during which the node failed to behave
  answer      \* the last answer each requester got

serviceVars == <<ident, pending, seen, disturbed, answer>>

Up(l, s, u) == [up |-> TRUE, labels |-> l, stats |-> s, users |-> u]
Down(l)     == [up |-> FALSE, labels |-> l, stats |-> NoReply, users |-> NoReply]

Init ==
  /\ ident \in Idents
  /\ pending = {}
  /\ seen = [r \in Requests |-> {}]
  /\ disturbed = {}
  /\ answer = [r \in Requests |-> NoAnswer]

\* A scrape asked while the node misbehaves is disturbed from the start.
Ask(r) ==
  /\ r \notin pending
  /\ pending' = pending \cup {r}
  /\ seen' = [seen EXCEPT ![r] = {ident}]
  /\ answer' = [answer EXCEPT ![r] = NoAnswer]
  /\ disturbed' \in {disturbed, disturbed \cup {r}}
  /\ UNCHANGED ident

AnswerUp(r) ==
  /\ r \in pending
  /\ \E i \in seen[r], u \in seen[r] \cup {NoReply} :
       answer' = [answer EXCEPT ![r] = Up(i, i, u)]

AnswerDown(r) ==
  /\ r \in pending /\ r \in disturbed
  /\ \E l \in Idents \cup {NoReply} : answer' = [answer EXCEPT ![r] = Down(l)]

Answer(r) ==
  /\ AnswerUp(r) \/ AnswerDown(r)
  /\ pending' = pending \ {r}
  /\ seen' = [seen EXCEPT ![r] = {}]
  /\ disturbed' = disturbed \ {r}
  /\ UNCHANGED ident

NodeChange ==
  /\ ident' \in Idents
  /\ seen' = [r \in Requests |-> IF r \in pending THEN seen[r] \cup {ident'} ELSE {}]
  /\ UNCHANGED <<pending, disturbed, answer>>

Disturb ==
  /\ disturbed' \in SUBSET pending
  /\ disturbed \subseteq disturbed'
  /\ UNCHANGED <<ident, pending, seen, answer>>

Next ==
  \/ \E r \in Requests : Ask(r) \/ Answer(r)
  \/ NodeChange \/ Disturb

Spec == Init /\ [][Next]_serviceVars

\* Every scrape asked is answered.
Fairness == \A r \in Requests : WF_serviceVars(Answer(r))

FairSpec == Spec /\ Fairness
=============================================================================
