--------------------------- MODULE ClusterElection ---------------------------
(***************************************************************************)
(* The election by which redis cluster (cluster.c, the server under        *)
(* my_cluster) replaces a master that is down: its replicas ask the        *)
(* masters of the other shards for a vote, one vote per epoch, and the     *)
(* replica with a quorum takes the slots.  Nodes restart from nodes.conf,  *)
(* headers and votes are late or lost.                                     *)
(*                                                                         *)
(* The slots of the shard move together, so they are one owner here.       *)
(* Clocks are left out: a timeout may have passed or not.  Manual failover *)
(* (FORCEACK) is left out.  How the other nodes take over the new owner is *)
(* the step Learn here and the whole of ClusterConfig.                     *)
(***************************************************************************)
EXTENDS Naturals, FiniteSets, FiniteSetsExt

CONSTANTS Voters,       \* the masters of the other shards, which serve slots
          First,        \* the master that is down
          Replicas,     \* its slaves
          MaxElections, \* bound on the elections of all replicas
          MaxFlags,     \* bound on the changes of a FAIL flag
          MaxRestarts   \* bound on the restarts of all nodes

ASSUME ConstantsAssumption ==
  /\ IsFiniteSet(Voters)
  /\ Voters \cap Replicas = {} /\ First \notin Voters \cup Replicas
  /\ MaxElections \in Nat /\ MaxFlags \in Nat /\ MaxRestarts \in Nat

VARIABLES
  conf,      \* what a node keeps in memory of its nodes.conf
  saved,     \* nodes.conf
  failing,   \* the nodes that have First flagged FAIL
  auth,      \* failover_auth_sent, _epoch and _count of each replica
  requests,  \* FAILOVER_AUTH_REQUESTs under way
  acks,      \* FAILOVER_AUTH_ACKs under way
  granted,   \* history: the votes, <<voter, replica, epoch>>
  forgot,    \* history: <<voter, epoch>> of votes lost in a restart
  started,   \* history: the epochs of each replica's elections, in a set
  elections, \* and their number
  won,       \* history: the elections won
  flags, restarts  \* counters for the bounds

history == <<granted, forgot, started, elections, won>>
counters == <<flags, restarts>>
vars == <<conf, saved, failing, auth, requests, acks, history, counters>>

Nodes == Voters \cup Replicas

\* server.cluster->size is the number of masters with slots, First included.
NeededQuorum == (Cardinality(Voters) + 1) \div 2 + 1

Later(e, f) == IF e < f THEN f ELSE e

\* lastVoteEpoch is used by the voters only; ownerEpoch is the configEpoch of
\* the node that serves the shard's slots.
Conf == [currentEpoch : Nat, lastVoteEpoch : Nat,
         owner : {First} \cup Replicas, ownerEpoch : Nat]
Auth == [state : {"idle", "scheduled", "sent"}, epoch : Nat, count : Nat,
         ballots : SUBSET (Voters \X Nat)]
NoAuth == [state |-> "idle", epoch |-> 0, count |-> 0, ballots |-> {}]

Request_Swapped(s, v) == [from |-> v, to |-> s, epoch |-> conf'[s].currentEpoch,
                          configEpoch |-> conf[s].ownerEpoch]
Request(s, v) == [from |-> s, to |-> v, epoch |-> conf'[s].currentEpoch,
                  configEpoch |-> conf[s].ownerEpoch]

\* The FAIL message about First has been broadcast, and at most one node has
\* not received it.
Init ==
  /\ conf = [n \in Nodes |-> [currentEpoch |-> 1, lastVoteEpoch |-> 0,
                              owner |-> First, ownerEpoch |-> 1]]
  /\ saved = conf
  /\ \E n \in Nodes : failing \in {Nodes, Nodes \ {n}}
  /\ auth = [s \in Replicas |-> NoAuth]
  /\ requests = {} /\ acks = {}
  /\ granted = {} /\ forgot = {} /\ won = {}
  /\ started = [s \in Replicas |-> {}]
  /\ elections = [s \in Replicas |-> 0]
  /\ flags = 0 /\ restarts = 0

Save_BeforeTheChange(n) == saved' = [saved EXCEPT ![n] = conf[n]]
\* clusterSaveConfigOrDie: before the reactor sends what the handler queued.
Save(n) == saved' = [saved EXCEPT ![n] = conf'[n]]
\* Every header carries the sender's currentEpoch; the new one is not saved.
RaiseEpoch(n, e) == [conf[n] EXCEPT !.currentEpoch = Later(@, e)]
\* Node w takes the slots, or is known to have taken them, with epoch e.
Owned(c, w, e) == [c EXCEPT !.owner = w, !.ownerEpoch = e]

-----------------------------------------------------------------------------
\* First is flagged FAIL after a quorum of reports or by a FAIL message.
MarkFailing(n) ==
  /\ n \notin failing /\ flags < MaxFlags
  /\ flags' = flags + 1
  /\ failing' = failing \cup {n}
  /\ conf' = conf
  /\ Save(n)
  /\ UNCHANGED <<auth, requests, acks, history, restarts>>

\* First is reachable again for n: the flag goes while it still owns the slots
\* and has had it for long, or once it owns none.
ClearFailing(n) ==
  /\ n \in failing /\ flags < MaxFlags
  /\ flags' = flags + 1
  /\ failing' = failing \ {n}
  /\ conf' = conf
  /\ Save(n)
  /\ UNCHANGED <<auth, requests, acks, history, restarts>>

\* The gate of clusterHandleSlaveFailover.
MayFailover(s) == s \in failing /\ conf[s].owner = First

\* The retry time has passed: a new election after a delay.  The epoch of the
\* one before stays.
Schedule(s) ==
  /\ MayFailover(s)
  /\ auth' = [auth EXCEPT ![s] = [@ EXCEPT !.state = "scheduled", !.count = 0,
                                          !.ballots = {}]]
  /\ UNCHANGED <<conf, saved, failing, requests, acks, history, counters>>

\* The delay has passed: ask every master for its vote.
StartElection(s) ==
  /\ MayFailover(s) /\ auth[s].state = "scheduled"
  /\ MapThenSumSet(LAMBDA t : elections[t], Replicas) < MaxElections
  /\ LET epoch == conf[s].currentEpoch + 1 IN
     /\ conf' = [conf EXCEPT ![s].currentEpoch = epoch]
     /\ auth' = [auth EXCEPT ![s] = [@ EXCEPT !.state = "sent",
                                             !.epoch = epoch]]
     /\ started' = [started EXCEPT ![s] = @ \cup {epoch}]
  /\ elections' = [elections EXCEPT ![s] = @ + 1]
  /\ requests' = requests \cup {Request(s, v) : v \in Voters}
  /\ Save(s)
  /\ UNCHANGED <<failing, acks, granted, forgot, won, counters>>

MayVote_Again(v, r) ==
  /\ r.epoch >= conf[v].currentEpoch
  /\ v \in failing
  /\ conf[v].owner # r.from
  /\ conf[v].ownerEpoch <= r.configEpoch
\* clusterSendFailoverAuthIfNeeded, after the header has raised currentEpoch.
MayVote(v, r) ==
  /\ r.epoch >= conf[v].currentEpoch
  /\ conf[v].lastVoteEpoch # r.epoch
  /\ v \in failing
  /\ conf[v].owner # r.from
  /\ conf[v].ownerEpoch <= r.configEpoch

\* The vote stays in memory until something else saves the configuration.
Vote(r) ==
  LET v == r.to IN
  /\ MayVote(v, r)
  /\ conf' = [conf EXCEPT ![v] = [RaiseEpoch(v, r.epoch) EXCEPT
                                    !.lastVoteEpoch = r.epoch]]
  /\ acks' = acks \cup {[from |-> v, to |-> r.from, epoch |-> r.epoch]}
  /\ granted' = granted \cup {<<v, r.from, r.epoch>>}
  /\ requests' = requests \ {r}
  /\ UNCHANGED <<saved, failing, auth, forgot, started, elections, won,
                 counters>>

\* No vote; also when the voter has voted about this master a short time ago.
Deny(r) ==
  /\ ~MayVote(r.to, r) \/ conf[r.to].lastVoteEpoch > 0
  /\ conf' = [conf EXCEPT ![r.to] = RaiseEpoch(r.to, r.epoch)]
  /\ requests' = requests \ {r}
  /\ UNCHANGED <<saved, failing, auth, acks, history, counters>>

\* A vote is counted when its epoch is not below that of the last election.
ReceiveAck(a) ==
  LET s == a.to IN
  /\ conf' = [conf EXCEPT ![s] = RaiseEpoch(s, a.epoch)]
  /\ auth' = IF a.epoch >= auth[s].epoch
             THEN [auth EXCEPT ![s] = [auth[s] EXCEPT
                     !.count = auth[s].count + 1,
                     !.ballots = auth[s].ballots \cup {<<a.from, a.epoch>>}]]
             ELSE auth
  /\ acks' = acks \ {a}
  /\ UNCHANGED <<saved, failing, requests, history, counters>>

\* The quorum is reached: take the slots with the epoch of the election.
Win(s) ==
  /\ MayFailover(s) /\ auth[s].state = "sent"
  /\ auth[s].count >= NeededQuorum
  /\ conf' = [conf EXCEPT ![s] = Owned(conf[s], s, auth[s].epoch)]
  /\ Save(s)
  /\ won' = won \cup {[slave |-> s, epoch |-> auth[s].epoch,
                       ballots |-> auth[s].ballots]}
  /\ UNCHANGED <<failing, auth, requests, acks, granted, forgot, started,
                 elections, counters>>

-----------------------------------------------------------------------------
\* A header of m reaches n.
HearEpoch(n, m) ==
  /\ conf[n].currentEpoch < conf[m].currentEpoch
  /\ conf' = [conf EXCEPT ![n] = RaiseEpoch(n, conf[m].currentEpoch)]
  /\ UNCHANGED <<saved, failing, auth, requests, acks, history, counters>>

\* The same from a new owner of the slots: n takes it over and saves.
Learn(n, w) ==
  /\ conf[w].owner = w /\ conf[n].ownerEpoch < conf[w].ownerEpoch
  /\ conf' = [conf EXCEPT ![n] = Owned(RaiseEpoch(n, conf[w].currentEpoch),
                                       w, conf[w].ownerEpoch)]
  /\ Save(n)
  /\ UNCHANGED <<failing, auth, requests, acks, history, counters>>

\* clusterLoadConfig; the links are closed and the election is forgotten.
Restart(n) ==
  /\ restarts < MaxRestarts
  /\ restarts' = restarts + 1
  /\ conf' = [conf EXCEPT ![n] = [saved[n] EXCEPT
                !.currentEpoch = Later(saved[n].currentEpoch,
                                       saved[n].ownerEpoch)]]
  /\ auth' = [s \in Replicas |-> IF s = n THEN NoAuth ELSE auth[s]]
  /\ requests' = {r \in requests : r.to # n}
  /\ acks' = {a \in acks : a.to # n}
  /\ forgot' = forgot \cup
       {<<g[1], g[3]>> : g \in {h \in granted :
                           h[1] = n /\ h[3] > saved[n].lastVoteEpoch}}
  /\ UNCHANGED <<saved, failing, granted, started, elections, won, flags>>

Next ==
  \/ \E n \in Nodes : MarkFailing(n) \/ ClearFailing(n) \/ Restart(n)
  \/ \E s \in Replicas : Schedule(s) \/ StartElection(s) \/ Win(s)
  \/ \E r \in requests : Vote(r) \/ Deny(r)
  \/ \E a \in acks : ReceiveAck(a)
  \/ \E n, m \in Nodes : HearEpoch(n, m)
  \/ \E n \in Nodes, w \in Replicas : Learn(n, w)

Spec == Init /\ [][Next]_vars

-----------------------------------------------------------------------------
TypeOK ==
  /\ conf \in [Nodes -> Conf] /\ saved \in [Nodes -> Conf]
  /\ failing \subseteq Nodes
  /\ auth \in [Replicas -> Auth]
  /\ requests \subseteq [from : Replicas, to : Voters, epoch : Nat,
                         configEpoch : Nat]
  /\ acks \subseteq [from : Voters, to : Replicas, epoch : Nat]
  /\ granted \subseteq Voters \X Replicas \X Nat
  /\ forgot \subseteq Voters \X Nat
  /\ started \in [Replicas -> SUBSET Nat]
  /\ elections \in [Replicas -> Nat]
  /\ won \subseteq [slave : Replicas, epoch : Nat,
                    ballots : SUBSET (Voters \X Nat)]
  /\ flags \in Nat /\ restarts \in Nat

(***************************************************************************)
(* "It is not possible that different slaves get the same config epoch     *)
(* during a failover election" (cluster.c:992) holds with two exceptions:  *)
(* two replicas win elections of the same epoch only if one of them counts *)
(* a vote of an earlier election (failover_auth_count is reset when the    *)
(* election is scheduled, not when it starts, and votes that come in       *)
(* between pass the check of their epoch), or if a voter has forgotten its *)
(* vote in a restart (lastVoteEpoch is not saved before the vote leaves).  *)
(***************************************************************************)
OwnVotesOnly(w) == \A x \in w.ballots : x[2] = w.epoch
SoundElections ==
  \A a, b \in won :
    /\ a.epoch = b.epoch /\ a.slave # b.slave
    /\ OwnVotesOnly(a) /\ OwnVotesOnly(b)
    => \E v \in Voters : <<v, a.epoch>> \in forgot

(***************************************************************************)
(* A replica never starts two elections in one epoch, restarts included:   *)
(* the epoch is on disk before the requests leave.  Otherwise the votes of *)
(* the first would count for the second.                                   *)
(***************************************************************************)
FreshEpochs == \A s \in Replicas : Cardinality(started[s]) = elections[s]

(***************************************************************************)
(* A node never goes back to an owner of the slots with a lower epoch than *)
(* the one it has seen, not even by a restart after which currentEpoch and *)
(* lastVoteEpoch may be lower.                                             *)
(***************************************************************************)
OwnerKept ==
  [][\A n \in Nodes : conf'[n].ownerEpoch >= conf[n].ownerEpoch]_vars
=============================================================================
