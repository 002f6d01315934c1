----------------------- MODULE ClusterElection_proofs -----------------------
(***************************************************************************)
(* Elections of redis cluster, for every number of masters and replicas,   *)
(* elections and restarts: types, fresh epochs, owners that never go back  *)
(* to a lower epoch, and the two ways in which an epoch can have two       *)
(* winners.                                                                *)
(***************************************************************************)
EXTENDS ClusterElection, FiniteSetTheorems, TLAPS

\* What is on disk is not ahead of the memory; a vote is not ahead of the
\* epoch; the epoch of the owner is always on disk.
EpochsInv ==
  \A n \in Nodes :
    /\ conf[n].lastVoteEpoch <= conf[n].currentEpoch
    /\ saved[n].lastVoteEpoch <= saved[n].currentEpoch
    /\ saved[n].lastVoteEpoch <= conf[n].lastVoteEpoch
    /\ saved[n].currentEpoch <= conf[n].currentEpoch
    /\ saved[n].ownerEpoch = conf[n].ownerEpoch
    /\ saved[n].owner = conf[n].owner

\* The epochs of a replica's elections are on its disk, each used once.
StartedInv ==
  \A s \in Replicas :
    /\ \A e \in started[s] : e <= saved[s].currentEpoch
    /\ IsFiniteSet(started[s])
    /\ Cardinality(started[s]) = elections[s]

\* First owns the slots with the epoch it started with.
OwnerInv ==
  /\ \A n \in Nodes : conf[n].owner = First => conf[n].ownerEpoch = 1
  /\ \A s \in Replicas : auth[s].state = "sent" => auth[s].epoch >= 1

\* A request belongs to an election and has not been answered by a vote.
RequestsInv ==
  /\ \A r \in requests : /\ r.epoch \in started[r.from]
                         /\ <<r.to, r.from, r.epoch>> \notin granted
  /\ \A r, q \in requests :
       r.from = q.from /\ r.to = q.to /\ r.epoch = q.epoch => r = q
  /\ \A g \in granted : g[3] \in started[g[2]]

\* What is counted are votes that were granted, each once.
BallotsInv ==
  /\ \A a \in acks : /\ <<a.from, a.to, a.epoch>> \in granted
                     /\ <<a.from, a.epoch>> \notin auth[a.to].ballots
  /\ \A s \in Replicas :
       /\ \A x \in auth[s].ballots : <<x[1], s, x[2]>> \in granted
       /\ IsFiniteSet(auth[s].ballots)
       /\ Cardinality(auth[s].ballots) = auth[s].count

\* A voter that remembers its votes has one per epoch, up to lastVoteEpoch.
OnceInv ==
  /\ \A g \in granted :
       <<g[1], g[3]>> \notin forgot => g[3] <= conf[g[1]].lastVoteEpoch
  /\ \A g, h \in granted :
       g[1] = h[1] /\ g[3] = h[3] /\ <<g[1], g[3]>> \notin forgot
       => g[2] = h[2]

\* A winner counted a quorum of votes granted to it.
WonInv ==
  \A w \in won :
    /\ Cardinality(w.ballots) >= NeededQuorum
    /\ \A x \in w.ballots : <<x[1], w.slave, x[2]>> \in granted

IInv == /\ TypeOK /\ EpochsInv /\ StartedInv /\ OwnerInv
        /\ RequestsInv /\ BallotsInv /\ OnceInv /\ WonInv

USE DEF Nodes

-----------------------------------------------------------------------------
LEMMA InitInv == Init => IInv
<1> SUFFICES ASSUME Init PROVE IInv
  OBVIOUS
<1>1. TypeOK
  BY DEF Init, TypeOK, Conf, Auth, NoAuth
<1>2. EpochsInv /\ OwnerInv /\ RequestsInv /\ OnceInv /\ WonInv
  BY DEF Init, EpochsInv, OwnerInv, RequestsInv, OnceInv, WonInv, NoAuth
<1>3. StartedInv /\ BallotsInv
  BY FS_EmptySet DEF Init, StartedInv, BallotsInv, NoAuth
<1>4. QED
  BY <1>1, <1>2, <1>3 DEF IInv

\* What RaiseEpoch keeps.
LEMMA Raised ==
  ASSUME TypeOK, NEW n \in Nodes, NEW e \in Nat
  PROVE  /\ RaiseEpoch(n, e) \in Conf
         /\ RaiseEpoch(n, e).currentEpoch >= conf[n].currentEpoch
         /\ RaiseEpoch(n, e).currentEpoch >= e
         /\ RaiseEpoch(n, e).lastVoteEpoch = conf[n].lastVoteEpoch
         /\ RaiseEpoch(n, e).owner = conf[n].owner
         /\ RaiseEpoch(n, e).ownerEpoch = conf[n].ownerEpoch
BY DEF TypeOK, Conf, RaiseEpoch, Later

\* What Owned keeps.
LEMMA OwnedFields ==
  ASSUME NEW c \in Conf, NEW w \in Replicas, NEW e \in Nat
  PROVE  /\ Owned(c, w, e) \in Conf
         /\ Owned(c, w, e).currentEpoch = c.currentEpoch
         /\ Owned(c, w, e).lastVoteEpoch = c.lastVoteEpoch
         /\ Owned(c, w, e).owner = w
         /\ Owned(c, w, e).ownerEpoch = e
BY DEF Conf, Owned

LEMMA TypeStep == TypeOK /\ [Next]_vars => TypeOK'
<1> SUFFICES ASSUME TypeOK, [Next]_vars PROVE TypeOK'
  OBVIOUS
<1>1. ASSUME NEW n \in Nodes, MarkFailing(n) \/ ClearFailing(n) PROVE TypeOK'
  BY <1>1 DEF TypeOK, MarkFailing, ClearFailing, Save, history
<1>2. ASSUME NEW n \in Nodes, Restart(n) PROVE TypeOK'
  <2>1. [saved[n] EXCEPT !.currentEpoch = Later(saved[n].currentEpoch,
                                        saved[n].ownerEpoch)] \in Conf
    BY DEF TypeOK, Conf, Later
  <2>2. auth' \in [Replicas -> Auth]
    BY <1>2 DEF TypeOK, Restart, NoAuth, Auth
  <2>3. forgot' \subseteq Voters \X Nat
    BY <1>2 DEF TypeOK, Restart
  <2>4. QED
    BY <1>2, <2>1, <2>2, <2>3 DEF TypeOK, Restart
<1>3. ASSUME NEW s \in Replicas, Schedule(s) PROVE TypeOK'
  <2>1. auth' \in [Replicas -> Auth]
    <3>1. auth[s] \in Auth
      BY DEF TypeOK
    <3>2. [auth[s] EXCEPT !.state = "scheduled", !.count = 0, !.ballots = {}]
            \in Auth
      BY <3>1 DEF Auth
    <3>3. QED
      BY <1>3, <3>2 DEF TypeOK, Schedule
  <2>2. QED
    BY <1>3, <2>1 DEF TypeOK, Schedule, history, counters
<1>4. ASSUME NEW s \in Replicas, StartElection(s) PROVE TypeOK'
  <2> DEFINE epoch == conf[s].currentEpoch + 1
  <2>1. epoch \in Nat /\ conf[s].ownerEpoch \in Nat
    BY DEF TypeOK, Conf
  <2>2. conf' \in [Nodes -> Conf] /\ conf'[s].currentEpoch = epoch
    <3>1. conf' = [conf EXCEPT ![s].currentEpoch = epoch]
      BY <1>4 DEF StartElection
    <3>2. conf[s] \in Conf
      BY DEF TypeOK
    <3>3. QED
      BY <2>1, <3>1, <3>2 DEF TypeOK, Conf
  <2>3. auth' \in [Replicas -> Auth]
    <3>1. auth[s] \in Auth
      BY DEF TypeOK
    <3>2. [auth[s] EXCEPT !.state = "sent", !.epoch = epoch] \in Auth
      BY <2>1, <3>1 DEF Auth
    <3>3. QED
      BY <1>4, <3>2 DEF TypeOK, StartElection
  <2>4. requests' \subseteq [from : Replicas, to : Voters, epoch : Nat,
                              configEpoch : Nat]
    BY <1>4, <2>1, <2>2 DEF TypeOK, StartElection, Request
  <2>5. QED
    BY <1>4, <2>1, <2>2, <2>3, <2>4
    DEF TypeOK, StartElection, Save, counters, history
<1>5. ASSUME NEW s \in Replicas, Win(s) PROVE TypeOK'
  <2>1. conf' \in [Nodes -> Conf]
    <3>1. conf[s] \in Conf /\ auth[s].epoch \in Nat
      BY DEF TypeOK, Auth
    <3>2. QED
      BY <1>5, <3>1, OwnedFields DEF TypeOK, Win
  <2>2. QED
    BY <1>5, <2>1 DEF TypeOK, Win, Save, Auth, counters
<1>6. ASSUME NEW r \in requests, Vote(r) PROVE TypeOK'
  <2>1. /\ r.to \in Voters /\ r.from \in Replicas /\ r.epoch \in Nat
    BY DEF TypeOK
  <2>2. conf' \in [Nodes -> Conf]
    BY <1>6, <2>1, Raised DEF TypeOK, Vote, Conf
  <2>3. QED
    BY <1>6, <2>1, <2>2 DEF TypeOK, Vote, counters
<1>7. ASSUME NEW r \in requests, Deny(r) PROVE TypeOK'
  <2>1. r.to \in Nodes /\ r.epoch \in Nat
    BY DEF TypeOK
  <2>2. QED
    BY <1>7, <2>1, Raised DEF TypeOK, Deny, history, counters
<1>8. ASSUME NEW a \in acks, ReceiveAck(a) PROVE TypeOK'
  <2>1. a.from \in Voters /\ a.to \in Replicas /\ a.epoch \in Nat
    BY DEF TypeOK
  <2>2. conf' \in [Nodes -> Conf]
    BY <1>8, <2>1, Raised DEF TypeOK, ReceiveAck
  <2>3. auth' \in [Replicas -> Auth]
    <3>1. auth[a.to] \in Auth
      BY <2>1 DEF TypeOK
    <3> DEFINE c == auth[a.to].count + 1
               b == auth[a.to].ballots \cup {<<a.from, a.epoch>>}
               counted == [auth[a.to] EXCEPT !.count = c, !.ballots = b]
    <3>2. c \in Nat /\ b \in SUBSET (Voters \X Nat)
      BY <2>1, <3>1 DEF Auth
    <3>3. counted \in Auth
      BY <3>1, <3>2 DEF Auth
    <3>4. auth' = auth \/ auth' = [auth EXCEPT ![a.to] = counted]
      BY <1>8 DEF ReceiveAck
    <3> HIDE DEF counted
    <3>5. QED
      BY <2>1, <3>3, <3>4 DEF TypeOK
  <2>4. QED
    BY <1>8, <2>2, <2>3 DEF TypeOK, ReceiveAck, history, counters
<1>9. ASSUME NEW n \in Nodes, NEW m \in Nodes, HearEpoch(n, m) PROVE TypeOK'
  <2>1. conf[m].currentEpoch \in Nat
    BY DEF TypeOK, Conf
  <2>2. QED
    BY <1>9, <2>1, Raised DEF TypeOK, HearEpoch, history, counters
<1>10. ASSUME NEW n \in Nodes, NEW w \in Replicas, Learn(n, w) PROVE TypeOK'
  <2>1. conf[w].currentEpoch \in Nat /\ conf[w].ownerEpoch \in Nat
    BY DEF TypeOK, Conf
  <2>2. conf' \in [Nodes -> Conf]
    BY <1>10, <2>1, Raised, OwnedFields DEF TypeOK, Learn
  <2>3. QED
    BY <1>10, <2>2 DEF TypeOK, Learn, Save, history, counters
<1>11. CASE UNCHANGED vars
  BY <1>11 DEF TypeOK, vars, history, counters
<1>12. QED
  BY <1>1, <1>2, <1>3, <1>4, <1>5, <1>6, <1>7, <1>8, <1>9, <1>10, <1>11
  DEF Next

-----------------------------------------------------------------------------
(***************************************************************************)
(* What the actions do to the fields of conf and auth.                     *)
(***************************************************************************)

\* The new configuration of the one node a step concerns, field by field.
LEMMA RestartConf ==
  ASSUME TypeOK, NEW n \in Nodes, Restart(n)
  PROVE  /\ conf'[n].currentEpoch >= saved[n].currentEpoch
         /\ conf'[n].lastVoteEpoch = saved[n].lastVoteEpoch
         /\ conf'[n].owner = saved[n].owner
         /\ conf'[n].ownerEpoch = saved[n].ownerEpoch
         /\ \A m \in Nodes \ {n} : conf'[m] = conf[m]
BY DEF TypeOK, Restart, Conf, Later

LEMMA StartConf ==
  ASSUME TypeOK, NEW s \in Replicas, StartElection(s)
  PROVE  /\ conf'[s].currentEpoch = conf[s].currentEpoch + 1
         /\ conf'[s].lastVoteEpoch = conf[s].lastVoteEpoch
         /\ conf'[s].owner = conf[s].owner
         /\ conf'[s].ownerEpoch = conf[s].ownerEpoch
         /\ \A m \in Nodes \ {s} : conf'[m] = conf[m]
<1>1. conf[s] \in Conf
  BY DEF TypeOK
<1>2. conf' = [conf EXCEPT ![s].currentEpoch = conf[s].currentEpoch + 1]
  BY DEF StartElection
<1>3. QED
  BY <1>1, <1>2 DEF TypeOK, Conf

LEMMA WinConf ==
  ASSUME TypeOK, NEW s \in Replicas, Win(s)
  PROVE  /\ conf'[s].currentEpoch = conf[s].currentEpoch
         /\ conf'[s].lastVoteEpoch = conf[s].lastVoteEpoch
         /\ conf'[s].owner = s
         /\ conf'[s].ownerEpoch = auth[s].epoch
         /\ \A m \in Nodes \ {s} : conf'[m] = conf[m]
<1>1. conf[s] \in Conf /\ auth[s].epoch \in Nat
  BY DEF TypeOK, Auth
<1>2. QED
  BY <1>1, OwnedFields DEF TypeOK, Win

LEMMA VoteConf ==
  ASSUME TypeOK, NEW r \in requests, Vote(r)
  PROVE  /\ r.to \in Voters /\ r.from \in Replicas /\ r.epoch \in Nat
         /\ conf'[r.to].currentEpoch >= conf[r.to].currentEpoch
         /\ conf'[r.to].currentEpoch >= r.epoch
         /\ conf'[r.to].lastVoteEpoch = r.epoch
         /\ conf'[r.to].owner = conf[r.to].owner
         /\ conf'[r.to].ownerEpoch = conf[r.to].ownerEpoch
         /\ \A m \in Nodes \ {r.to} : conf'[m] = conf[m]
<1>1. r.to \in Voters /\ r.from \in Replicas /\ r.epoch \in Nat
  BY DEF TypeOK
<1> DEFINE c == RaiseEpoch(r.to, r.epoch)
<1>2. /\ c \in Conf /\ c.owner = conf[r.to].owner
      /\ c.currentEpoch >= conf[r.to].currentEpoch
      /\ c.currentEpoch >= r.epoch
      /\ c.ownerEpoch = conf[r.to].ownerEpoch
  BY <1>1, Raised
<1>3. conf' = [conf EXCEPT ![r.to] = [c EXCEPT !.lastVoteEpoch = r.epoch]]
  BY DEF Vote
<1> HIDE DEF c
<1>4. QED
  BY <1>1, <1>2, <1>3 DEF TypeOK, Conf

LEMMA LearnConf ==
  ASSUME TypeOK, NEW n \in Nodes, NEW w \in Replicas, Learn(n, w)
  PROVE  /\ conf'[n].currentEpoch >= conf[n].currentEpoch
         /\ conf'[n].lastVoteEpoch = conf[n].lastVoteEpoch
         /\ conf'[n].owner = w
         /\ conf'[n].ownerEpoch >= conf[n].ownerEpoch
         /\ \A m \in Nodes \ {n} : conf'[m] = conf[m]
<1>1. conf[w].currentEpoch \in Nat /\ conf[w].ownerEpoch \in Nat
      /\ conf[n].ownerEpoch \in Nat
  BY DEF TypeOK, Conf
<1> DEFINE c == RaiseEpoch(n, conf[w].currentEpoch)
<1>2. /\ c \in Conf /\ c.currentEpoch >= conf[n].currentEpoch
      /\ c.lastVoteEpoch = conf[n].lastVoteEpoch
  BY <1>1, Raised
<1>3. conf' = [conf EXCEPT ![n] = Owned(c, w, conf[w].ownerEpoch)]
      /\ conf[n].ownerEpoch < conf[w].ownerEpoch
  BY DEF Learn
<1> HIDE DEF c
<1>4. /\ conf'[n] = Owned(c, w, conf[w].ownerEpoch)
      /\ \A m \in Nodes \ {n} : conf'[m] = conf[m]
  BY <1>3 DEF TypeOK
<1>5. QED
  BY <1>1, <1>2, <1>3, <1>4, OwnedFields

\* The steps that only raise an epoch.
LEMMA RaiseConf ==
  ASSUME TypeOK,
         \/ \E r \in requests : Deny(r)
         \/ \E a \in acks : ReceiveAck(a)
         \/ \E n, m \in Nodes : HearEpoch(n, m)
  PROVE  /\ saved' = saved
         /\ \A n \in Nodes :
              /\ conf'[n].currentEpoch >= conf[n].currentEpoch
              /\ conf'[n].lastVoteEpoch = conf[n].lastVoteEpoch
              /\ conf'[n].owner = conf[n].owner
              /\ conf'[n].ownerEpoch = conf[n].ownerEpoch
<1>1. \A n \in Nodes : conf[n].currentEpoch \in Nat
  BY DEF TypeOK, Conf
<1>2. PICK n \in Nodes, e \in Nat :
        conf' = [conf EXCEPT ![n] = RaiseEpoch(n, e)] /\ saved' = saved
  BY <1>1 DEF TypeOK, Deny, ReceiveAck, HearEpoch
<1>3. QED
  BY <1>1, <1>2, Raised DEF TypeOK

\* Votes and elections are counted where auth changes.
LEMMA StartAuth ==
  ASSUME TypeOK, NEW s \in Replicas, StartElection(s)
  PROVE  /\ auth'[s].epoch = conf[s].currentEpoch + 1
         /\ auth'[s].count = auth[s].count
         /\ auth'[s].ballots = auth[s].ballots
         /\ \A t \in Replicas \ {s} : auth'[t] = auth[t]
<1>1. auth[s] \in Auth
  BY DEF TypeOK
<1>2. auth' = [auth EXCEPT ![s] = [auth[s] EXCEPT !.state = "sent",
                                     !.epoch = conf[s].currentEpoch + 1]]
  BY DEF StartElection
<1>3. QED
  BY <1>1, <1>2 DEF TypeOK, Auth

LEMMA ScheduleAuth ==
  ASSUME TypeOK, NEW s \in Replicas, Schedule(s)
  PROVE  /\ auth'[s].state = "scheduled"
         /\ auth'[s].count = 0 /\ auth'[s].ballots = {}
         /\ \A t \in Replicas \ {s} : auth'[t] = auth[t]
<1>1. auth[s] \in Auth
  BY DEF TypeOK
<1>2. QED
  BY <1>1 DEF TypeOK, Auth, Schedule

LEMMA AckAuth ==
  ASSUME TypeOK, NEW a \in acks, ReceiveAck(a)
  PROVE  /\ a.from \in Voters /\ a.to \in Replicas /\ a.epoch \in Nat
         /\ auth'[a.to].state = auth[a.to].state
         /\ auth'[a.to].epoch = auth[a.to].epoch
         /\ \/ /\ auth'[a.to].count = auth[a.to].count
               /\ auth'[a.to].ballots = auth[a.to].ballots
            \/ /\ auth'[a.to].count = auth[a.to].count + 1
               /\ auth'[a.to].ballots
                    = auth[a.to].ballots \cup {<<a.from, a.epoch>>}
         /\ \A t \in Replicas \ {a.to} : auth'[t] = auth[t]
<1>1. a.from \in Voters /\ a.to \in Replicas /\ a.epoch \in Nat
      /\ auth[a.to] \in Auth
  BY DEF TypeOK
<1> DEFINE c == auth[a.to].count + 1
           b == auth[a.to].ballots \cup {<<a.from, a.epoch>>}
<1>2. \/ auth' = auth
      \/ auth' = [auth EXCEPT ![a.to] = [auth[a.to] EXCEPT !.count = c,
                                                           !.ballots = b]]
  BY DEF ReceiveAck
<1> HIDE DEF c, b
<1>3. CASE auth' = auth
  BY <1>1, <1>3
<1>4. ASSUME auth' = [auth EXCEPT ![a.to] = [auth[a.to] EXCEPT !.count = c,
                                                           !.ballots = b]]
      PROVE  /\ auth'[a.to].count = c /\ auth'[a.to].ballots = b
             /\ auth'[a.to].state = auth[a.to].state
             /\ auth'[a.to].epoch = auth[a.to].epoch
             /\ \A t \in Replicas \ {a.to} : auth'[t] = auth[t]
  <2>1. auth'[a.to] = [auth[a.to] EXCEPT !.count = c, !.ballots = b]
    BY <1>1, <1>4 DEF TypeOK
  <2>2. QED
    BY <1>1, <1>4, <2>1 DEF TypeOK, Auth
<1>5. QED
  BY <1>1, <1>2, <1>3, <1>4 DEF c, b

-----------------------------------------------------------------------------
LEMMA EpochsStep == IInv /\ [Next]_vars => EpochsInv'
<1> SUFFICES ASSUME IInv, [Next]_vars PROVE EpochsInv'
  OBVIOUS
<1> USE DEF IInv
<1>0. /\ \A n \in Nodes : conf[n] \in Conf /\ saved[n] \in Conf
      /\ \A n \in Nodes : conf[n].currentEpoch \in Nat
           /\ conf[n].lastVoteEpoch \in Nat /\ saved[n].currentEpoch \in Nat
           /\ saved[n].lastVoteEpoch \in Nat
  BY DEF TypeOK, Conf
<1>1. ASSUME NEW n \in Nodes, MarkFailing(n) \/ ClearFailing(n)
      PROVE  EpochsInv'
  BY <1>0, <1>1 DEF TypeOK, MarkFailing, ClearFailing, Save, EpochsInv
<1>2. ASSUME NEW n \in Nodes, Restart(n) PROVE EpochsInv'
  <2>1. saved' = saved
    BY <1>2 DEF Restart
  <2>2. conf'[n].currentEpoch \in Nat
    BY TypeStep DEF TypeOK, Conf
  <2>3. QED
    BY <1>0, <1>2, <2>1, <2>2, RestartConf DEF EpochsInv
<1>3. ASSUME NEW s \in Replicas, Schedule(s) PROVE EpochsInv'
  BY <1>3 DEF Schedule, EpochsInv
<1>4. ASSUME NEW s \in Replicas, StartElection(s) PROVE EpochsInv'
  <2>1. saved'[s] = conf'[s] /\ \A m \in Nodes \ {s} : saved'[m] = saved[m]
    BY <1>4 DEF StartElection, Save, TypeOK
  <2>2. QED
    BY <1>0, <1>4, <2>1, StartConf DEF EpochsInv
<1>5. ASSUME NEW s \in Replicas, Win(s) PROVE EpochsInv'
  <2>1. saved'[s] = conf'[s] /\ \A m \in Nodes \ {s} : saved'[m] = saved[m]
    BY <1>5 DEF Win, Save, TypeOK
  <2>2. QED
    BY <1>0, <1>5, <2>1, WinConf DEF EpochsInv
<1>6. ASSUME NEW r \in requests, Vote(r) PROVE EpochsInv'
  <2>1. saved' = saved /\ r.epoch >= conf[r.to].currentEpoch
    BY <1>6 DEF Vote, MayVote
  <2>2. /\ r.to \in Nodes /\ r.epoch \in Nat
        /\ conf'[r.to].currentEpoch \in Nat
    BY <1>6, VoteConf, TypeStep DEF TypeOK, Conf
  <2>3. saved[r.to].lastVoteEpoch <= r.epoch
    BY <1>0, <2>1, <2>2 DEF EpochsInv
  <2>4. saved[r.to].currentEpoch <= conf'[r.to].currentEpoch
    BY <1>0, <1>6, <2>2, VoteConf DEF EpochsInv
  <2>5. QED
    BY <1>0, <1>6, <2>1, <2>2, <2>3, <2>4, VoteConf DEF EpochsInv
<1>7. ASSUME \/ \E r \in requests : Deny(r)
             \/ \E a \in acks : ReceiveAck(a)
             \/ \E n, m \in Nodes : HearEpoch(n, m)
      PROVE  EpochsInv'
  <2>1. \A n \in Nodes : conf'[n].currentEpoch \in Nat
    BY TypeStep DEF TypeOK, Conf
  <2>2. QED
    BY <1>0, <1>7, <2>1, RaiseConf DEF EpochsInv
<1>8. ASSUME NEW n \in Nodes, NEW w \in Replicas, Learn(n, w)
      PROVE  EpochsInv'
  <2>1. saved'[n] = conf'[n] /\ \A m \in Nodes \ {n} : saved'[m] = saved[m]
    BY <1>8 DEF Learn, Save, TypeOK
  <2>2. conf'[n].currentEpoch \in Nat
    BY TypeStep DEF TypeOK, Conf
  <2>3. QED
    BY <1>0, <1>8, <2>1, <2>2, LearnConf DEF EpochsInv
<1>9. CASE UNCHANGED vars
  BY <1>9 DEF EpochsInv, vars
<1>10. QED
  BY <1>1, <1>2, <1>3, <1>4, <1>5, <1>6, <1>7, <1>8, <1>9 DEF Next

\* The epochs on disk never go down.
LEMMA SavedGrows ==
  ASSUME IInv, [Next]_vars, NEW n \in Nodes
  PROVE  saved'[n].currentEpoch >= saved[n].currentEpoch
<1> USE DEF IInv
<1>0. /\ conf[n].currentEpoch \in Nat /\ saved[n].currentEpoch \in Nat
      /\ conf'[n].currentEpoch \in Nat
      /\ saved[n].currentEpoch <= conf[n].currentEpoch
  BY TypeStep DEF TypeOK, Conf, EpochsInv
<1>1. CASE saved'[n] = saved[n]
  BY <1>0, <1>1
<1>2. CASE saved'[n] = conf'[n] /\ conf'[n].currentEpoch >= conf[n].currentEpoch
  BY <1>0, <1>2
<1>3. ASSUME NEW m \in Nodes, MarkFailing(m) \/ ClearFailing(m)
      PROVE  saved'[n].currentEpoch >= saved[n].currentEpoch
  BY <1>0, <1>3 DEF MarkFailing, ClearFailing, Save, TypeOK
<1>4. ASSUME NEW s \in Replicas, StartElection(s) \/ Win(s)
      PROVE  saved'[n].currentEpoch >= saved[n].currentEpoch
  <2>1. saved'[n] = saved[n] \/ (n = s /\ saved'[n] = conf'[n])
    BY <1>4 DEF StartElection, Win, Save, TypeOK
  <2>2. conf'[s].currentEpoch >= conf[s].currentEpoch \/ n # s
    BY <1>0, <1>4, StartConf, WinConf
  <2>3. QED
    BY <1>1, <1>2, <2>1, <2>2
<1>5. ASSUME NEW m \in Nodes, NEW w \in Replicas, Learn(m, w)
      PROVE  saved'[n].currentEpoch >= saved[n].currentEpoch
  BY <1>1, <1>2, <1>5, LearnConf DEF Learn, Save, TypeOK
<1>6. QED
  BY <1>1, <1>3, <1>4, <1>5
  DEF Next, Restart, Schedule, Vote, Deny, ReceiveAck, HearEpoch, vars

LEMMA StartedStep == IInv /\ [Next]_vars => StartedInv'
<1> SUFFICES ASSUME IInv, [Next]_vars PROVE StartedInv'
  OBVIOUS
<1> USE DEF IInv
<1>0. \A n \in Nodes : /\ saved[n].currentEpoch \in Nat
                       /\ saved'[n].currentEpoch \in Nat
                       /\ conf[n].currentEpoch \in Nat
                       /\ saved[n].currentEpoch <= conf[n].currentEpoch
  BY TypeStep DEF TypeOK, Conf, EpochsInv
<1>1. CASE started' = started /\ elections' = elections
  <2>1. ASSUME NEW s \in Replicas, NEW e \in started[s]
        PROVE  e <= saved'[s].currentEpoch
    <3>1. e \in Nat /\ e <= saved[s].currentEpoch
      BY DEF TypeOK, StartedInv
    <3>2. QED
      BY <1>0, <3>1, SavedGrows
  <2>2. QED
    BY <1>1, <2>1 DEF StartedInv
<1>2. ASSUME NEW s \in Replicas, StartElection(s) PROVE StartedInv'
  <2> DEFINE epoch == conf[s].currentEpoch + 1
  <2>1. /\ started' = [started EXCEPT ![s] = started[s] \cup {epoch}]
        /\ elections' = [elections EXCEPT ![s] = elections[s] + 1]
        /\ saved'[s].currentEpoch = epoch
    BY <1>2, StartConf DEF StartElection, Save, TypeOK
  <2>2. \A e \in started[s] : e \in Nat /\ e <= conf[s].currentEpoch
    BY <1>0 DEF TypeOK, StartedInv
  <2>3. epoch \notin started[s]
    BY <1>0, <2>2
  <2>4. /\ IsFiniteSet(started'[s])
        /\ Cardinality(started'[s]) = elections'[s]
    <3>1. /\ IsFiniteSet(started[s])
          /\ Cardinality(started[s]) = elections[s]
      BY DEF StartedInv
    <3>2. /\ started'[s] = started[s] \cup {epoch}
          /\ elections'[s] = elections[s] + 1
      BY <2>1 DEF TypeOK
    <3>3. /\ IsFiniteSet(started[s] \cup {epoch})
          /\ Cardinality(started[s] \cup {epoch}) = Cardinality(started[s]) + 1
      BY <2>3, <3>1, FS_AddElement
    <3>4. QED
      BY <3>1, <3>2, <3>3
  <2>5. \A e \in started'[s] : e <= saved'[s].currentEpoch
    <3>1. started'[s] = started[s] \cup {epoch} /\ conf[s].currentEpoch \in Nat
      BY <1>0, <2>1 DEF TypeOK
    <3>2. QED
      BY <2>1, <2>2, <3>1
  <2>6. ASSUME NEW t \in Replicas \ {s}
        PROVE  /\ started'[t] = started[t] /\ elections'[t] = elections[t]
               /\ saved'[t] = saved[t]
    BY <1>2, <2>1 DEF StartElection, Save, TypeOK
  <2>7. QED
    BY <2>4, <2>5, <2>6 DEF StartedInv
<1>3. QED
  BY <1>1, <1>2
  DEF Next, MarkFailing, ClearFailing, Restart, Schedule, Win, Vote, Deny,
      ReceiveAck, HearEpoch, Learn, vars, history

LEMMA OwnerStep == IInv /\ [Next]_vars => OwnerInv'
<1> SUFFICES ASSUME IInv, [Next]_vars PROVE OwnerInv'
  OBVIOUS
<1> USE DEF IInv
<1>0. /\ First \notin Replicas
      /\ \A n \in Nodes : conf[n].currentEpoch \in Nat
      /\ \A s \in Replicas : auth[s] \in Auth /\ auth[s].epoch \in Nat
  BY ConstantsAssumption DEF TypeOK, Conf, Auth
<1>1. \A n \in Nodes : conf'[n].owner = First => conf'[n].ownerEpoch = 1
  <2>1. ASSUME NEW n \in Nodes, Restart(n)
        PROVE  \A m \in Nodes : conf'[m].owner = First
                                => conf'[m].ownerEpoch = 1
    BY <2>1, RestartConf DEF EpochsInv, OwnerInv
  <2>2. ASSUME NEW s \in Replicas, StartElection(s) \/ Win(s)
        PROVE  \A m \in Nodes : conf'[m].owner = First
                                => conf'[m].ownerEpoch = 1
    BY <1>0, <2>2, StartConf, WinConf DEF OwnerInv
  <2>3. ASSUME NEW r \in requests, Vote(r)
        PROVE  \A m \in Nodes : conf'[m].owner = First
                                => conf'[m].ownerEpoch = 1
    BY <2>3, VoteConf DEF OwnerInv
  <2>4. ASSUME NEW n \in Nodes, NEW w \in Replicas, Learn(n, w)
        PROVE  \A m \in Nodes : conf'[m].owner = First
                                => conf'[m].ownerEpoch = 1
    BY <1>0, <2>4, LearnConf DEF OwnerInv
  <2>5. ASSUME \/ \E r \in requests : Deny(r)
               \/ \E a \in acks : ReceiveAck(a)
               \/ \E n, m \in Nodes : HearEpoch(n, m)
        PROVE  \A m \in Nodes : conf'[m].owner = First
                                => conf'[m].ownerEpoch = 1
    BY <2>5, RaiseConf DEF OwnerInv
  <2>6. QED
    BY <2>1, <2>2, <2>3, <2>4, <2>5
    DEF Next, MarkFailing, ClearFailing, Schedule, vars, OwnerInv
<1>2. \A s \in Replicas : auth'[s].state = "sent" => auth'[s].epoch >= 1
  <2>1. ASSUME NEW s \in Replicas, Schedule(s)
        PROVE  \A t \in Replicas : auth'[t].state = "sent"
                                   => auth'[t].epoch >= 1
    BY <2>1, ScheduleAuth DEF OwnerInv
  <2>2. ASSUME NEW s \in Replicas, StartElection(s)
        PROVE  \A t \in Replicas : auth'[t].state = "sent"
                                   => auth'[t].epoch >= 1
    BY <1>0, <2>2, StartAuth DEF OwnerInv
  <2>3. ASSUME NEW a \in acks, ReceiveAck(a)
        PROVE  \A t \in Replicas : auth'[t].state = "sent"
                                   => auth'[t].epoch >= 1
    BY <2>3, AckAuth DEF OwnerInv
  <2>4. ASSUME NEW n \in Nodes, Restart(n)
        PROVE  \A t \in Replicas : auth'[t].state = "sent"
                                   => auth'[t].epoch >= 1
    BY <2>4 DEF Restart, NoAuth, OwnerInv
  <2>5. QED
    BY <2>1, <2>2, <2>3, <2>4
    DEF Next, MarkFailing, ClearFailing, Win, Vote, Deny, HearEpoch, Learn,
        vars, OwnerInv
<1>3. QED
  BY <1>1, <1>2 DEF OwnerInv

LEMMA RequestsStep == IInv /\ [Next]_vars => RequestsInv'
<1> SUFFICES ASSUME IInv, [Next]_vars PROVE RequestsInv'
  OBVIOUS
<1> USE DEF IInv
<1>1. CASE requests' \subseteq requests /\ granted' = granted
           /\ started' = started
  BY <1>1 DEF RequestsInv
<1>2. ASSUME NEW s \in Replicas, StartElection(s) PROVE RequestsInv'
  <2> DEFINE epoch == conf[s].currentEpoch + 1
  <2>1. /\ started' = [started EXCEPT ![s] = started[s] \cup {epoch}]
        /\ requests' = requests \cup {Request(s, v) : v \in Voters}
        /\ granted' = granted
        /\ conf'[s].currentEpoch = epoch
    BY <1>2, StartConf DEF StartElection
  <2>2. epoch \notin started[s]
    <3>1. /\ conf[s].currentEpoch \in Nat /\ saved[s].currentEpoch \in Nat
          /\ saved[s].currentEpoch <= conf[s].currentEpoch
      BY DEF TypeOK, Conf, EpochsInv
    <3>2. \A e \in started[s] : e \in Nat /\ e <= conf[s].currentEpoch
      BY <3>1 DEF TypeOK, StartedInv
    <3>3. QED
      BY <3>1, <3>2
  <2>3. \A t \in Replicas : started[t] \subseteq started'[t]
    BY <2>1 DEF TypeOK
  <2>4. \A g \in granted : g[2] \in Replicas /\ g[3] \in started'[g[2]]
    BY <2>3 DEF TypeOK, RequestsInv
  <2>5. \A r \in requests : r.from \in Replicas /\ r.epoch \in started[r.from]
    BY DEF TypeOK, RequestsInv
  <2>6. \A v \in Voters : <<v, s, epoch>> \notin granted
    BY <2>2 DEF RequestsInv
  <2>7. ASSUME NEW v \in Voters
        PROVE  /\ Request(s, v).from = s /\ Request(s, v).to = v
               /\ Request(s, v).epoch = epoch
               /\ Request(s, v).configEpoch = conf[s].ownerEpoch
    BY <2>1 DEF Request
  <2>8. \A r \in requests' : /\ r.epoch \in started'[r.from]
                             /\ <<r.to, r.from, r.epoch>> \notin granted'
    <3>1. epoch \in started'[s]
      BY <2>1 DEF TypeOK
    <3>2. \A r \in requests : /\ r.epoch \in started'[r.from]
                              /\ <<r.to, r.from, r.epoch>> \notin granted
      BY <2>3, <2>5 DEF RequestsInv
    <3>3. \A v \in Voters :
            /\ Request(s, v).epoch \in started'[Request(s, v).from]
            /\ <<Request(s, v).to, Request(s, v).from, Request(s, v).epoch>>
                 \notin granted
      BY <2>6, <2>7, <3>1
    <3>4. QED
      BY <2>1, <3>2, <3>3
  <2>9. \A r, q \in requests' :
          r.from = q.from /\ r.to = q.to /\ r.epoch = q.epoch => r = q
    <3>1. \A r \in requests : ~(r.from = s /\ r.epoch = epoch)
      BY <2>2, <2>5
    <3>2. QED
      BY <2>1, <2>7, <3>1 DEF RequestsInv
  <2>10. QED
    BY <2>1, <2>4, <2>8, <2>9 DEF RequestsInv
<1>3. ASSUME NEW r \in requests, Vote(r) PROVE RequestsInv'
  <2>1. /\ requests' = requests \ {r} /\ started' = started
        /\ granted' = granted \cup {<<r.to, r.from, r.epoch>>}
    BY <1>3 DEF Vote
  <2>2. r.epoch \in started[r.from]
    BY DEF RequestsInv
  <2>3. \A q \in requests' :
          <<q.to, q.from, q.epoch>> # <<r.to, r.from, r.epoch>>
    BY <2>1 DEF RequestsInv
  <2>4. QED
    BY <2>1, <2>2, <2>3 DEF RequestsInv
<1>4. QED
  BY <1>1, <1>2, <1>3
  DEF Next, MarkFailing, ClearFailing, Restart, Schedule, Win, Deny,
      ReceiveAck, HearEpoch, Learn, vars, history

LEMMA BallotsStep == IInv /\ [Next]_vars => BallotsInv'
<1> SUFFICES ASSUME IInv, [Next]_vars PROVE BallotsInv'
  OBVIOUS
<1> USE DEF IInv
<1>0. /\ \A a \in acks : a.from \in Voters /\ a.to \in Replicas
      /\ \A s \in Replicas : auth[s].count \in Nat
  BY DEF TypeOK, Auth
<1>1. CASE acks' = acks /\ granted' = granted /\ auth' = auth
  BY <1>1 DEF BallotsInv
<1>2. ASSUME NEW s \in Replicas, Schedule(s) PROVE BallotsInv'
  <2>1. acks' = acks /\ granted' = granted
    BY <1>2 DEF Schedule, history
  <2>2. QED
    BY <1>0, <1>2, <2>1, ScheduleAuth, FS_EmptySet DEF BallotsInv
<1>3. ASSUME NEW s \in Replicas, StartElection(s) PROVE BallotsInv'
  <2>1. acks' = acks /\ granted' = granted
    BY <1>3 DEF StartElection
  <2>2. QED
    BY <1>0, <1>3, <2>1, StartAuth DEF BallotsInv
<1>4. ASSUME NEW n \in Nodes, Restart(n) PROVE BallotsInv'
  <2>1. /\ acks' \subseteq acks /\ granted' = granted
        /\ \A s \in Replicas : auth'[s] = auth[s]
             \/ (auth'[s].ballots = {} /\ auth'[s].count = 0)
    BY <1>4 DEF Restart, NoAuth
  <2>2. QED
    BY <1>0, <2>1, FS_EmptySet DEF BallotsInv
<1>5. ASSUME NEW r \in requests, Vote(r) PROVE BallotsInv'
  <2> DEFINE new == [from |-> r.to, to |-> r.from, epoch |-> r.epoch]
  <2>1. /\ acks' = acks \cup {new} /\ auth' = auth
        /\ granted' = granted \cup {<<r.to, r.from, r.epoch>>}
        /\ r.from \in Replicas
    BY <1>5 DEF Vote, TypeOK
  <2>2. <<r.to, r.epoch>> \notin auth[r.from].ballots
    <3>1. <<r.to, r.from, r.epoch>> \notin granted
      BY DEF RequestsInv
    <3>2. \A x \in auth[r.from].ballots : <<x[1], r.from, x[2]>> \in granted
      BY <2>1 DEF BallotsInv
    <3>3. QED
      BY <3>1, <3>2
  <2>3. \A a \in acks' : /\ <<a.from, a.to, a.epoch>> \in granted'
                         /\ <<a.from, a.epoch>> \notin auth'[a.to].ballots
    <3>1. \A a \in acks : /\ <<a.from, a.to, a.epoch>> \in granted'
                          /\ <<a.from, a.epoch>> \notin auth'[a.to].ballots
      BY <2>1 DEF BallotsInv
    <3>2. /\ <<new.from, new.to, new.epoch>> \in granted'
          /\ <<new.from, new.epoch>> \notin auth'[new.to].ballots
      BY <2>1, <2>2
    <3>3. QED
      BY <2>1, <3>1, <3>2
  <2>4. QED
    BY <2>1, <2>3 DEF BallotsInv
<1>6. ASSUME NEW a \in acks, ReceiveAck(a) PROVE BallotsInv'
  <2> DEFINE x == <<a.from, a.epoch>>
  <2>1. acks' = acks \ {a} /\ granted' = granted /\ a.to \in Replicas
    BY <1>0, <1>6 DEF ReceiveAck, history
  <2>2. /\ x \notin auth[a.to].ballots
        /\ <<a.from, a.to, a.epoch>> \in granted
    BY DEF BallotsInv
  <2>3. \A b \in acks' : <<b.from, b.epoch>> = x => b.to # a.to
    <3>1. ASSUME NEW b \in acks', <<b.from, b.epoch>> = x, b.to = a.to
          PROVE  FALSE
      <4>1. b \in acks /\ b # a
        BY <2>1, <3>1
      <4>2. b = a
        BY <3>1, <4>1 DEF TypeOK
      <4>3. QED
        BY <4>1, <4>2
    <3>2. QED
      BY <3>1
  <2>4. CASE auth'[a.to].count = auth[a.to].count
             /\ auth'[a.to].ballots = auth[a.to].ballots
    BY <1>0, <1>6, <2>1, <2>4, AckAuth DEF BallotsInv
  <2>5. CASE auth'[a.to].count = auth[a.to].count + 1
             /\ auth'[a.to].ballots = auth[a.to].ballots \cup {x}
    <3>1. /\ IsFiniteSet(auth'[a.to].ballots)
          /\ Cardinality(auth'[a.to].ballots) = auth'[a.to].count
      <4>1. /\ IsFiniteSet(auth[a.to].ballots)
            /\ Cardinality(auth[a.to].ballots) = auth[a.to].count
            /\ x \notin auth[a.to].ballots
        BY <2>1, <2>2 DEF BallotsInv
      <4>2. /\ IsFiniteSet(auth[a.to].ballots \cup {x})
            /\ Cardinality(auth[a.to].ballots \cup {x})
                 = Cardinality(auth[a.to].ballots) + 1
        BY <4>1, FS_AddElement
      <4>3. QED
        BY <2>5, <4>1, <4>2
    <3>2. \A y \in auth'[a.to].ballots : <<y[1], a.to, y[2]>> \in granted
      BY <2>1, <2>2, <2>5 DEF BallotsInv
    <3>3. \A s \in Replicas \ {a.to} : auth'[s] = auth[s]
      BY <1>6, AckAuth
    <3>4. \A b \in acks' : <<b.from, b.epoch>> \notin auth'[b.to].ballots
      BY <1>0, <2>1, <2>3, <2>5, <3>3 DEF BallotsInv
    <3>5. QED
      BY <2>1, <3>1, <3>2, <3>3, <3>4 DEF BallotsInv
  <2>6. QED
    BY <1>6, <2>4, <2>5, AckAuth
<1>7. QED
  BY <1>1, <1>2, <1>3, <1>4, <1>5, <1>6
  DEF Next, MarkFailing, ClearFailing, Win, Deny, HearEpoch, Learn, vars,
      history

LEMMA OnceStep == IInv /\ [Next]_vars => OnceInv'
<1> SUFFICES ASSUME IInv, [Next]_vars PROVE OnceInv'
  OBVIOUS
<1> USE DEF IInv
<1>0. /\ \A g \in granted : /\ g[1] \in Nodes /\ g[3] \in Nat
                            /\ g = <<g[1], g[2], g[3]>>
      /\ \A n \in Nodes : /\ conf[n].lastVoteEpoch \in Nat
                          /\ conf[n].currentEpoch \in Nat
                          /\ conf[n].lastVoteEpoch <= conf[n].currentEpoch
  BY DEF TypeOK, Conf, EpochsInv
<1>1. CASE /\ granted' = granted /\ forgot' = forgot
           /\ \A n \in Nodes : conf'[n].lastVoteEpoch = conf[n].lastVoteEpoch
  BY <1>0, <1>1 DEF OnceInv
<1>2. ASSUME NEW n \in Nodes, Restart(n) PROVE OnceInv'
  <2>1. /\ granted' = granted
        /\ forgot \subseteq forgot'
        /\ \A g \in granted : g[1] = n /\ g[3] > saved[n].lastVoteEpoch
                              => <<g[1], g[3]>> \in forgot'
    BY <1>2 DEF Restart
  <2>2. saved[n].lastVoteEpoch \in Nat
    BY DEF TypeOK, Conf
  <2>3. \A g \in granted' : <<g[1], g[3]>> \notin forgot'
                            => g[3] <= conf'[g[1]].lastVoteEpoch
    BY <1>0, <1>2, <2>1, <2>2, RestartConf DEF OnceInv
  <2>4. QED
    BY <2>1, <2>3 DEF OnceInv
<1>3. ASSUME NEW r \in requests, Vote(r) PROVE OnceInv'
  <2> DEFINE new == <<r.to, r.from, r.epoch>>
  <2>1. /\ granted' = granted \cup {new} /\ forgot' = forgot
        /\ r.epoch >= conf[r.to].currentEpoch
        /\ r.epoch # conf[r.to].lastVoteEpoch
        /\ r.to \in Nodes /\ r.epoch \in Nat
    BY <1>3, VoteConf DEF Vote, MayVote
  <2>2. r.epoch > conf[r.to].lastVoteEpoch
    BY <1>0, <2>1
  <2>3. \A g \in granted : g[1] = r.to /\ g[3] = r.epoch
                           => <<g[1], g[3]>> \in forgot
    BY <1>0, <2>1, <2>2 DEF OnceInv
  <2>4. ASSUME NEW g \in granted', <<g[1], g[3]>> \notin forgot'
        PROVE  g[3] <= conf'[g[1]].lastVoteEpoch
    <3>1. CASE g = new
      BY <1>3, <2>1, <3>1, VoteConf
    <3>2. CASE g \in granted
      BY <1>0, <1>3, <2>1, <2>2, <2>4, <3>2, VoteConf DEF OnceInv
    <3>3. QED
      BY <2>1, <3>1, <3>2
  <2>5. ASSUME NEW g \in granted', NEW h \in granted', g[1] = h[1],
               g[3] = h[3], <<g[1], g[3]>> \notin forgot'
        PROVE  g[2] = h[2]
    BY <2>1, <2>3, <2>5 DEF OnceInv
  <2>6. QED
    BY <2>4, <2>5 DEF OnceInv
<1>4. ASSUME NEW s \in Replicas, StartElection(s) \/ Win(s) PROVE OnceInv'
  <2>1. granted' = granted /\ forgot' = forgot
    BY <1>4 DEF StartElection, Win
  <2>2. QED
    BY <1>1, <1>4, <2>1, StartConf, WinConf
<1>5. ASSUME NEW n \in Nodes, NEW w \in Replicas, Learn(n, w) PROVE OnceInv'
  <2>1. granted' = granted /\ forgot' = forgot
    BY <1>5 DEF Learn, history
  <2>2. QED
    BY <1>1, <1>5, <2>1, LearnConf
<1>6. ASSUME \/ \E r \in requests : Deny(r)
             \/ \E a \in acks : ReceiveAck(a)
             \/ \E n, m \in Nodes : HearEpoch(n, m)
      PROVE  OnceInv'
  <2>1. granted' = granted /\ forgot' = forgot
    BY <1>6 DEF Deny, ReceiveAck, HearEpoch, history
  <2>2. QED
    BY <1>1, <1>6, <2>1, RaiseConf
<1>7. QED
  BY <1>1, <1>2, <1>3, <1>4, <1>5, <1>6
  DEF Next, MarkFailing, ClearFailing, Schedule, vars, history

LEMMA WonStep == IInv /\ [Next]_vars => WonInv'
<1> SUFFICES ASSUME IInv, [Next]_vars PROVE WonInv'
  OBVIOUS
<1> USE DEF IInv
<1>1. CASE won' = won /\ granted \subseteq granted'
  BY <1>1 DEF WonInv
<1>2. ASSUME NEW s \in Replicas, Win(s) PROVE WonInv'
  <2>1. /\ won' = won \cup {[slave |-> s, epoch |-> auth[s].epoch,
                             ballots |-> auth[s].ballots]}
        /\ granted' = granted /\ auth[s].count >= NeededQuorum
    BY <1>2 DEF Win
  <2>2. /\ Cardinality(auth[s].ballots) >= NeededQuorum
        /\ \A x \in auth[s].ballots : <<x[1], s, x[2]>> \in granted
    BY <2>1 DEF BallotsInv
  <2>3. QED
    BY <2>1, <2>2 DEF WonInv
<1>3. QED
  BY <1>1, <1>2
  DEF Next, MarkFailing, ClearFailing, Restart, Schedule, StartElection, Vote,
      Deny, ReceiveAck, HearEpoch, Learn, vars, history

LEMMA InvStep == IInv /\ [Next]_vars => IInv'
<1> SUFFICES ASSUME IInv, [Next]_vars PROVE IInv'
  OBVIOUS
<1>1. TypeOK'
  BY TypeStep DEF IInv
<1>2. EpochsInv' /\ StartedInv' /\ OwnerInv' /\ RequestsInv'
  BY EpochsStep, StartedStep, OwnerStep, RequestsStep
<1>3. BallotsInv' /\ OnceInv' /\ WonInv'
  BY BallotsStep, OnceStep, WonStep
<1>4. QED
  BY <1>1, <1>2, <1>3 DEF IInv

LEMMA Invariant == Spec => []IInv
BY InitInv, InvStep, PTL DEF Spec

\* Two quorums of votes of one epoch share a vote.
LEMMA QuorumsMeet ==
  ASSUME NEW e, NEW A \in SUBSET (Voters \X {e}),
         NEW B \in SUBSET (Voters \X {e}),
         Cardinality(A) >= NeededQuorum, Cardinality(B) >= NeededQuorum
  PROVE  \E v \in Voters : <<v, e>> \in A \cap B
<1> DEFINE U == Voters \X {e}
<1>1. IsFiniteSet(Voters) /\ Cardinality(Voters) \in Nat
  BY ConstantsAssumption, FS_CardinalityType
<1>2. IsFiniteSet({e}) /\ Cardinality({e}) = 1
  BY FS_Singleton
<1>3. IsFiniteSet(U) /\ Cardinality(U) = Cardinality(Voters)
  <2>1. IsFiniteSet(U) /\ Cardinality(U) = Cardinality(Voters) * Cardinality({e})
    BY <1>1, <1>2, FS_Product
  <2>2. QED
    BY <1>1, <1>2, <2>1
<1>4. /\ Cardinality(A) \in Nat /\ Cardinality(B) \in Nat
  BY <1>3, FS_Subset, FS_CardinalityType
<1>5. Cardinality(A) + Cardinality(B) > Cardinality(U)
  BY <1>1, <1>3, <1>4 DEF NeededQuorum
<1>6. A \cap B # {}
  BY <1>3, <1>5, FS_MajoritiesIntersect
<1>7. QED
  BY <1>6

-----------------------------------------------------------------------------
(***************************************************************************)
(* The theorems.                                                           *)
(***************************************************************************)

\* Every variable keeps its type: requests go to masters, votes to replicas,
\* and no message or restart brings a node a value of another kind.
THEOREM TypeCorrect == Spec => []TypeOK
<1>1. IInv => TypeOK
  BY DEF IInv
<1>2. QED
  BY <1>1, Invariant, PTL

\* A replica never starts two elections in one epoch, whatever restarts come
\* between: the epoch is in nodes.conf before the requests leave.
THEOREM EpochsFresh == Spec => []FreshEpochs
<1>1. IInv => FreshEpochs
  BY DEF IInv, StartedInv, FreshEpochs
<1>2. QED
  BY <1>1, Invariant, PTL

\* Two winners of one epoch need a vote counted for another election than its
\* own, or a voter that forgot its vote; for every number of masters.
THEOREM ElectionsSound == Spec => []SoundElections
<1>1. IInv => SoundElections
  <2> SUFFICES ASSUME IInv, NEW a \in won, NEW b \in won,
                      a.epoch = b.epoch, a.slave # b.slave,
                      OwnVotesOnly(a), OwnVotesOnly(b)
               PROVE  \E v \in Voters : <<v, a.epoch>> \in forgot
    BY DEF SoundElections
  <2> USE DEF IInv
  <2>1. a.ballots \in SUBSET (Voters \X {a.epoch})
    BY DEF TypeOK, OwnVotesOnly
  <2>2. b.ballots \in SUBSET (Voters \X {a.epoch})
    BY DEF TypeOK, OwnVotesOnly
  <2>3. PICK v \in Voters : <<v, a.epoch>> \in a.ballots \cap b.ballots
    BY <2>1, <2>2, QuorumsMeet DEF WonInv
  <2>4. /\ <<v, a.slave, a.epoch>> \in granted
        /\ <<v, b.slave, a.epoch>> \in granted
    BY <2>3 DEF WonInv
  <2>5. <<v, a.epoch>> \in forgot
    BY <2>4 DEF OnceInv
  <2>6. QED
    BY <2>5
<1>2. QED
  BY <1>1, Invariant, PTL

\* No step, no restart either, takes a node back to an owner of the slots with
\* a lower epoch.
THEOREM OwnersKept == Spec => OwnerKept
<1> DEFINE Kept == \A n \in Nodes : conf'[n].ownerEpoch >= conf[n].ownerEpoch
<1>1. IInv /\ [Next]_vars => [Kept]_vars
  <2> SUFFICES ASSUME IInv, [Next]_vars, vars' # vars PROVE Kept
    OBVIOUS
  <2> USE DEF IInv
  <2>1. /\ \A n \in Nodes : conf[n].ownerEpoch \in Nat
        /\ \A s \in Replicas : auth[s].epoch \in Nat
    BY DEF TypeOK, Conf, Auth
  <2>2. CASE conf' = conf
    BY <2>1, <2>2
  <2>3. ASSUME NEW n \in Nodes, Restart(n) PROVE Kept
    BY <2>1, <2>3, RestartConf DEF EpochsInv
  <2>4. ASSUME NEW s \in Replicas, StartElection(s) PROVE Kept
    BY <2>1, <2>4, StartConf
  <2>5. ASSUME NEW s \in Replicas, Win(s) PROVE Kept
    <3>1. conf[s].ownerEpoch = 1 /\ auth[s].epoch >= 1
      BY <2>5 DEF Win, MayFailover, OwnerInv
    <3>2. QED
      BY <2>1, <2>5, <3>1, WinConf
  <2>6. ASSUME NEW r \in requests, Vote(r) PROVE Kept
    BY <2>1, <2>6, VoteConf
  <2>7. ASSUME NEW n \in Nodes, NEW w \in Replicas, Learn(n, w) PROVE Kept
    BY <2>1, <2>7, LearnConf
  <2>8. ASSUME \/ \E r \in requests : Deny(r)
               \/ \E a \in acks : ReceiveAck(a)
               \/ \E n, m \in Nodes : HearEpoch(n, m)
        PROVE  Kept
    BY <2>1, <2>8, RaiseConf
  <2>9. QED
    BY <2>2, <2>3, <2>4, <2>5, <2>6, <2>7, <2>8
    DEF Next, MarkFailing, ClearFailing, Schedule, vars
<1>2. QED
  BY <1>1, Invariant, PTL DEF Spec, OwnerKept
=============================================================================
