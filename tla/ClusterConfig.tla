---------------------------- MODULE ClusterConfig ----------------------------
(***************************************************************************)
(* How the nodes of a redis cluster come to agree on the owner of a shard's *)
(* slots after failovers (cluster.c): every node pings the others with the *)
(* slots it serves and its configEpoch, rebinds slots that are claimed     *)
(* with a greater epoch, tells a node with an old claim of the newer one,  *)
(* and moves its own epoch on when another master has the same.            *)
(*                                                                         *)
(* The elections are those of ClusterElection and may be unsound, so a     *)
(* replica is promoted here with its own next epoch.  The slots of the     *)
(* shard are one; the other masters keep theirs and take part with their   *)
(* epochs.  No slot is being imported.                                     *)
(***************************************************************************)
EXTENDS Naturals, FiniteSets

CONSTANTS Shard,         \* the nodes of the shard
          First,         \* its master at the start
          Others,        \* the masters of other shards
          NoOne,         \* an unassigned slot
          Rank,          \* the order of the nodes' names
          StartEpoch,    \* configEpoch of each master at the start
          TopEpoch,      \* currentEpoch of all nodes at the start
          MaxEvents      \* bound on the promotions and the headers that are
                         \* received late, together

Nodes == Shard \cup Others

ASSUME ConstantsAssumption ==
  /\ IsFiniteSet(Nodes) /\ First \in Shard /\ NoOne \notin Nodes
  /\ Shard \cap Others = {}
  /\ Rank \in [Nodes -> Nat] /\ StartEpoch \in [Nodes -> Nat]
  /\ \A n, m \in Nodes : Rank[n] = Rank[m] => n = m
  /\ TopEpoch \in Nat /\ \A n \in Nodes : StartEpoch[n] <= TopEpoch
  /\ MaxEvents \in Nat

VARIABLES
  view,       \* what each node knows of the cluster
  late,       \* headers under way that are older than their sender's state
  updates,    \* UPDATE messages under way
  promotions, delays  \* counters for the bounds

vars == <<view, late, updates, promotions, delays>>

\* A node's currentEpoch; the configEpoch and the master it knows of each node,
\* a master's being itself; and the owner of the shard's slots.
View == [currentEpoch : Nat, configEpoch : [Nodes -> Nat],
         master : [Nodes -> Nodes], owner : Shard \cup {NoOne}]

IsMaster(w, m) == w.master[m] = m
Later(e, f) == IF e < f THEN f ELSE e

Header_OfTheOwner(m, to) ==
  LET of == view[m].master[m] IN
  [from |-> m, to |-> to, master |-> view[m].owner,
   currentEpoch |-> view[m].currentEpoch,
   configEpoch |-> view[m].configEpoch[of], claims |-> view[m].owner = of]
\* clusterBuildMessageHdr: a replica sends the data of its master.
Header(m, to) ==
  LET of == view[m].master[m] IN
  [from |-> m, to |-> to, master |-> of,
   currentEpoch |-> view[m].currentEpoch,
   configEpoch |-> view[m].configEpoch[of], claims |-> view[m].owner = of]

MasterAtStart(n) == IF n \in Shard THEN First ELSE n

Init ==
  /\ view = [n \in Nodes |->
       [currentEpoch |-> TopEpoch,
        configEpoch |-> [m \in Nodes |-> StartEpoch[MasterAtStart(m)]],
        master |-> [m \in Nodes |-> MasterAtStart(m)], owner |-> First]]
  /\ late = {} /\ updates = {}
  /\ promotions = 0 /\ delays = 0

-----------------------------------------------------------------------------
(***************************************************************************)
(* What a handler does to the view w of node n.                            *)
(***************************************************************************)

\* The epochs of a header.
Epochs(w, h) ==
  [w EXCEPT !.currentEpoch = Later(@, h.currentEpoch),
            !.configEpoch[h.from] = Later(@, h.configEpoch)]

RoleSwitch_KeepsSlots(w, h) == [w EXCEPT !.master[h.from] = h.master]
\* Role switch: the slots of a master that has become a replica are unassigned.
RoleSwitch(w, h) ==
  IF h.master # h.from /\ IsMaster(w, h.from) /\ w.owner = h.from
  THEN [w EXCEPT !.master[h.from] = h.master, !.owner = NoOne]
  ELSE [w EXCEPT !.master[h.from] = h.master]

\* clusterUpdateSlotsConfigWith: m claims the slots with an epoch.  A node
\* whose own master loses them, or that loses them itself, follows m.
Rebind(w, n, m, epoch) ==
  IF m # n /\ w.owner # m
     /\ (w.owner = NoOne \/ w.configEpoch[w.owner] < epoch)
  THEN IF w.owner = w.master[n]
       THEN [w EXCEPT !.owner = m, !.master[n] = m]
       ELSE [w EXCEPT !.owner = m]
  ELSE w

Collision_Ignored(w, n, h) == w
Collision_Known(w, n, h) ==
  IF /\ IsMaster(w, n) /\ IsMaster(w, h.from)
     /\ h.configEpoch = w.configEpoch[n]
     /\ Rank[h.from] > Rank[n]
  THEN [w EXCEPT !.configEpoch[n] = w.currentEpoch]
  ELSE w
\* clusterHandleConfigEpochCollision: of two masters with one epoch the one
\* whose name is smaller takes the next.
Collision(w, n, h) ==
  IF /\ IsMaster(w, n) /\ IsMaster(w, h.from)
     /\ h.configEpoch = w.configEpoch[n]
     /\ w.configEpoch[h.from] = w.configEpoch[n]
     /\ Rank[h.from] > Rank[n]
  THEN [w EXCEPT !.currentEpoch = @ + 1,
                 !.configEpoch[n] = w.currentEpoch + 1]
  ELSE w

\* The sender's claim differs from what is known of the sender or its master.
Dirty(w, h) == (w.owner = w.master[h.from]) # h.claims

\* clusterProcessPacket on PING, PONG and MEET.
Receive(n, h) ==
  LET known == RoleSwitch(Epochs(view[n], h), h)
      bound == IF Dirty(known, h) /\ IsMaster(known, h.from) /\ h.claims
               THEN Rebind(known, n, h.from, h.configEpoch)
               ELSE known
      stale == /\ Dirty(known, h) /\ h.claims
               /\ bound.owner \notin {h.from, NoOne}
               /\ bound.configEpoch[bound.owner] > h.configEpoch
  IN /\ view' = [view EXCEPT ![n] = Collision(bound, n, h)]
     /\ updates' = IF stale
          THEN updates \cup
            {[to |-> h.from, about |-> bound.owner,
              currentEpoch |-> bound.currentEpoch,
              configEpoch |-> bound.configEpoch[bound.owner]]}
          ELSE updates

-----------------------------------------------------------------------------
\* A ping or pong of m reaches n.
Hear(n, m) ==
  /\ n # m
  /\ Receive(n, Header(m, n))
  /\ UNCHANGED <<late, promotions, delays>>

\* One is delayed on its link; the link of the other direction may be faster.
Delay(n, m) ==
  /\ n # m /\ promotions + delays < MaxEvents
  /\ late' = late \cup {Header(m, n)}
  /\ delays' = delays + 1
  /\ UNCHANGED <<view, updates, promotions>>

HearLate(h) ==
  /\ Receive(h.to, h)
  /\ late' = late \ {h}
  /\ UNCHANGED <<promotions, delays>>

\* UPDATE: the configuration of another node, if it is new.
HearUpdate(u) ==
  LET n == u.to
      w == [view[n] EXCEPT !.currentEpoch = Later(@, u.currentEpoch)]
      seen == [w EXCEPT !.configEpoch[u.about] = u.configEpoch,
                        !.master[u.about] = u.about]
  IN /\ view' = [view EXCEPT ![n] =
                   IF w.configEpoch[u.about] < u.configEpoch
                   THEN Rebind(seen, n, u.about, u.configEpoch) ELSE w]
     /\ updates' = updates \ {u}
     /\ UNCHANGED <<late, promotions, delays>>

\* clusterFailoverReplaceYourMaster, after an election in the next epoch.
Promote(s) ==
  LET w == view[s] IN
  /\ promotions + delays < MaxEvents
  /\ w.master[s] # s /\ w.owner = w.master[s]
  /\ view' = [view EXCEPT ![s] =
       [w EXCEPT !.currentEpoch = @ + 1,
                 !.configEpoch[s] = w.currentEpoch + 1,
                 !.master[s] = s, !.owner = s]]
  /\ promotions' = promotions + 1
  /\ UNCHANGED <<late, updates, delays>>

Next ==
  \/ \E n, m \in Nodes : Hear(n, m) \/ Delay(n, m)
  \/ \E h \in late : HearLate(h)
  \/ \E u \in updates : HearUpdate(u)
  \/ \E s \in Shard : Promote(s)

\* Every node pings every other again and again, and messages arrive.
Fairness ==
  /\ \A n, m \in Nodes : WF_vars(Hear(n, m))
  /\ \A n \in Nodes : WF_vars(\E h \in late : h.to = n /\ HearLate(h))
  /\ \A n \in Nodes : WF_vars(\E u \in updates : u.to = n /\ HearUpdate(u))

Spec == Init /\ [][Next]_vars /\ Fairness

-----------------------------------------------------------------------------
TypeOK ==
  /\ view \in [Nodes -> View]
  /\ late \subseteq [from : Nodes, to : Nodes, master : Nodes,
                     currentEpoch : Nat, configEpoch : Nat, claims : BOOLEAN]
  /\ updates \subseteq [to : Nodes, about : Shard, currentEpoch : Nat,
                        configEpoch : Nat]
  /\ promotions \in Nat /\ delays \in Nat

(***************************************************************************)
(* clusterSetMaster asserts that a node that becomes a replica has no      *)
(* slots (cluster.c:3606), and the owner a node knows is a master to it:   *)
(* slots are never left with a node that is known to be a replica.         *)
(***************************************************************************)
OwnerIsMaster ==
  \A n \in Nodes : view[n].owner # NoOne => IsMaster(view[n], view[n].owner)

(***************************************************************************)
(* Once no replica is promoted any more all nodes come to agree on one     *)
(* owner, which knows that it is the master, and no other node of the      *)
(* shard takes itself for one, even when two were promoted with the same   *)
(* epoch (the promise of clusterHandleConfigEpochCollision).               *)
(***************************************************************************)
Agreed(o) ==
  \A n \in Nodes :
    /\ view[n].owner = o
    /\ n \in Shard => (view[n].master[n] = n <=> n = o)
Converges == <>[](\E o \in Shard : Agreed(o))

(***************************************************************************)
(* Masters end with different epochs whatever they started with            *)
(* (cluster.c:1029-1031).                                                  *)
(***************************************************************************)
DistinctEpochs ==
  <>[](\A n, m \in Nodes :
         n # m /\ IsMaster(view[n], n) /\ IsMaster(view[m], m)
         => view[n].configEpoch[n] # view[m].configEpoch[m])

(***************************************************************************)
(* The comment in clusterUpdateSlotsConfigWith (cluster.c:1498-1499): a    *)
(* slave whose master is left without slots needs to replicate to the new  *)
(* owner.  It does not always.                                             *)
(***************************************************************************)
ReplicasFollow ==
  <>[](\A n \in Shard : view[n].master[n] = view[n].owner)
=============================================================================
