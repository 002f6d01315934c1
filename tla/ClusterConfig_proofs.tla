------------------------ MODULE ClusterConfig_proofs ------------------------
(***************************************************************************)
(* Types, and that slots are never left with a node known to be a replica, *)
(* for every number of nodes, promotions and late headers.                 *)
(***************************************************************************)
EXTENDS ClusterConfig, TLAPS

\* The header or update a node handles keeps these two.
Good(w) == w \in View /\ (w.owner # NoOne => IsMaster(w, w.owner))
Inv == TypeOK /\ OwnerIsMaster
\* Only nodes of the shard claim its slots; nobody hears itself.
HeaderOK(h) ==
  /\ h \in [from : Nodes, to : Nodes, master : Nodes, currentEpoch : Nat,
            configEpoch : Nat, claims : BOOLEAN]
  /\ h.claims => h.master \in Shard
IInv == Inv /\ \A h \in late : HeaderOK(h)

USE DEF Nodes

LEMMA HeaderGood ==
  ASSUME Inv, NEW m \in Nodes, NEW n \in Nodes
  PROVE  HeaderOK(Header(m, n))
<1>1. /\ view[m] \in View /\ view[m].master[m] \in Nodes
      /\ view[m].configEpoch[view[m].master[m]] \in Nat
      /\ view[m].currentEpoch \in Nat
  BY DEF Inv, TypeOK, View
<1>2. view[m].owner = view[m].master[m] => view[m].master[m] \in Shard
  BY <1>1, ConstantsAssumption DEF View
<1>3. QED
  BY <1>1, <1>2 DEF HeaderOK, Header

LEMMA EpochsGood ==
  ASSUME NEW w, Good(w), NEW h, HeaderOK(h)
  PROVE  Good(Epochs(w, h)) /\ Epochs(w, h).master = w.master
<1>1. /\ Later(w.currentEpoch, h.currentEpoch) \in Nat
      /\ Later(w.configEpoch[h.from], h.configEpoch) \in Nat
  BY DEF Good, View, HeaderOK, Later
<1>2. QED
  BY <1>1 DEF Good, View, HeaderOK, Epochs, IsMaster

LEMMA RoleSwitchGood ==
  ASSUME NEW w, Good(w), NEW h, HeaderOK(h)
  PROVE  /\ Good(RoleSwitch(w, h))
         /\ RoleSwitch(w, h).master[h.from] = h.master
<1>1. /\ h.from \in Nodes /\ h.master \in Nodes
  BY DEF HeaderOK
<1> DEFINE M == [w.master EXCEPT ![h.from] = h.master]
           a == [w EXCEPT !.master[h.from] = h.master, !.owner = NoOne]
           b == [w EXCEPT !.master[h.from] = h.master]
<1>2. M \in [Nodes -> Nodes] /\ M[h.from] = h.master
  BY <1>1 DEF Good, View
<1>3. a \in View /\ a.owner = NoOne /\ a.master = M
  BY <1>2 DEF Good, View
<1>4. b \in View /\ b.owner = w.owner /\ b.master = M
  BY <1>2 DEF Good, View
<1>5. CASE h.master # h.from /\ IsMaster(w, h.from) /\ w.owner = h.from
  BY <1>2, <1>3, <1>5 DEF Good, RoleSwitch
<1>6. CASE ~(h.master # h.from /\ IsMaster(w, h.from) /\ w.owner = h.from)
  <2>1. RoleSwitch(w, h) = b
    BY <1>6 DEF RoleSwitch
  <2>2. w.owner # NoOne => IsMaster(b, w.owner)
    BY <1>1, <1>2, <1>4, <1>6 DEF Good, View, IsMaster
  <2>3. QED
    BY <1>2, <1>4, <2>1, <2>2 DEF Good
<1>7. QED
  BY <1>5, <1>6

LEMMA RebindGood ==
  ASSUME NEW w, Good(w), NEW n \in Nodes, NEW m \in Shard, NEW e \in Nat,
         IsMaster(w, m)
  PROVE  Good(Rebind(w, n, m, e))
BY ConstantsAssumption DEF Good, View, Rebind, IsMaster

LEMMA CollisionGood ==
  ASSUME NEW w, Good(w), NEW n \in Nodes, NEW h
  PROVE  Good(Collision(w, n, h))
<1>1. w.currentEpoch + 1 \in Nat
  BY DEF Good, View
<1>2. QED
  BY <1>1 DEF Good, View, Collision, IsMaster

LEMMA InitInv == Init => IInv
<1> SUFFICES ASSUME Init PROVE IInv
  OBVIOUS
<1>1. /\ First \in Shard
      /\ \A n \in Nodes : MasterAtStart(n) \in Nodes
      /\ \A n \in Nodes : StartEpoch[n] \in Nat /\ TopEpoch \in Nat
  BY ConstantsAssumption DEF MasterAtStart
<1>2. \A n \in Nodes : view[n] \in View
  BY <1>1 DEF Init, View
<1>3. TypeOK
  BY <1>2 DEF Init, TypeOK
<1>4. OwnerIsMaster
  BY <1>1 DEF Init, OwnerIsMaster, IsMaster, MasterAtStart
<1>5. QED
  BY <1>3, <1>4 DEF IInv, Inv, Init

\* A header leaves a good view and asks only for updates about the shard.
LEMMA ReceiveGood ==
  ASSUME Inv, NEW n \in Nodes, NEW h, HeaderOK(h), Receive(n, h)
  PROVE  /\ view' \in [Nodes -> View]
         /\ \A m \in Nodes : Good(view'[m])
         /\ updates' \subseteq [to : Nodes, about : Shard, currentEpoch : Nat,
                                configEpoch : Nat]
<1> DEFINE known == RoleSwitch(Epochs(view[n], h), h)
           bound == IF Dirty(known, h) /\ IsMaster(known, h.from) /\ h.claims
                    THEN Rebind(known, n, h.from, h.configEpoch)
                    ELSE known
           update == [to |-> h.from, about |-> bound.owner,
                      currentEpoch |-> bound.currentEpoch,
                      configEpoch |-> bound.configEpoch[bound.owner]]
<1>1. \A m \in Nodes : Good(view[m])
  BY DEF Inv, TypeOK, OwnerIsMaster, Good
<1>2. Good(known) /\ known.master[h.from] = h.master
  BY <1>1, EpochsGood, RoleSwitchGood
<1>3. h.from \in Nodes /\ h.configEpoch \in Nat /\ (h.claims => h.master \in Shard)
  BY DEF HeaderOK
<1> HIDE DEF known
<1>4. Good(bound)
  <2>1. CASE Dirty(known, h) /\ IsMaster(known, h.from) /\ h.claims
    <3>1. h.from \in Shard
      BY <1>2, <1>3, <2>1 DEF IsMaster
    <3>2. QED
      BY <1>2, <1>3, <2>1, <3>1, RebindGood
  <2>2. QED
    BY <1>2, <2>1
<1> HIDE DEF bound
<1>5. Good(Collision(bound, n, h))
  BY <1>4, CollisionGood
<1>6. view' = [view EXCEPT ![n] = Collision(bound, n, h)]
  BY DEF Receive, known, bound
<1>7. bound.owner # NoOne
      => update \in [to : Nodes, about : Shard, currentEpoch : Nat,
                     configEpoch : Nat]
  BY <1>3, <1>4 DEF Good, View
<1>8. updates' = updates \/ (bound.owner # NoOne
                             /\ updates' = updates \cup {update})
  BY DEF Receive, known, bound
<1>9. QED
  BY <1>1, <1>5, <1>6, <1>7, <1>8 DEF Inv, TypeOK, Good

LEMMA UpdateGood ==
  ASSUME Inv, NEW u \in updates, HearUpdate(u)
  PROVE  /\ view' \in [Nodes -> View]
         /\ \A m \in Nodes : Good(view'[m])
<1> DEFINE n == u.to
           w == [view[n] EXCEPT !.currentEpoch = Later(@, u.currentEpoch)]
           E == [w.configEpoch EXCEPT ![u.about] = u.configEpoch]
           M == [w.master EXCEPT ![u.about] = u.about]
           seen == [w EXCEPT !.configEpoch[u.about] = u.configEpoch,
                             !.master[u.about] = u.about]
<1>1. /\ n \in Nodes /\ u.about \in Shard /\ u.configEpoch \in Nat
      /\ u.currentEpoch \in Nat
      /\ \A m \in Nodes : Good(view[m])
  BY DEF Inv, TypeOK, OwnerIsMaster, Good
<1>2. Good(w)
  <2>1. Later(view[n].currentEpoch, u.currentEpoch) \in Nat
    BY <1>1 DEF Good, View, Later
  <2>2. QED
    BY <1>1, <2>1 DEF Good, View, IsMaster
<1> HIDE DEF w
<1>3. E \in [Nodes -> Nat] /\ M \in [Nodes -> Nodes]
  BY <1>1, <1>2 DEF Good, View
<1>4. /\ seen \in View /\ seen.owner = w.owner /\ seen.master = M
  BY <1>2, <1>3 DEF Good, View
<1>5. Good(seen) /\ IsMaster(seen, u.about)
  BY <1>1, <1>2, <1>4 DEF Good, View, IsMaster
<1> HIDE DEF seen
<1>6. Good(Rebind(seen, n, u.about, u.configEpoch))
  BY <1>1, <1>5, RebindGood
<1>7. \/ view' = [view EXCEPT ![n] = w]
      \/ view' = [view EXCEPT ![n] = Rebind(seen, n, u.about, u.configEpoch)]
  BY DEF HearUpdate, w, seen
<1>8. QED
  BY <1>1, <1>2, <1>6, <1>7 DEF Inv, TypeOK, Good

LEMMA PromoteGood ==
  ASSUME Inv, NEW s \in Shard, Promote(s)
  PROVE  /\ view' \in [Nodes -> View]
         /\ \A m \in Nodes : Good(view'[m])
<1> DEFINE w == view[s]
           E == [w.configEpoch EXCEPT ![s] = w.currentEpoch + 1]
           M == [w.master EXCEPT ![s] = s]
           new == [w EXCEPT !.currentEpoch = @ + 1,
                            !.configEpoch[s] = w.currentEpoch + 1,
                            !.master[s] = s, !.owner = s]
<1>1. \A m \in Nodes : Good(view[m])
  BY DEF Inv, TypeOK, OwnerIsMaster, Good
<1>2. /\ w \in View /\ w.currentEpoch + 1 \in Nat
      /\ E \in [Nodes -> Nat] /\ M \in [Nodes -> Nodes] /\ M[s] = s
  <2>1. w \in View
    BY <1>1 DEF Good
  <2> HIDE DEF w
  <2>2. /\ w.currentEpoch \in Nat /\ w.configEpoch \in [Nodes -> Nat]
        /\ w.master \in [Nodes -> Nodes]
    BY <2>1 DEF View
  <2>3. w.currentEpoch + 1 \in Nat
    BY <2>2
  <2>4. E \in [Nodes -> Nat] /\ M \in [Nodes -> Nodes] /\ M[s] = s
    BY <2>2, <2>3
  <2>5. QED
    BY <2>1, <2>3, <2>4
<1>3. view' = [view EXCEPT ![s] = new]
  BY DEF Promote
<1>4. new \in View /\ new.owner = s /\ new.master = M
  <2> HIDE DEF w
  <2>1. QED
    BY <1>2 DEF View
<1>5. Good(new)
  BY <1>2, <1>4 DEF Good, IsMaster
<1> HIDE DEF new
<1>6. QED
  BY <1>1, <1>3, <1>5 DEF Inv, TypeOK, Good

LEMMA InvStep == IInv /\ [Next]_vars => IInv'
<1> SUFFICES ASSUME IInv, [Next]_vars PROVE IInv'
  OBVIOUS
<1> USE DEF IInv
<1>0. ASSUME view' \in [Nodes -> View], \A m \in Nodes : Good(view'[m])
      PROVE  OwnerIsMaster'
  BY <1>0 DEF OwnerIsMaster, Good
<1>1. ASSUME NEW n \in Nodes, NEW m \in Nodes, Hear(n, m) PROVE IInv'
  <2>1. HeaderOK(Header(m, n))
    BY HeaderGood
  <2>2. QED
    BY <1>0, <1>1, <2>1, ReceiveGood DEF Hear, Inv, TypeOK
<1>2. ASSUME NEW n \in Nodes, NEW m \in Nodes, Delay(n, m) PROVE IInv'
  <2>1. HeaderOK(Header(m, n))
    BY HeaderGood
  <2>2. OwnerIsMaster'
    BY <1>2 DEF Delay, Inv, OwnerIsMaster
  <2>3. QED
    BY <1>2, <2>1, <2>2 DEF Delay, Inv, TypeOK, HeaderOK
<1>3. ASSUME NEW h \in late, HearLate(h) PROVE IInv'
  <2>1. HeaderOK(h) /\ h.to \in Nodes
    BY DEF HeaderOK
  <2>2. QED
    BY <1>0, <1>3, <2>1, ReceiveGood DEF HearLate, Inv, TypeOK
<1>4. ASSUME NEW u \in updates, HearUpdate(u) PROVE IInv'
  <2>1. /\ updates' \subseteq updates
        /\ UNCHANGED <<late, promotions, delays>>
    BY <1>4 DEF HearUpdate
  <2>2. QED
    BY <1>0, <1>4, <2>1, UpdateGood DEF Inv, TypeOK
<1>5. ASSUME NEW s \in Shard, Promote(s) PROVE IInv'
  <2>1. UNCHANGED <<late, updates, delays>> /\ promotions' = promotions + 1
    BY <1>5 DEF Promote
  <2>2. QED
    BY <1>0, <1>5, <2>1, PromoteGood DEF Inv, TypeOK
<1>6. CASE UNCHANGED vars
  BY <1>6 DEF vars, Inv, TypeOK, OwnerIsMaster
<1>7. QED
  BY <1>1, <1>2, <1>3, <1>4, <1>5, <1>6 DEF Next

LEMMA Invariant == Spec => []IInv
BY InitInv, InvStep, PTL DEF Spec

\* Every node's view keeps its type; updates are only sent about nodes of the
\* shard, since only they ever claim its slots.
THEOREM TypeCorrect == Spec => []TypeOK
<1>1. IInv => TypeOK
  BY DEF IInv, Inv
<1>2. QED
  BY <1>1, Invariant, PTL

\* The owner of the slots in a node's table is a master to that node, through
\* role switches, late headers, updates and unsound promotions.
THEOREM OwnersAreMasters == Spec => []OwnerIsMaster
<1>1. IInv => OwnerIsMaster
  BY DEF IInv, Inv
<1>2. QED
  BY <1>1, Invariant, PTL
=============================================================================
