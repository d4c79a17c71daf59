------------------------ MODULE InboundOrdersProofs ------------------------
(***************************************************************************)
(* Proofs of the properties of InboundOrders.                              *)
(*                                                                         *)
(* The argument: a mapping is written once and never changes, and an       *)
(* import answers only after it has seen the mapping lead to its order.    *)
(* Whoever says "created" made that order, and the order remembers the     *)
(* key.  An order that an import made is mapped, or the import is still    *)
(* about to map it: it can fail to only if the externalId is mapped to     *)
(* another order, which would hold the same externalId unless edited.      *)
(***************************************************************************)
EXTENDS InboundOrders, TLAPS

USE InboundOrdersAssumption

-----------------------------------------------------------------------------
(* The inductive invariant.                                                *)

\* No two imports work on one key.
Alone ==
  \A g, h \in Requests : req[g].key = req[h].key /\ req[g].key # None => g = h

\* The unique index on the externalId of orders.
OneHolder ==
  \A o, p \in made :
    orders[o].external = orders[p].external /\ orders[o].external # None => o = p

MapsRight ==
  \A x \in ExternalIds : map[x] # None =>
    map[x] \in made /\ (map[x] \notin edited => orders[map[x]].external = x)

\* An import that is about to map its order.
Mapping(q, o) == q.pc \in {"map", "insert"} /\ q.order = o

\* What an import in state q has found out, and what of it still holds.
Sound(q) ==
  /\ q.key # None =>
       /\ \/ event[q.key].status = "processing"
          \/ event[q.key].status # "none" /\ q.key \in struck
       /\ event[q.key].external = q.external
  /\ q.pc \in {"map", "insert", "reread", "answer"} => q.order \in made
  /\ q.pc \in {"map", "insert"} /\ q.order \notin edited =>
       orders[q.order].external = q.external
  /\ q.pc \in {"reread", "answer"} => map[q.external] = q.order
  /\ q.pc \in {"map", "insert", "reread", "answer"} /\ q.result = "created" =>
       orders[q.order].key = q.key

\* A stored answer names the mapped order, and who created an order is its maker.
Filed(k) ==
  event[k].status = "succeeded" =>
    /\ event[k].external \in ExternalIds
    /\ event[k].order = map[event[k].external]
    /\ event[k].order \in made
    /\ event[k].result = "created" => orders[event[k].order].key = k

Settled(o) == map[orders[o].external] = o \/ map[orders[o].external] \in edited

\* An order that nobody has edited is mapped in the end, if an import made it.
Kept(o) ==
  /\ orders[o].external \in ExternalIds
  /\ orders[o].key # None /\ orders[o].key \notin struck =>
       Settled(o) \/ \E h \in Requests : req[h].key = orders[o].key /\ Mapping(req[h], o)

Inv ==
  /\ TypeOK /\ Alone /\ OneHolder /\ MapsRight
  /\ \A h \in Requests : Sound(req[h])
  /\ \A k \in Keys : Filed(k)
  /\ \A o \in made \ edited : Kept(o)

-----------------------------------------------------------------------------
(* Facts about the ways an import changes.                                 *)

LEMMA IdleTyped == Idle \in Import /\ Sound(Idle) /\ Idle.pc = "idle" /\ Idle.key = None
                   /\ Idle.external = None
  BY DEF Idle, Import, External, Order, Result, Sound

\* An import in flight, as a record.
LEMMA InFlight ==
  ASSUME TypeOK, NEW h \in Requests, req[h].pc # "idle"
  PROVE  /\ req[h] \in Import /\ req[h].key \in Keys /\ req[h].external \in ExternalIds
         /\ map[req[h].external] \in Order
  BY DEF TypeOK, Import, External

\* A record that keeps its key and its externalId may take the place of the old one.
Fits(h, q) ==
  /\ q \in Import
  /\ q.pc = "idle" <=> q.key = None
  /\ q.key = None <=> q.external = None
  /\ q.key # None => q.key = req[h].key /\ q.external = req[h].external

LEMMA Moves ==
  ASSUME Inv, NEW h \in Requests, NEW q, Fits(h, q), Sound(q)',
         NEW key \in Keys, key = req[h].key, req' = [req EXCEPT ![h] = q],
         UNCHANGED << orders, made, map, edited >>,
         struck \subseteq struck', struck' \subseteq Keys,
         event' \in [Keys -> Event],
         \A k \in Keys : k # key => event'[k] = event[k],
         Filed(key)',
         \A o \in made \ edited :
           Mapping(req[h], o) /\ orders[o].key = key /\ key \notin struck' =>
             Settled(o) \/ (Mapping(q, o) /\ q.key = key)
  PROVE  Inv'
  <1> USE DEF Inv
  <1>2. \A g \in Requests : g # h => req'[g] = req[g] /\ req[g].key # key
    BY DEF TypeOK, Alone
  <1>3. req'[h] = q
    BY DEF TypeOK
  <1>4. TypeOK'
    <2>1. \A k \in Keys : event'[k].status = "succeeded" => event'[k].order # None
      BY DEF TypeOK, Filed
    <2>2. req' \in [Requests -> Import]
      BY DEF TypeOK, Fits
    <2>3. \A g \in Requests : /\ req'[g].pc = "idle" <=> req'[g].key = None
                              /\ req'[g].key = None <=> req'[g].external = None
      BY <1>2, <1>3 DEF TypeOK, Fits
    <2> QED
      BY <2>1, <2>2, <2>3 DEF TypeOK
  <1>5. Alone'
    BY <1>2, <1>3 DEF Alone, Fits
  <1>6. OneHolder' /\ MapsRight'
    BY DEF OneHolder, MapsRight
  <1>7. \A g \in Requests : Sound(req[g])'
    <2> TAKE g \in Requests
    <2>1. CASE g = h
      BY <1>3, <2>1 DEF Sound
    <2>2. CASE g # h
      <3>1. req'[g] = req[g] /\ Sound(req[g]) /\ req[g].key \in Keys \cup {None}
        BY <1>2, <2>2 DEF TypeOK, Import
      <3>2. req[g].key # None => event'[req[g].key] = event[req[g].key]
        BY <1>2, <2>2, <3>1
      <3> QED
        BY <3>1, <3>2 DEF Sound
    <2> QED
      BY <2>1, <2>2
  <1>8. \A k \in Keys : Filed(k)'
    BY DEF Filed
  <1>9. \A o \in (made \ edited)' : Kept(o)'
    <2> TAKE o \in (made \ edited)'
    <2>1. o \in made \ edited /\ Kept(o)
      OBVIOUS
    <2>2. ASSUME orders[o].key # None, orders[o].key \notin struck', ~Settled(o)
          PROVE  \E g \in Requests : req'[g].key = orders[o].key /\ Mapping(req'[g], o)
      <3>1. PICK g \in Requests : req[g].key = orders[o].key /\ Mapping(req[g], o)
        BY <2>1, <2>2 DEF Kept
      <3>2. CASE g = h
        BY <1>3, <2>1, <2>2, <3>1, <3>2
      <3>3. CASE g # h
        BY <1>2, <3>1, <3>3
      <3> QED
        BY <3>2, <3>3
    <2>3. orders[o].external \in ExternalIds
      BY <2>1 DEF Kept
    <2> QED
      BY <2>2, <2>3 DEF Kept, Settled, Mapping
  <1> QED
    BY <1>4, <1>5, <1>6, <1>7, <1>8, <1>9

\* The same for the steps that leave the events alone.
LEMMA Walks ==
  ASSUME Inv, NEW h \in Requests, NEW q, Fits(h, q), Sound(q),
         req[h].pc # "idle", req' = [req EXCEPT ![h] = q],
         UNCHANGED << event, orders, made, map, struck, edited >>,
         \A o \in made \ edited : Mapping(req[h], o) => Settled(o) \/ Mapping(q, o),
         (\E o \in made \ edited : Mapping(req[h], o) /\ ~Settled(o)) => q.key = req[h].key
  PROVE  Inv'
  <1>1. Sound(q)'
    BY DEF Sound
  <1>2. PICK key \in Keys : key = req[h].key
    BY InFlight DEF Inv
  <1>3. Filed(key)'
    BY DEF Inv, Filed
  <1> QED
    BY ZenonT(40), <1>1, <1>2, <1>3, Moves DEF Inv, TypeOK

-----------------------------------------------------------------------------
(* One lemma for each kind of step.                                        *)

LEMMA InvInit == Init => Inv
  BY IdleTyped
  DEF Init, Inv, TypeOK, Alone, OneHolder, MapsRight, Sound, Filed, Kept, Event, Order, External,
      Result, Holders

\* A step of an import that goes to pc, or leaves.
LEMMA GotoFits ==
  ASSUME Inv, NEW h \in Requests, req[h].pc # "idle",
         NEW pc \in {"lookup", "check", "create", "map", "insert", "reread", "answer",
                     "recover", "fail"},
         NEW flag \in BOOLEAN
  PROVE  Fits(h, [req[h] EXCEPT !.pc = pc, !.recovering = flag])
  BY ZenonT(40), InFlight DEF Inv, TypeOK, Fits, Import

LEMMA IdleFits == ASSUME NEW h \in Requests PROVE Fits(h, Idle)
  BY IdleTyped DEF Fits

\* An import that cannot go on leaves nothing behind.
LEMMA ThrowsFits ==
  ASSUME Inv, NEW h \in Requests, req[h].pc # "idle", Throws(h)
  PROVE  \E q : /\ Fits(h, q) /\ req' = [req EXCEPT ![h] = q]
                /\ q.pc \in {"idle", "fail"} /\ q.key \in {None, req[h].key}
                /\ q = Idle \/ q = [req[h] EXCEPT !.pc = "fail"]
                /\ Sound(q)
  <1>1. CASE req[h].recovering
    BY <1>1, IdleTyped, IdleFits DEF Throws, End, Becomes
  <1>2. CASE ~req[h].recovering
    <2> DEFINE q == [req[h] EXCEPT !.pc = "fail"]
    <2>1. Fits(h, q)
      BY InFlight DEF Inv, TypeOK, Fits, Import
    <2>2. Sound(q)
      BY InFlight DEF Inv, Sound, Import
    <2>3. q.pc = "fail" /\ q.key = req[h].key
      BY InFlight DEF Inv, Import
    <2>4. req' = [req EXCEPT ![h] = q]
      BY <1>2 DEF Throws, Goto, Becomes
    <2> QED
      BY <2>1, <2>2, <2>3, <2>4
  <1> QED
    BY <1>1, <1>2

LEMMA LookupStep ==
  ASSUME Inv, NEW h \in Requests, ResolveExistingMappedOrder(h)
  PROVE  Inv'
  <1> DEFINE o == map[req[h].external]
  <1>1. req[h].pc # "idle" /\ req[h] \in Import /\ ~\E p \in made : Mapping(req[h], p)
    BY DEF ResolveExistingMappedOrder, Inv, TypeOK, Mapping
  <1>2. CASE o = None
    <2> DEFINE q == [req[h] EXCEPT !.pc = "check"]
    <2>1. Fits(h, q) /\ Sound(q)
      BY <1>1, InFlight DEF Inv, TypeOK, Fits, Import, Sound
    <2>2. req' = [req EXCEPT ![h] = q]
      BY <1>2 DEF ResolveExistingMappedOrder, Goto, Becomes
    <2> QED
      BY <1>1, <2>1, <2>2, Walks DEF ResolveExistingMappedOrder
  <1>3. CASE o # None
    <2> DEFINE q == [req[h] EXCEPT !.pc = "answer", !.order = o, !.seen = orders[o].external,
                                   !.result = "existing"]
    <2>1. o \in made /\ o \in OrderIds
      BY <1>1, <1>3, InFlight DEF Inv, TypeOK, MapsRight
    <2>2. Fits(h, q)
      BY <1>1, <2>1, InFlight DEF Inv, TypeOK, Fits, Import, Order, Result
    <2>3. Sound(q)
      BY <1>1, <2>1, InFlight DEF Inv, Import, Sound
    <2>4. req' = [req EXCEPT ![h] = q]
      BY <1>3 DEF ResolveExistingMappedOrder, Becomes
    <2> HIDE DEF q, o
    <2> QED
      BY <1>1, <2>2, <2>3, <2>4, Walks DEF ResolveExistingMappedOrder
  <1> QED
    BY <1>2, <1>3

\* Steps of an import that only changes its pc, and maps nothing yet.
LEMMA PlainStep ==
  ASSUME Inv, NEW h \in Requests, req[h].pc \in {"check", "recover", "answer"},
         NEW pc \in {"create", "fail", "recover"}, NEW flag \in BOOLEAN,
         req' = [req EXCEPT ![h] = [req[h] EXCEPT !.pc = pc, !.recovering = flag]],
         UNCHANGED << event, orders, made, map, struck, edited >>
  PROVE  Inv'
  <1> DEFINE q == [req[h] EXCEPT !.pc = pc, !.recovering = flag]
  <1>1. Fits(h, q)
    BY GotoFits
  <1>2. Sound(q)
    BY InFlight DEF Inv, Sound, Import
  <1>3. ~\E o \in made : Mapping(req[h], o)
    BY DEF Mapping
  <1> QED
    BY <1>1, <1>2, <1>3, Walks

LEMMA SamePc ==
  ASSUME Inv, NEW h \in Requests, req[h].pc # "idle", NEW pc, Goto(h, pc)
  PROVE  /\ req[h].recovering \in BOOLEAN
         /\ req' = [req EXCEPT ![h] = [req[h] EXCEPT !.pc = pc,
                                                     !.recovering = req[h].recovering]]
  BY InFlight DEF Inv, Goto, Becomes, Import

LEMMA CheckStep ==
  ASSUME Inv, NEW h \in Requests, EnsureUniqueOrderKeys(h)
  PROVE  Inv'
  <1>1. ASSUME NEW pc \in {"create", "fail"}, Goto(h, pc)
        PROVE  Inv'
    <2>1. req[h].pc = "check" /\ req[h].recovering \in BOOLEAN
          /\ UNCHANGED << event, orders, made, map, struck, edited >>
      BY <1>1, SamePc DEF EnsureUniqueOrderKeys
    <2>2. req' = [req EXCEPT ![h] = [req[h] EXCEPT !.pc = pc,
                                                   !.recovering = req[h].recovering]]
      BY <1>1, <2>1, SamePc
    <2> QED
      BY <2>1, <2>2, PlainStep
  <1>2. CASE Recovers(h)
    BY <1>2, PlainStep DEF EnsureUniqueOrderKeys, Recovers, Becomes
  <1> QED
    BY <1>1, <1>2 DEF EnsureUniqueOrderKeys

\* An import that throws may do so wherever it has no order of its own to map.
LEMMA ThrowStep ==
  ASSUME Inv, NEW h \in Requests, req[h].pc # "idle", Throws(h) \/ End(h),
         UNCHANGED << event, orders, made, map, struck, edited >>,
         \A o \in made \ edited : Mapping(req[h], o) => Settled(o)
  PROVE  Inv'
  <1>1. CASE Throws(h)
    BY <1>1, ThrowsFits, Walks
  <1>2. CASE End(h)
    BY <1>2, IdleFits, IdleTyped, Walks DEF End, Becomes
  <1> QED
    BY <1>1, <1>2

\* An order that is about to be mapped while another one is: one of them was edited.
LEMMA MappedElsewhere ==
  ASSUME Inv, NEW h \in Requests, NEW o \in made \ edited, Mapping(req[h], o),
         map[req[h].external] # None
  PROVE  Settled(o)
  <1> DEFINE x == req[h].external
  <1>1. x \in ExternalIds /\ orders[o].external = x
    BY InFlight DEF Inv, Mapping, Sound
  <1>2. map[x] \in made /\ (map[x] \notin edited => orders[map[x]].external = x)
    BY <1>1 DEF Inv, MapsRight
  <1>3. map[x] \in edited \/ map[x] = o
    BY <1>1, <1>2, InboundOrdersAssumption DEF Inv, OneHolder
  <1> QED
    BY <1>1, <1>3 DEF Settled

LEMMA FindStep ==
  ASSUME Inv, NEW h \in Requests, FindExternalIdMap(h)
  PROVE  Inv'
  <1> DEFINE m == map[req[h].external]
  <1>0. req[h].pc = "map" /\ req[h] \in Import /\ req[h].order # None
    BY InboundOrdersAssumption DEF FindExternalIdMap, Inv, TypeOK, Sound
  <1>1. CASE m = None
    <2> DEFINE q == [req[h] EXCEPT !.pc = "insert", !.recovering = req[h].recovering]
    <2>1. Goto(h, "insert")
      BY <1>0, <1>1 DEF FindExternalIdMap
    <2>2. Fits(h, q) /\ req' = [req EXCEPT ![h] = q]
      BY <1>0, <2>1, SamePc, GotoFits
    <2>3. Sound(q) /\ q.key = req[h].key
      BY <1>0, InFlight DEF Inv, Sound, Import
    <2>4. \A o : Mapping(req[h], o) => Mapping(q, o)
      BY <1>0 DEF Mapping, Import
    <2> HIDE DEF q
    <2> QED
      BY <1>0, <2>2, <2>3, <2>4, Walks DEF FindExternalIdMap
  <1>2. CASE m # None /\ m = req[h].order
    <2> DEFINE q == [req[h] EXCEPT !.pc = Mapped(h), !.recovering = req[h].recovering]
    <2>1. Goto(h, Mapped(h)) /\ Mapped(h) \in {"reread", "answer"}
      BY <1>2 DEF FindExternalIdMap, Mapped
    <2>2. Fits(h, q) /\ req' = [req EXCEPT ![h] = q]
      BY <1>0, <2>1, SamePc, GotoFits
    <2>3. Sound(q) /\ q.key = req[h].key
      BY <1>0, <1>2, <2>1, InFlight DEF Inv, Sound, Import
    <2>4. \A o \in made \ edited : Mapping(req[h], o) => Settled(o)
      BY <1>2, MappedElsewhere
    <2> HIDE DEF q
    <2> QED
      BY <1>0, <2>2, <2>3, <2>4, Walks DEF FindExternalIdMap
  <1>3. CASE m # None /\ m # req[h].order
    <2>1. Throws(h)
      BY <1>3 DEF FindExternalIdMap
    <2> QED
      BY <1>0, <1>3, <2>1, MappedElsewhere, ThrowStep DEF FindExternalIdMap
  <1> QED
    BY <1>1, <1>2, <1>3

LEMMA InsertStep ==
  ASSUME Inv, NEW h \in Requests, InsertExternalIdMap(h)
  PROVE  Inv'
  <1> USE DEF Inv
  <1>0. req[h].pc = "insert" /\ req[h] \in Import /\ Sound(req[h])
    BY DEF InsertExternalIdMap, TypeOK
  <1>1. CASE map[req[h].external] # None
    BY <1>0, <1>1, MappedElsewhere, ThrowStep DEF InsertExternalIdMap
  <1>2. ASSUME NEW x \in ExternalIds, x = req[h].external, map[x] = None,
               NEW o \in made, o = req[h].order
        PROVE  Inv'
    <2> DEFINE q == [req[h] EXCEPT !.pc = Mapped(h)]
    <2>1. map' = [map EXCEPT ![x] = o] /\ req' = [req EXCEPT ![h] = q]
          /\ UNCHANGED << event, orders, made, struck, edited >>
      BY <1>2 DEF InsertExternalIdMap, Goto, Becomes
    <2>2. q \in Import /\ q.pc \in {"reread", "answer"} /\ q.key = req[h].key
          /\ q.external = x /\ q.order = o /\ q.result = req[h].result
      BY <1>0, <1>2 DEF Import, Mapped
    <2> HIDE DEF q
    <2>3. map' \in [ExternalIds -> Order] /\ map'[x] = o /\ o # None
          /\ \A y \in ExternalIds : y # x => map'[y] = map[y]
      BY <1>2, <2>1, InboundOrdersAssumption DEF TypeOK, Order
    <2>4. req'[h] = q /\ \A g \in Requests : g # h => req'[g] = req[g]
      BY <2>1 DEF TypeOK
    <2>5. TypeOK'
      <3>1. req' \in [Requests -> Import]
        BY <2>1, <2>2 DEF TypeOK
      <3>2. \A g \in Requests : /\ req'[g].pc = "idle" <=> req'[g].key = None
                                /\ req'[g].key = None <=> req'[g].external = None
        BY <1>0, <1>2, <2>2, <2>4 DEF TypeOK
      <3> QED
        BY <2>1, <2>3, <3>1, <3>2 DEF TypeOK
    <2>6. Alone'
      BY <2>2, <2>4 DEF Alone
    <2>7. OneHolder' /\ MapsRight'
      BY <1>0, <1>2, <2>1, <2>3 DEF OneHolder, MapsRight, Sound
    <2>8. \A g \in Requests : Sound(req[g])'
      <3> TAKE g \in Requests
      <3>1. CASE g = h
        BY <1>0, <1>2, <2>1, <2>2, <2>3, <2>4, <3>1 DEF Sound
      <3>2. CASE g # h
        <4>1. req'[g] = req[g] /\ Sound(req[g]) /\ req[g].external \in External
          BY <2>4, <3>2 DEF TypeOK, Import
        <4>2. req[g].pc \in {"reread", "answer"} => req[g].external # x
          BY <1>2, <2>3, <4>1, InboundOrdersAssumption DEF Sound, TypeOK
        <4>3. req[g].pc \in {"reread", "answer"} => req[g].external \in ExternalIds
          BY <4>1 DEF TypeOK, External
        <4> QED
          BY <2>1, <2>3, <4>1, <4>2, <4>3 DEF Sound
      <3> QED
        BY <3>1, <3>2
    <2>9. \A k \in Keys : Filed(k)'
      BY <1>2, <2>1, <2>3, InboundOrdersAssumption DEF Filed, TypeOK
    <2>10. \A p \in (made \ edited)' : Kept(p)'
      <3> TAKE p \in (made \ edited)'
      <3>1. p \in made \ edited /\ Kept(p) /\ orders[p].external \in ExternalIds
        BY <2>1 DEF Kept
      <3>2. CASE orders[p].external = x
        <4>1. o \in edited \/ o = p
          BY <1>0, <1>2, <3>1, <3>2, InboundOrdersAssumption DEF OneHolder, Sound
        <4> QED
          BY <2>1, <2>3, <3>1, <3>2, <4>1 DEF Kept, Settled
      <3>3. CASE orders[p].external # x
        <4>1. ~Mapping(req[h], p)
          BY <1>0, <1>2, <3>1, <3>3 DEF Sound, Mapping
        <4>2. Settled(p) => Settled(p)'
          BY <2>1, <2>3, <3>1, <3>3 DEF Settled
        <4>3. \A g \in Requests : Mapping(req[g], p) => req'[g] = req[g]
          BY <2>4, <4>1
        <4> QED
          BY <2>1, <3>1, <4>2, <4>3 DEF Kept, Mapping
      <3> QED
        BY <3>2, <3>3
    <2> QED
      BY <2>5, <2>6, <2>7, <2>8, <2>9, <2>10
  <1>3. req[h].external \in ExternalIds /\ req[h].order \in made
    BY <1>0, InFlight DEF Sound
  <1> QED
    BY <1>1, <1>2, <1>3

LEMMA RecoverStep ==
  ASSUME Inv, NEW h \in Requests, TryRecoverExistingOrder(h)
  PROVE  Inv'
  <1>0. req[h].pc = "recover" /\ req[h] \in Import
    BY DEF TryRecoverExistingOrder, Inv, TypeOK
  <1>1. ASSUME NEW o \in Holders(req[h].external),
               Becomes(h, [req[h] EXCEPT !.pc = "map", !.order = o, !.result = "existing"])
        PROVE  Inv'
    <2> DEFINE q == [req[h] EXCEPT !.pc = "map", !.order = o, !.result = "existing"]
    <2>1. o \in made /\ o \in OrderIds /\ orders[o].external = req[h].external
      BY DEF Holders, Inv, TypeOK
    <2>2. Fits(h, q)
      BY <1>0, <2>1, InFlight DEF Inv, Fits, Import, Order, Result
    <2>3. Sound(q) /\ q.key = req[h].key
      BY <1>0, <2>1, InFlight DEF Inv, Import, Sound
    <2>4. req' = [req EXCEPT ![h] = q] /\ ~\E p \in made : Mapping(req[h], p)
      BY <1>0, <1>1 DEF Becomes, Mapping
    <2> HIDE DEF q
    <2> QED
      BY <1>0, <2>2, <2>3, <2>4, Walks DEF TryRecoverExistingOrder
  <1>2. CASE Goto(h, "fail")
    <2>1. req[h].recovering \in BOOLEAN
      BY <1>0, <1>2, SamePc
    <2>2. req' = [req EXCEPT ![h] = [req[h] EXCEPT !.pc = "fail",
                                                   !.recovering = req[h].recovering]]
      BY <1>0, <1>2, SamePc
    <2> QED
      BY <1>0, <2>1, <2>2, PlainStep DEF TryRecoverExistingOrder
  <1> QED
    BY <1>1, <1>2 DEF TryRecoverExistingOrder

LEMMA RereadStep ==
  ASSUME Inv, NEW h \in Requests, Reread(h)
  PROVE  Inv'
  <1> DEFINE o == req[h].order
             q == [req[h] EXCEPT !.pc = "answer", !.seen = orders[o].external]
  <1>1. req[h].pc = "reread" /\ req[h] \in Import /\ Sound(req[h])
    BY DEF Reread, Inv, TypeOK
  <1>2. o \in made /\ o \in OrderIds
    BY <1>1 DEF Sound, Inv, TypeOK
  <1>3. Fits(h, q)
    BY <1>1, <1>2, InFlight DEF Inv, TypeOK, Fits, Import
  <1>4. Sound(q) /\ q.key = req[h].key
    BY <1>1, <1>2, InFlight DEF Inv, Import, Sound
  <1>5. req' = [req EXCEPT ![h] = q] /\ ~\E p \in made : Mapping(req[h], p)
    BY <1>1 DEF Reread, Becomes, Mapping
  <1> HIDE DEF q
  <1> QED
    BY <1>1, <1>3, <1>4, <1>5, Walks DEF Reread

\* The order may have been edited since; the import is past mapping it then.
LEMMA WithoutStep ==
  ASSUME Inv, NEW h \in Requests, OrderWithoutExternalId(h)
  PROVE  Inv'
  <1>1. req[h].pc = "answer" /\ ~\E p \in made : Mapping(req[h], p)
    BY DEF OrderWithoutExternalId, Mapping
  <1>2. CASE req[h].recovering
    BY <1>1, <1>2, ThrowStep DEF OrderWithoutExternalId
  <1>3. CASE ~req[h].recovering
    BY <1>1, <1>3, PlainStep DEF OrderWithoutExternalId, Recovers, Becomes
  <1> QED
    BY <1>2, <1>3

LEMMA SucceededStep ==
  ASSUME Inv, NEW h \in Requests, MarkEventSucceeded(h)
  PROVE  Inv'
  <1>1. req[h].pc = "answer" /\ req[h] \in Import /\ Sound(req[h])
    BY DEF MarkEventSucceeded, Inv, TypeOK
  <1>2. PICK key \in Keys : key = req[h].key
    BY <1>1, InFlight DEF Inv
  <1>3. req' = [req EXCEPT ![h] = Idle] /\ event' = [event EXCEPT ![key] = Succeeded(h)]
        /\ UNCHANGED << orders, made, map, struck, edited >>
    BY <1>2 DEF MarkEventSucceeded, End, Becomes
  <1>4. Succeeded(h) \in Event /\ Succeeded(h).external = req[h].external
        /\ Succeeded(h).order = req[h].order /\ Succeeded(h).result = req[h].result
    BY <1>1, InFlight DEF Inv, Succeeded, Event, Import
  <1>5. event' \in [Keys -> Event] /\ event'[key] = Succeeded(h)
        /\ \A k \in Keys : k # key => event'[k] = event[k]
    BY <1>2, <1>3, <1>4 DEF Inv, TypeOK
  <1>6. Filed(key)'
    BY <1>1, <1>2, <1>3, <1>4, <1>5, InFlight DEF Inv, Filed, Sound
  <1>7. Sound(Idle)' /\ ~\E p \in made : Mapping(req[h], p)
    BY <1>1, IdleTyped DEF Sound, Mapping
  <1> QED
    BY ZenonT(40), <1>2, <1>3, <1>5, <1>6, <1>7, IdleFits, Moves DEF Inv, TypeOK

LEMMA FailedStep ==
  ASSUME Inv, NEW h \in Requests, MarkEventFailed(h)
  PROVE  Inv'
  <1>1. req[h].pc = "fail" /\ req[h] \in Import /\ Sound(req[h])
    BY DEF MarkEventFailed, Inv, TypeOK
  <1>2. PICK key \in Keys : key = req[h].key
    BY <1>1, InFlight DEF Inv
  <1>3. req' = [req EXCEPT ![h] = Idle]
        /\ event' = [event EXCEPT ![key] = [event[key] EXCEPT !.status = "failed"]]
        /\ UNCHANGED << orders, made, map, struck, edited >>
    BY <1>2 DEF MarkEventFailed, End, Becomes
  <1>4. event' \in [Keys -> Event] /\ event'[key].status = "failed"
        /\ \A k \in Keys : k # key => event'[k] = event[k]
    BY <1>2, <1>3 DEF Inv, TypeOK, Event
  <1>5. Sound(Idle)' /\ ~\E p \in made : Mapping(req[h], p)
    BY <1>1, IdleTyped DEF Sound, Mapping
  <1>6. Filed(key)'
    BY <1>4 DEF Filed
  <1> QED
    BY <1>2, <1>3, <1>4, <1>5, <1>6, IdleFits, Moves DEF Inv, TypeOK

-----------------------------------------------------------------------------
(* Failures.                                                               *)

\* After a failure nothing is promised of the orders that the request made.
LEMMA FaultStep ==
  ASSUME Inv, NEW h \in Requests, Fault(h)
  PROVE  Inv'
  <1>1. req[h].pc # "idle" /\ UNCHANGED << event, orders, made, map, edited >>
    BY DEF Fault
  <1>2. PICK key \in Keys : key = req[h].key
    BY <1>1, InFlight DEF Inv
  <1>3. struck' = struck \cup {key}
    BY <1>2 DEF Fault
  <1>4. ASSUME NEW q, Fits(h, q), Sound(q), req' = [req EXCEPT ![h] = q]
        PROVE  Inv'
    <2>1. Sound(q)' /\ Filed(key)'
      BY <1>1, <1>3, <1>4 DEF Inv, Sound, Filed
    <2>2. struck \subseteq struck' /\ struck' \subseteq Keys /\ key \in struck'
          /\ event' \in [Keys -> Event] /\ \A k \in Keys : k # key => event'[k] = event[k]
      BY <1>1, <1>3 DEF Inv, TypeOK
    <2> QED
      BY <1>1, <1>2, <1>4, <2>1, <2>2, Moves
  <1>5. CASE End(h)
    BY <1>4, <1>5, IdleFits, IdleTyped DEF End, Becomes
  <1>6. CASE Throws(h)
    BY <1>1, <1>4, <1>6, ThrowsFits
  <1> QED
    BY <1>5, <1>6 DEF Fault

LEMMA LostStep ==
  ASSUME Inv, NEW h \in Requests, AnswerLost(h)
  PROVE  Inv'
  <1>1. req[h].pc = "answer" /\ req[h] \in Import /\ Sound(req[h])
        /\ UNCHANGED << orders, made, map, edited >>
    BY DEF AnswerLost, Inv, TypeOK
  <1>2. PICK key \in Keys : key = req[h].key
    BY <1>1, InFlight DEF Inv
  <1>3. event' = [event EXCEPT ![key] = Succeeded(h)] /\ struck' = struck \cup {key}
    BY <1>2 DEF AnswerLost
  <1>4. Succeeded(h) \in Event /\ Succeeded(h).external = req[h].external
        /\ Succeeded(h).order = req[h].order /\ Succeeded(h).result = req[h].result
    BY <1>1, InFlight DEF Inv, Succeeded, Event, Import
  <1>5. event' \in [Keys -> Event] /\ event'[key] = Succeeded(h)
        /\ \A k \in Keys : k # key => event'[k] = event[k]
    BY <1>2, <1>3, <1>4 DEF Inv, TypeOK
  <1>6. Filed(key)'
    BY <1>1, <1>2, <1>4, <1>5, InFlight DEF Inv, Filed, Sound
  <1>7. PICK q : /\ Fits(h, q) /\ req' = [req EXCEPT ![h] = q]
                 /\ q.key \in {None, key} /\ q.pc \in {"idle", "fail"}
                 /\ q = Idle \/ q = [req[h] EXCEPT !.pc = "fail"]
    BY <1>1, <1>2, ThrowsFits DEF AnswerLost
  <1>8. Sound(q)'
    <2>1. q.pc \notin {"map", "insert", "reread", "answer"}
      BY <1>7
    <2>2. q.key # None => /\ event'[q.key].status # "none" /\ q.key \in struck'
                          /\ event'[q.key].external = q.external
      <3>1. q.key # None => q.key = key /\ q.external = req[h].external
        BY <1>2, <1>7 DEF Fits
      <3> QED
        BY <1>3, <1>4, <1>5, <3>1 DEF Succeeded
    <2> QED
      BY <2>1, <2>2 DEF Sound
  <1>9. struck \subseteq struck' /\ struck' \subseteq Keys /\ key \in struck'
    BY <1>2, <1>3 DEF Inv, TypeOK
  <1> QED
    BY ZenonT(40), <1>1, <1>2, <1>5, <1>6, <1>7, <1>8, <1>9, Moves

-----------------------------------------------------------------------------
(* Steps that start an import or change the orders.                        *)

LEMMA RegisterStep ==
  ASSUME Inv, NEW h \in Requests, NEW k \in Keys, NEW x \in ExternalIds,
         CreateInboundEvent(h, k, x)
  PROVE  Inv'
  <1> USE DEF Inv
  <1> DEFINE q == [Idle EXCEPT !.pc = "lookup", !.key = k, !.external = x]
             e == [status |-> "processing", external |-> x, order |-> None, result |-> "none"]
  <1>1. req[h].pc = "idle" /\ req' = [req EXCEPT ![h] = q] /\ event' = [event EXCEPT ![k] = e]
        /\ event[k].status = "none" /\ UNCHANGED << orders, made, map, struck, edited >>
    BY DEF CreateInboundEvent, Becomes
  <1>2. q \in Import /\ q.pc = "lookup" /\ q.key = k /\ q.external = x
    BY IdleTyped DEF Idle, Import, External
  <1>3. e \in Event /\ e.status = "processing" /\ e.external = x
    BY DEF Event, External, Order, Result
  <1> HIDE DEF q, e
  <1>4. req'[h] = q /\ \A g \in Requests : g # h => req'[g] = req[g]
    BY <1>1 DEF TypeOK
  <1>5. event' \in [Keys -> Event] /\ event'[k] = e /\ \A l \in Keys : l # k => event'[l] = event[l]
    BY <1>1, <1>3 DEF TypeOK
  <1>6. \A g \in Requests : req[g].key # k
    BY <1>1 DEF Sound, TypeOK
  <1>7. k # None /\ x # None
    BY InboundOrdersAssumption
  <1>8. TypeOK'
    <2>1. req' \in [Requests -> Import]
      BY <1>1, <1>2 DEF TypeOK
    <2>2. \A g \in Requests : /\ req'[g].pc = "idle" <=> req'[g].key = None
                              /\ req'[g].key = None <=> req'[g].external = None
      BY <1>2, <1>4, <1>7 DEF TypeOK
    <2>3. \A l \in Keys : event'[l].status = "succeeded" => event'[l].order # None
      BY <1>3, <1>5 DEF TypeOK
    <2> QED
      BY <1>1, <1>5, <2>1, <2>2, <2>3 DEF TypeOK
  <1>9. Alone'
    BY <1>2, <1>4, <1>6 DEF Alone
  <1>10. OneHolder' /\ MapsRight'
    BY <1>1 DEF OneHolder, MapsRight
  <1>11. \A g \in Requests : Sound(req[g])'
    <2> TAKE g \in Requests
    <2>1. CASE g = h
      BY <1>2, <1>3, <1>4, <1>5, <2>1 DEF Sound
    <2>2. CASE g # h
      <3>1. req'[g] = req[g] /\ Sound(req[g]) /\ req[g].key \in Keys \cup {None}
            /\ req[g].key # k
        BY <1>4, <1>6, <2>2 DEF TypeOK, Import
      <3>2. req[g].key # None => event'[req[g].key] = event[req[g].key]
        BY <1>5, <3>1
      <3> QED
        BY <1>1, <3>1, <3>2 DEF Sound
    <2> QED
      BY <2>1, <2>2
  <1>12. \A l \in Keys : Filed(l)'
    BY <1>1, <1>3, <1>5 DEF Filed
  <1>13. \A o \in (made \ edited)' : Kept(o)'
    <2> TAKE o \in (made \ edited)'
    <2>1. o \in made \ edited /\ Kept(o)
      BY <1>1
    <2>2. \A g \in Requests : Mapping(req[g], o) => req'[g] = req[g]
      BY <1>1, <1>4 DEF Mapping
    <2> QED
      BY <1>1, <2>1, <2>2 DEF Kept, Settled, Mapping
  <1> QED
    BY <1>8, <1>9, <1>10, <1>11, <1>12, <1>13

\* Nothing that was known of an order changes when another one is made.
LEMMA NewOrder ==
  ASSUME Inv, NEW o \in OrderIds, NEW x \in ExternalIds, NEW k \in Keys \cup {None},
         Holders(x) = {}, Creates(o, x, k)
  PROVE  /\ orders' \in [OrderIds -> [external : External, key : Keys \cup {None}]]
         /\ o \notin made /\ made' = made \cup {o} /\ o \notin edited
         /\ orders'[o].external = x /\ orders'[o].key = k
         /\ \A p \in OrderIds : p # o => orders'[p] = orders[p]
         /\ OneHolder'
  <1> DEFINE r == [external |-> x, key |-> k]
  <1>1. r \in [external : External, key : Keys \cup {None}]
    BY DEF External
  <1>2. orders' = [orders EXCEPT ![o] = r] /\ o \notin made /\ made' = made \cup {o}
    BY DEF Creates
  <1>3. r.external = x /\ r.key = k
    OBVIOUS
  <1> HIDE DEF r
  <1>4. /\ orders' \in [OrderIds -> [external : External, key : Keys \cup {None}]]
        /\ orders'[o] = r /\ \A p \in OrderIds : p # o => orders'[p] = orders[p]
    BY <1>1, <1>2 DEF Inv, TypeOK
  <1>5. \A p \in made : p # o /\ p \in OrderIds /\ orders'[p].external # x
    BY <1>2, <1>4 DEF Holders, Inv, TypeOK
  <1>6. OneHolder'
    BY <1>2, <1>3, <1>4, <1>5 DEF Inv, OneHolder
  <1> QED
    BY <1>2, <1>3, <1>4, <1>6 DEF Inv, TypeOK

\* What is left of the invariant when an order is made.
LEMMA NewOrderKeeps ==
  ASSUME Inv, NEW o \in OrderIds, NEW x \in ExternalIds, NEW k \in Keys \cup {None},
         Holders(x) = {}, Creates(o, x, k), UNCHANGED << event, map, struck, edited >>
  PROVE  /\ MapsRight'
         /\ \A q \in Import : Sound(q) => Sound(q)'
         /\ \A l \in Keys : Filed(l)'
         /\ \A p \in made : Settled(p) <=> Settled(p)'
  <1>1. /\ o \notin made /\ made' = made \cup {o}
        /\ \A p \in OrderIds : p # o => orders'[p] = orders[p]
    BY NewOrder
  <1>2. \A p \in made : p # o /\ orders'[p] = orders[p] /\ p \in made'
    BY <1>1 DEF Inv, TypeOK
  <1> QED
    BY <1>1, <1>2 DEF Inv, MapsRight, Sound, Filed, Settled

LEMMA CreateStep ==
  ASSUME Inv, NEW h \in Requests, NEW o \in OrderIds, CreateOrder(h, o)
  PROVE  Inv'
  <1> USE DEF Inv
  <1>0. req[h].pc = "create" /\ req[h] \in Import /\ Sound(req[h])
        /\ UNCHANGED << event, map, struck, edited >>
    BY DEF CreateOrder, TypeOK
  <1>1. CASE Holders(req[h].external) # {}
    <2>1. ~\E p \in made : Mapping(req[h], p)
      BY <1>0 DEF Mapping
    <2> QED
      BY <1>0, <1>1, <2>1, ThrowStep DEF CreateOrder
  <1>2. ASSUME NEW x \in ExternalIds, x = req[h].external, Holders(x) = {},
               NEW k \in Keys, k = req[h].key
        PROVE  Inv'
    <2> DEFINE q == [req[h] EXCEPT !.pc = "map", !.order = o, !.seen = x,
                                   !.result = "created"]
    <2>1. Creates(o, x, k) /\ req' = [req EXCEPT ![h] = q]
      BY <1>2 DEF CreateOrder, Becomes
    <2>2. q \in Import /\ q.pc = "map" /\ q.key = k /\ q.external = x /\ q.order = o
      BY <1>0, <1>2 DEF Import, External, Order, Result
    <2> HIDE DEF q
    <2>3. /\ orders' \in [OrderIds -> [external : External, key : Keys \cup {None}]]
          /\ o \notin made /\ made' = made \cup {o} /\ o \notin edited
          /\ orders'[o].external = x /\ orders'[o].key = k
          /\ \A p \in OrderIds : p # o => orders'[p] = orders[p]
          /\ OneHolder'
      BY <1>2, <2>1, NewOrder
    <2>4. /\ MapsRight'
          /\ \A r \in Import : Sound(r) => Sound(r)'
          /\ \A l \in Keys : Filed(l)'
          /\ \A p \in made : Settled(p) <=> Settled(p)'
      BY <1>0, <1>2, <2>1, NewOrderKeeps
    <2>5. req'[h] = q /\ \A g \in Requests : g # h => req'[g] = req[g]
      BY <2>1 DEF TypeOK
    <2>6. TypeOK'
      <3>1. req' \in [Requests -> Import]
        BY <2>1, <2>2 DEF TypeOK
      <3>2. \A g \in Requests : /\ req'[g].pc = "idle" <=> req'[g].key = None
                                /\ req'[g].key = None <=> req'[g].external = None
        BY <1>2, <2>2, <2>5, InboundOrdersAssumption DEF TypeOK
      <3> QED
        BY <1>0, <2>3, <3>1, <3>2 DEF TypeOK
    <2>7. Alone'
      BY <1>2, <2>2, <2>5 DEF Alone
    <2>8. \A g \in Requests : Sound(req[g])'
      <3> TAKE g \in Requests
      <3>1. CASE g = h
        BY <1>0, <1>2, <2>2, <2>3, <2>5, <3>1 DEF Sound
      <3>2. CASE g # h
        <4> PICK r \in Import : r = req[g]
          BY DEF TypeOK
        <4>1. Sound(r)' /\ req'[g] = r
          BY <2>4, <2>5, <3>2
        <4> QED
          BY <4>1 DEF Sound
      <3> QED
        BY <3>1, <3>2
    <2>9. \A p \in (made \ edited)' : Kept(p)'
      <3> TAKE p \in (made \ edited)'
      <3>1. CASE p = o
        BY <2>2, <2>3, <2>5, <3>1 DEF Kept, Mapping
      <3>2. CASE p # o
        <4>1. p \in made \ edited /\ Kept(p) /\ orders'[p] = orders[p]
          BY <1>0, <2>3, <3>2 DEF TypeOK
        <4>2. \A g \in Requests : Mapping(req[g], p) => req'[g] = req[g]
          BY <1>0, <2>5 DEF Mapping
        <4> QED
          BY <1>0, <2>4, <4>1, <4>2 DEF Kept, Mapping
      <3> QED
        BY <3>1, <3>2
    <2> QED
      BY <2>3, <2>4, <2>6, <2>7, <2>8, <2>9
  <1> QED
    BY <1>0, <1>1, <1>2, InFlight

LEMMA ByHandStep ==
  ASSUME Inv, NEW o \in OrderIds, NEW x \in ExternalIds, CreateByHand(o, x)
  PROVE  Inv'
  <1> USE DEF Inv
  <1>1. Holders(x) = {} /\ Creates(o, x, None)
        /\ UNCHANGED << event, map, req, struck, edited >>
    BY DEF CreateByHand
  <1>2. /\ orders' \in [OrderIds -> [external : External, key : Keys \cup {None}]]
        /\ o \notin made /\ made' = made \cup {o} /\ o \notin edited
        /\ orders'[o].external = x /\ orders'[o].key = None
        /\ \A p \in OrderIds : p # o => orders'[p] = orders[p]
        /\ OneHolder'
    BY <1>1, NewOrder
  <1>3. /\ MapsRight'
        /\ \A r \in Import : Sound(r) => Sound(r)'
        /\ \A l \in Keys : Filed(l)'
        /\ \A p \in made : Settled(p) <=> Settled(p)'
    BY <1>1, NewOrderKeeps
  <1>4. TypeOK' /\ Alone'
    BY <1>1, <1>2 DEF TypeOK, Alone
  <1>5. \A g \in Requests : Sound(req[g])'
    <2> TAKE g \in Requests
    <2> PICK r \in Import : r = req[g]
      BY DEF TypeOK
    <2>1. Sound(r)' /\ req'[g] = r
      BY <1>1, <1>3
    <2> QED
      BY <2>1 DEF Sound
  <1>6. \A p \in (made \ edited)' : Kept(p)'
    <2> TAKE p \in (made \ edited)'
    <2>1. CASE p = o
      BY <1>2, <2>1 DEF Kept
    <2>2. CASE p # o
      <3>1. p \in made \ edited /\ Kept(p) /\ orders'[p] = orders[p]
        BY <1>1, <1>2, <2>2 DEF TypeOK
      <3> QED
        BY <1>1, <1>3, <3>1 DEF Kept, Mapping
    <2> QED
      BY <2>1, <2>2
  <1> QED
    BY <1>2, <1>3, <1>4, <1>5, <1>6

\* Whatever the invariant says of an externalId it says of unedited orders.
LEMMA EditStep ==
  ASSUME Inv, NEW o \in OrderIds, NEW x \in External, EditExternalId(o, x)
  PROVE  Inv'
  <1> USE DEF Inv
  <1>1. o \in made /\ (x = None \/ Holders(x) = {}) /\ edited' = edited \cup {o}
        /\ orders' = [orders EXCEPT ![o] = [orders[o] EXCEPT !.external = x]]
        /\ UNCHANGED << event, made, map, req, struck >>
    BY DEF EditExternalId
  <1>2. /\ orders' \in [OrderIds -> [external : External, key : Keys \cup {None}]]
        /\ orders'[o].external = x
        /\ \A p \in OrderIds : orders'[p].key = orders[p].key
        /\ \A p \in OrderIds : p # o => orders'[p] = orders[p]
    BY <1>1 DEF TypeOK
  <1>3. TypeOK' /\ Alone'
    BY <1>1, <1>2 DEF TypeOK, Alone
  <1>4. \A p \in made : p \in OrderIds
    BY DEF TypeOK
  <1>5. OneHolder'
    BY <1>1, <1>2, <1>4 DEF OneHolder, Holders
  <1>6. MapsRight'
    BY <1>1, <1>2, <1>4 DEF MapsRight
  <1>7. \A g \in Requests : Sound(req[g])'
    BY <1>1, <1>2, <1>4 DEF Sound
  <1>8. \A k \in Keys : Filed(k)'
    BY <1>1, <1>2, <1>4 DEF Filed
  <1>9. \A p \in (made \ edited)' : Kept(p)'
    <2> TAKE p \in (made \ edited)'
    <2>1. p \in made \ edited /\ p # o /\ Kept(p) /\ orders'[p] = orders[p]
      BY <1>1, <1>2, <1>4
    <2> QED
      BY <1>1, <2>1 DEF Kept, Settled, Mapping
  <1> QED
    BY <1>3, <1>5, <1>6, <1>7, <1>8, <1>9

-----------------------------------------------------------------------------
(* The invariant holds.                                                    *)

LEMMA InvStep == Inv /\ [Next]_vars => Inv'
  <1> SUFFICES ASSUME Inv, [Next]_vars PROVE Inv'
    OBVIOUS
  <1>1. ASSUME NEW h \in Requests, Step(h) PROVE Inv'
    BY <1>1, LookupStep, CheckStep, CreateStep, FindStep, InsertStep, SucceededStep, WithoutStep,
       RecoverStep, RereadStep, FailedStep DEF Step
  <1>2. ASSUME NEW h \in Requests, Fault(h) \/ AnswerLost(h) PROVE Inv'
    BY <1>2, FaultStep, LostStep
  <1>3. ASSUME NEW h \in Requests, NEW k \in Keys, NEW x \in ExternalIds,
               CreateInboundEvent(h, k, x)
        PROVE  Inv'
    BY <1>3, RegisterStep
  <1>4. ASSUME NEW o \in OrderIds, NEW x \in ExternalIds, CreateByHand(o, x) PROVE Inv'
    BY <1>4, ByHandStep
  <1>5. ASSUME NEW o \in OrderIds, NEW x \in External, EditExternalId(o, x) PROVE Inv'
    BY <1>5, EditStep
  <1>6. CASE UNCHANGED vars
    BY <1>6 DEF vars, Inv, TypeOK, Alone, OneHolder, MapsRight, Sound, Filed, Kept, Settled,
                Mapping
  <1> QED
    BY <1>1, <1>2, <1>3, <1>4, <1>5, <1>6 DEF Next

LEMMA InvHolds == Spec => []Inv
  BY InvInit, InvStep, PTL DEF Spec

\* The tables and the imports in flight have their types (TypeOK).
THEOREM TypeCorrect == Spec => []TypeOK
  <1>1. Inv => TypeOK
    BY DEF Inv
  <1> QED
    BY <1>1, InvHolds, PTL

\* All successful answers about an externalId name the mapped order, whatever races
\* imports and dispatchers run (AnswersAgree; markEventSucceeded after
\* ensureExternalIdMap).
THEOREM AgreeCorrect == Spec => []AnswersAgree
  <1>1. Inv => AnswersAgree
    BY DEF Inv, Filed, AnswersAgree
  <1> QED
    BY <1>1, InvHolds, PTL

\* At most one import of an externalId answers that it created the order (CreatedOnce;
\* the order remembers its maker).
THEOREM CreatedCorrect == Spec => []CreatedOnce
  <1>1. Inv => CreatedOnce
    BY DEF Inv, Filed, CreatedOnce
  <1> QED
    BY <1>1, InvHolds, PTL

\* A mapping leads to the order that holds the externalId, unless that order was edited
\* (MapFollowsOrders; ensureExternalIdMap maps what its request made or found).
THEOREM AnswersCorrect == Spec => []AnswersTrue
  BY AgreeCorrect, CreatedCorrect, PTL DEF AnswersTrue

THEOREM MapCorrect == Spec => []MapFollowsOrders
  <1>1. Inv => MapFollowsOrders
    BY DEF Inv, MapsRight, MapFollowsOrders, Holders
  <1> QED
    BY <1>1, InvHolds, PTL

\* An import that ended without a failure has left no order unmapped (ImportsMapped;
\* importOrder maps an order before it answers, and fails to only when the externalId is
\* mapped).
THEOREM MappedCorrect == Spec => []ImportsMapped
  <1>1. ASSUME Inv PROVE ImportsMapped
    <2> SUFFICES ASSUME NEW o \in made \ edited, orders[o].key # None,
                        orders[o].key \notin struck,
                        \A h \in Requests : req[h].key # orders[o].key
                 PROVE  map[orders[o].external] = o \/ map[orders[o].external] \in edited
      BY DEF ImportsMapped
    <2> QED
      BY <1>1 DEF Inv, Kept, Settled
  <1> QED
    BY <1>1, InvHolds, PTL

\* A stored answer stays, so that retries of a key get one answer (AnswersStay; an
\* import works only on an event that is in processing, unless a failure hid from it
\* that the answer was stored).
THEOREM StayCorrect == Spec => AnswersStay
  <1>1. ASSUME Inv, [Next]_vars, NEW k \in Keys,
               event[k].status \in {"succeeded", "failed"}, k \notin struck
        PROVE  event'[k] = event[k]
    <2>1. \A h \in Requests : req[h].key # k
      BY <1>1, InboundOrdersAssumption DEF Inv, Sound
    <2>2. ASSUME NEW h \in Requests, Step(h) \/ Fault(h) \/ AnswerLost(h)
          PROVE  event'[k] = event[k]
      <3>1. UNCHANGED event \/ MarkEventSucceeded(h) \/ MarkEventFailed(h) \/ AnswerLost(h)
        BY <2>2 DEF Step, Fault, ResolveExistingMappedOrder, EnsureUniqueOrderKeys, CreateOrder,
                    FindExternalIdMap, InsertExternalIdMap, OrderWithoutExternalId,
                    TryRecoverExistingOrder, Reread
      <3> QED
        BY <1>1, <2>1, <3>1 DEF MarkEventSucceeded, MarkEventFailed, AnswerLost, Inv, TypeOK
    <2>3. ASSUME NEW h \in Requests, NEW l \in Keys, NEW x \in ExternalIds,
                 CreateInboundEvent(h, l, x)
          PROVE  event'[k] = event[k]
      BY <1>1, <2>3 DEF CreateInboundEvent, Inv, TypeOK
    <2>4. ASSUME NEW o \in OrderIds, NEW x \in External,
                 CreateByHand(o, x) \/ EditExternalId(o, x)
          PROVE  event'[k] = event[k]
      BY <2>4 DEF CreateByHand, EditExternalId
    <2>5. ExternalIds \subseteq External
      BY DEF External
    <2> QED
      BY <1>1, <2>2, <2>3, <2>4, <2>5 DEF Next, vars
  <1>2. Inv /\ [Next]_vars =>
          [\A k \in Keys : event[k].status \in {"succeeded", "failed"} /\ k \notin struck =>
             event'[k] = event[k]]_vars
    BY <1>1
  <1> QED
    BY <1>2, InvHolds, PTL DEF Spec, AnswersStay

=============================================================================
