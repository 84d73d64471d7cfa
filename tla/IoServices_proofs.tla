--------------------------- MODULE IoServices_proofs ---------------------------
(***************************************************************************)
(* Proofs about the I/O services.  First IoServiceMgr: for any number of   *)
(* transports, streamers and services, a transport keeps its service,      *)
(* links belong to one service, and blocking services serve one streamer   *)
(* each.  Then OffloadIoService with the inline service it drives: for any *)
(* number of links and clients, in whatever order they are made, no queue  *)
(* overflows, every frame is accounted for, nothing undefined happens      *)
(* while the links have the frames that the clients reserve, and every     *)
(* client is served in order (PerClientFifo).                              *)
(***************************************************************************)
EXTENDS IoServiceMgr, OffloadIoService, Sums_proofs, FiniteSetTheorems

-----------------------------------------------------------------------------
(* The manager of the I/O services: its invariant *)

\* The manager that serves a transport, or will do so in its next phase.
ManagedBy(t, next) ==
    IF KindOf[t] = "CTRL" \/ next = "configure" THEN "inline" ELSE Service[t]
Type(t) == ManagedBy(t, stage[t])

InlineUsers(l) == {t \in Transports : InUse(t) /\ Type(t) = "inline" /\ LinksOf[t] = l}
BlockUsers(e) ==
    {t \in Transports : /\ InUse(t) /\ Type(t) = "block"
                        /\ Streamer[t] = e.streamer /\ Adapter[t] = e.adapter}

ManagerTyped ==
    /\ stage \in [Transports -> {"new", "configure", "configured", "up", "gone"}]
    /\ srv \in [Transports -> Nat]
    /\ \A i \in inline_info : i.srv \in Nat /\ i = [links |-> i.links, srv |-> i.srv, ref |-> i.ref]
    /\ \A e \in block_info :
          /\ e.srv \in Nat
          /\ e = [streamer |-> e.streamer, adapter |-> e.adapter, srv |-> e.srv, count |-> e.count]
    /\ \A i \in poll_info : i.srv \in Nat /\ i = [srv |-> i.srv, count |-> i.count]
    /\ \A i \in poll_links : i = [links |-> i.links, srv |-> i.srv, ref |-> 1]
    /\ IsFiniteSet(served) /\ IsFiniteSet(block_info) /\ IsFiniteSet(poll_info)

\* The main map knows links only while they are used, and their manager.
LinksKnown ==
    \A i \in link_info :
        \E t \in Transports : InUse(t) /\ LinksOf[t] = i.links /\ Type(t) = i.type

\* The inline manager has one entry for links in use, which counts their users.
InlineInfo ==
    /\ \A i \in inline_info :
          /\ InlineUsers(i.links) # {}
          /\ i.ref = Cardinality(InlineUsers(i.links))
          /\ \A t \in InlineUsers(i.links) : srv[t] = i.srv
    /\ \A i, j \in inline_info : i.links = j.links => i = j
    /\ \A t \in Transports :
          InUse(t) /\ Type(t) = "inline" => \E i \in inline_info : i.links = LinksOf[t]

\* The blocking manager has one service for each streamer and adapter, counts
\* its users, and nobody else uses it.
BlockInfo ==
    /\ \A e \in block_info :
          /\ e.count = Cardinality(BlockUsers(e))
          /\ \A t \in BlockUsers(e) : srv[t] = e.srv
          /\ \A t \in Transports : InUse(t) /\ srv[t] = e.srv => t \in BlockUsers(e)
    /\ \A e, f \in block_info :
          (e.streamer = f.streamer /\ e.adapter = f.adapter) \/ e.srv = f.srv => e = f
    /\ \A t \in Transports : InUse(t) /\ Type(t) = "block" => BlockEntries(t) # {}

\* The polling manager knows the links of some of its users, and nobody else
\* uses its services.
PollInfo ==
    /\ \A i \in poll_links :
          \E t \in Transports : /\ InUse(t) /\ Type(t) = "poll"
                                /\ LinksOf[t] = i.links /\ srv[t] = i.srv
    /\ \A i \in poll_info :
          /\ \A t \in Transports : InUse(t) /\ srv[t] = i.srv => Type(t) = "poll"
          /\ \A e \in block_info : e.srv # i.srv

\* Who shares a service.
Sharing ==
    \A t, u \in Transports :
        InUse(t) /\ InUse(u) /\ srv[t] = srv[u] =>
            /\ Type(t) = Type(u)
            /\ Type(t) = "inline" => LinksOf[t] = LinksOf[u]
            /\ Type(t) = "block" => Streamer[t] = Streamer[u]

\* Nothing is attached that is not used.
AttachedOnlyIfUsed ==
    \A p \in served : \E t \in Transports : InUse(t) /\ p = <<srv[t], LinksOf[t]>>

ManagerInv == /\ ManagerTyped /\ LinksKnown /\ InlineInfo /\ BlockInfo /\ PollInfo /\ Sharing
              /\ AttachedWhileUsed /\ AttachedOnlyIfUsed

-----------------------------------------------------------------------------
(* Numbers of services, and links *)

UsedServices ==
    {p[1] : p \in served} \union {srv[t] : t \in Transports}
        \union {e.srv : e \in block_info \union poll_info}

LEMMA UsedFinite == ASSUME ManagerTyped PROVE IsFiniteSet(UsedServices)
<1>1. IsFiniteSet({p[1] : p \in served})
  <2> DEFINE f == [p \in served |-> p[1]]
  <2>1. f \in Surjection(served, {p[1] : p \in served})
    BY DEF Surjection
  <2>. QED
    BY <2>1, FS_Surjection DEF ManagerTyped
<1>2. IsFiniteSet({srv[t] : t \in Transports})
  <2> DEFINE f == [t \in Transports |-> srv[t]]
  <2>1. f \in Surjection(Transports, {srv[t] : t \in Transports})
    BY DEF Surjection
  <2>. QED
    BY <2>1, FS_Surjection, ManagerAssumption
<1>3. IsFiniteSet({e.srv : e \in block_info \union poll_info})
  <2> DEFINE S == block_info \union poll_info
  <2> DEFINE f == [e \in S |-> e.srv]
  <2>1. f \in Surjection(S, {e.srv : e \in S})
    BY DEF Surjection
  <2>2. IsFiniteSet(S)
    BY FS_Union DEF ManagerTyped
  <2>. QED
    BY <2>1, <2>2, FS_Surjection
<1>. QED
  BY <1>1, <1>2, <1>3, FS_Union DEF UsedServices

\* The number of a new service is not in use.
LEMMA Fresh ==
    ASSUME ManagerTyped
    PROVE  /\ NewService \in Nat
           /\ \A t \in Transports : srv[t] # NewService
           /\ \A e \in block_info \union poll_info : e.srv # NewService
<1> DEFINE used == UsedServices
<1> DEFINE unused == (1 .. Cardinality(used) + 1) \ used
<1>1. IsFiniteSet(used) /\ Cardinality(used) \in Nat
  BY UsedFinite, FS_CardinalityType
<1> HIDE DEF used
<1>2. unused # {}
  <2> SUFFICES ASSUME unused = {} PROVE FALSE
    OBVIOUS
  <2>1. 1 .. Cardinality(used) + 1 \in SUBSET used
    OBVIOUS
  <2>2. Cardinality(1 .. Cardinality(used) + 1) = Cardinality(used) + 1
    BY <1>1, FS_Interval
  <2>3. Cardinality(1 .. Cardinality(used) + 1) <= Cardinality(used)
    BY <1>1, <2>1, FS_Subset
  <2>. QED
    BY <1>1, <2>2, <2>3
<1>3. PICK n \in unused : \A m \in unused : n <= m
  <2>1. unused \in SUBSET Nat
    BY <1>1
  <2>. QED
    BY <1>2, <2>1, LeastExists
<1>4. /\ n \in 1 .. Cardinality(used) + 1 /\ n \notin used
      /\ \A m \in 1 .. n - 1 : m \in used
  <2>1. ASSUME NEW m \in 1 .. n - 1 PROVE m \in used
    <3>1. m \in 1 .. Cardinality(used) + 1 /\ ~(n <= m)
      BY <1>1, <1>3
    <3>. QED
      BY <1>3, <3>1
  <2>. QED
    BY <1>3, <2>1
<1>5. NewService = CHOOSE k \in 1 .. Cardinality(used) + 1 :
                      k \notin used /\ \A m \in 1 .. k - 1 : m \in used
  BY DEF NewService, used, UsedServices
<1>6. NewService \in 1 .. Cardinality(used) + 1 /\ NewService \notin used
  BY <1>4, <1>5
<1>7. NewService \in Nat
  BY <1>1, <1>6
<1>. QED
  BY <1>6, <1>7 DEF used, UsedServices

\* Only control transports share links.
LEMMA Unshared ==
    ASSUME NEW t \in Transports, NEW u \in Transports, t # u, LinksOf[t] = LinksOf[u]
    PROVE  KindOf[t] = "CTRL" /\ Type(t) = "inline" /\ Type(u) = "inline"
BY ManagerAssumption DEF Type, ManagedBy

LEMMA TypeOfTransport ==
    ASSUME NEW t \in Transports, NEW next
    PROVE  ManagedBy(t, next) \in {"inline", "block", "poll"}
BY ManagerAssumption DEF ManagedBy

LEMMA UsersFinite ==
    /\ \A l : IsFiniteSet(InlineUsers(l))
    /\ \A e : IsFiniteSet(BlockUsers(e))
BY ManagerAssumption, FS_Subset DEF InlineUsers, BlockUsers
-----------------------------------------------------------------------------
(* A transport joins a service *)

\* t, which uses no service, is given service s.
Join(t, next, s) ==
    t \in Transports /\ next \in {"configure", "up"} /\ s \in Nat /\ ~InUse(t) /\ Joins(t, s, next)

LEMMA JoinFacts ==
    ASSUME ManagerInv, NEW t, NEW next, NEW s, Join(t, next, s)
    PROVE  /\ InUse(t)' /\ srv'[t] = s /\ Type(t)' = ManagedBy(t, next)
           /\ \A u \in Transports \ {t} :
                 InUse(u)' = InUse(u) /\ srv'[u] = srv[u] /\ Type(u)' = Type(u)
           /\ stage' \in [Transports -> {"new", "configure", "configured", "up", "gone"}]
           /\ srv' \in [Transports -> Nat]
BY DEF Join, Joins, ManagerInv, ManagerTyped, InUse, Type, ManagedBy

\* The main map learns of nothing else, the links are attached, and the service
\* is one that t may share.
JoinsWell(t, next, s) ==
    /\ Join(t, next, s)
    /\ link_info' \subseteq link_info \union {[links |-> LinksOf[t], type |-> ManagedBy(t, next)]}
    /\ served' = served \union {<<s, LinksOf[t]>>}
    /\ \A u \in Transports : InUse(u) /\ srv[u] = s =>
          /\ Type(u) = ManagedBy(t, next)
          /\ Type(u) = "inline" => LinksOf[u] = LinksOf[t]
          /\ Type(u) = "block" => Streamer[u] = Streamer[t]

\* Who shares services and what is attached afterwards.
LEMMA JoinShares ==
    ASSUME ManagerInv, NEW t, NEW next, NEW s, JoinsWell(t, next, s)
    PROVE  LinksKnown' /\ Sharing' /\ AttachedWhileUsed' /\ AttachedOnlyIfUsed' /\ IsFiniteSet(served')
<1>1. /\ t \in Transports /\ InUse(t)' /\ srv'[t] = s /\ Type(t)' = ManagedBy(t, next)
      /\ \A u \in Transports \ {t} :
            InUse(u)' = InUse(u) /\ srv'[u] = srv[u] /\ Type(u)' = Type(u)
  BY JoinFacts DEF JoinsWell, Join
<1>2. ~InUse(t)
  BY DEF JoinsWell, Join
<1>3. LinksKnown'
  <2> SUFFICES ASSUME NEW i \in link_info'
               PROVE  \E u \in Transports : InUse(u)' /\ LinksOf[u] = i.links /\ Type(u)' = i.type
    BY DEF LinksKnown
  <2>1. CASE i \in link_info
    BY <1>1, <1>2, <2>1 DEF ManagerInv, LinksKnown
  <2>2. CASE i = [links |-> LinksOf[t], type |-> ManagedBy(t, next)]
    BY <1>1, <2>2
  <2>. QED
    BY <2>1, <2>2 DEF JoinsWell
<1>4. Sharing'
  <2> SUFFICES ASSUME NEW u \in Transports, NEW w \in Transports, InUse(u)', InUse(w)', srv'[u] = srv'[w]
               PROVE  /\ Type(u)' = Type(w)'
                      /\ Type(u)' = "inline" => LinksOf[u] = LinksOf[w]
                      /\ Type(u)' = "block" => Streamer[u] = Streamer[w]
    BY DEF Sharing
  <2>1. CASE u # t /\ w # t
    BY <1>1, <2>1 DEF ManagerInv, Sharing
  <2>2. CASE u = t \/ w = t
    BY <1>1, <2>2 DEF JoinsWell
  <2>. QED
    BY <2>1, <2>2
<1>5. AttachedWhileUsed'
  BY <1>1 DEF ManagerInv, AttachedWhileUsed, JoinsWell
<1>6. AttachedOnlyIfUsed'
  BY <1>1, <1>2 DEF ManagerInv, AttachedOnlyIfUsed, JoinsWell
<1>7. IsFiniteSet(served')
  BY FS_AddElement DEF ManagerInv, ManagerTyped, JoinsWell
<1>. QED
  BY <1>3, <1>4, <1>5, <1>6, <1>7

\* A manager that does not serve the transport is not concerned.
LEMMA JoinKeepsInline ==
    ASSUME ManagerInv, NEW t, NEW next, NEW s, Join(t, next, s),
           ManagedBy(t, next) # "inline", inline_info' = inline_info
    PROVE  InlineInfo'
<1>1. \A l : InlineUsers(l)' = InlineUsers(l)
  BY JoinFacts DEF InlineUsers, Join
<1>2. \A u \in Transports : InUse(u)' /\ Type(u)' = "inline" => u # t /\ InUse(u) /\ Type(u) = "inline"
  BY JoinFacts
<1>3. \A l : \A u \in InlineUsers(l) : srv'[u] = srv[u]
  BY JoinFacts DEF InlineUsers, Join
<1>. QED
  BY <1>1, <1>2, <1>3 DEF ManagerInv, InlineInfo

LEMMA JoinKeepsBlock ==
    ASSUME ManagerInv, NEW t, NEW next, NEW s, Join(t, next, s),
           ManagedBy(t, next) # "block", block_info' = block_info,
           \A e \in block_info : e.srv # s
    PROVE  BlockInfo'
<1>1. \A e : BlockUsers(e)' = BlockUsers(e)
  BY JoinFacts DEF BlockUsers, Join
<1>2. \A u \in Transports : InUse(u)' /\ Type(u)' = "block" => u # t /\ InUse(u) /\ Type(u) = "block"
  BY JoinFacts
<1>3. \A e : \A u \in BlockUsers(e) : srv'[u] = srv[u]
  BY JoinFacts DEF BlockUsers, Join
<1>4. \A e \in block_info : \A u \in Transports : InUse(u)' /\ srv'[u] = e.srv => InUse(u) /\ srv[u] = e.srv
  BY JoinFacts
<1>5. \A u : BlockEntries(u)' = BlockEntries(u)
  BY DEF BlockEntries
<1>. QED
  BY <1>1, <1>2, <1>3, <1>4, <1>5 DEF ManagerInv, BlockInfo

LEMMA JoinKeepsPoll ==
    ASSUME ManagerInv, NEW t, NEW next, NEW s, Join(t, next, s),
           UNCHANGED <<poll_links, poll_info>>,
           ManagedBy(t, next) # "poll" => \A i \in poll_info : i.srv # s,
           \A e \in block_info' : \A i \in poll_info : e.srv # i.srv
    PROVE  PollInfo'
<1>1. /\ Type(t)' = ManagedBy(t, next) /\ srv'[t] = s /\ ~InUse(t)
      /\ \A u \in Transports \ {t} :
            InUse(u)' = InUse(u) /\ srv'[u] = srv[u] /\ Type(u)' = Type(u)
  BY JoinFacts DEF Join
<1>. QED
  BY <1>1 DEF ManagerInv, PollInfo

LEMMA InlineConnectKeeps ==
    ASSUME ManagerInv, NEW t \in Transports, NEW next \in {"configure", "up"}, ~InUse(t),
           ManagedBy(t, next) = "inline", InlineConnect(t, next),
           link_info' \subseteq link_info \union {[links |-> LinksOf[t], type |-> "inline"]}
    PROVE  ManagerInv'
<1> DEFINE l == LinksOf[t]
<1> DEFINE known == {i \in inline_info : i.links = l}
<1>1. UNCHANGED <<block_links, block_info, poll_links, poll_info>>
  BY DEF InlineConnect
<1>2. CASE known # {}
  <2>1. PICK i \in known :
            /\ inline_info' = (inline_info \ {i}) \union {[i EXCEPT !.ref = @ + 1]}
            /\ Joins(t, i.srv, next)
            /\ UNCHANGED served
    BY <1>2 DEF InlineConnect
  <2>2. Join(t, next, i.srv) /\ i \in inline_info /\ i.links = l
    BY <2>1 DEF Join, ManagerInv, ManagerTyped
  <2>3. [i EXCEPT !.ref = @ + 1] = [links |-> l, srv |-> i.srv, ref |-> i.ref + 1]
    <3>1. i = [links |-> i.links, srv |-> i.srv, ref |-> i.ref]
      BY <2>2 DEF ManagerInv, ManagerTyped
    <3>. QED
      BY <2>2, <3>1
  <2> DEFINE j == [links |-> l, srv |-> i.srv, ref |-> i.ref + 1]
  <2>4. PICK w \in Transports : InUse(w) /\ Type(w) = "inline" /\ LinksOf[w] = l /\ srv[w] = i.srv
    BY <2>2 DEF ManagerInv, InlineInfo, InlineUsers
  <2>5. \A u \in Transports : InUse(u) /\ srv[u] = i.srv => Type(u) = "inline" /\ LinksOf[u] = l
    BY <2>4 DEF ManagerInv, Sharing
  <2>6. /\ \A e \in block_info : e.srv # i.srv
        /\ \A k \in poll_info : k.srv # i.srv
    <3>1. ASSUME NEW e \in block_info, e.srv = i.srv PROVE FALSE
      <4>1. w \in BlockUsers(e)
        BY <2>4, <3>1 DEF ManagerInv, BlockInfo
      <4>. QED
        BY <2>4, <4>1 DEF BlockUsers
    <3>2. ASSUME NEW k \in poll_info, k.srv = i.srv PROVE FALSE
      BY <2>4, <3>2 DEF ManagerInv, PollInfo
    <3>. QED
      BY <3>1, <3>2
  <2>7. served' = served \union {<<i.srv, l>>}
    BY <2>1, <2>4 DEF ManagerInv, AttachedWhileUsed
  <2>8. LinksKnown' /\ Sharing' /\ AttachedWhileUsed' /\ AttachedOnlyIfUsed' /\ IsFiniteSet(served')
    <3>1. JoinsWell(t, next, i.srv)
      BY <2>2, <2>5, <2>7 DEF JoinsWell
    <3>. QED
      BY <3>1, JoinShares
  <2>9. BlockInfo' /\ PollInfo'
    BY <1>1, <2>2, <2>6, JoinKeepsBlock, JoinKeepsPoll DEF ManagerInv, PollInfo
  <2>10. InlineUsers(l)' = InlineUsers(l) \union {t} /\ t \notin InlineUsers(l)
    BY <2>2, JoinFacts DEF InlineUsers
  <2>11. \A m : m # l => InlineUsers(m)' = InlineUsers(m)
    BY <2>2, JoinFacts DEF InlineUsers
  <2>12. Cardinality(InlineUsers(l)') = i.ref + 1
    <3>1. IsFiniteSet(InlineUsers(l)) /\ i.ref = Cardinality(InlineUsers(l))
      BY <2>2, UsersFinite DEF ManagerInv, InlineInfo
    <3>2. Cardinality(InlineUsers(l) \union {t}) = Cardinality(InlineUsers(l)) + 1
      BY <2>10, <3>1, FS_AddElement
    <3>. QED
      BY <2>10, <3>1, <3>2
  <2>13. inline_info' = (inline_info \ {i}) \union {j}
    BY <2>1, <2>3
  <2>14. \A u \in Transports \ {t} : srv'[u] = srv[u] /\ InUse(u)' = InUse(u) /\ Type(u)' = Type(u)
    BY <2>2, JoinFacts
  <2>15. srv'[t] = i.srv
    BY <2>2, JoinFacts
  <2>16. ASSUME NEW k \in inline_info'
         PROVE  /\ InlineUsers(k.links)' # {}
                /\ k.ref = Cardinality(InlineUsers(k.links)')
                /\ \A u \in InlineUsers(k.links)' : srv'[u] = k.srv
    <3>1. CASE k = j
      <4>1. k.links = l /\ k.ref = i.ref + 1 /\ k.srv = i.srv
        BY <3>1
      <4>2. \A u \in InlineUsers(l) : u # t /\ u \in Transports /\ srv[u] = i.srv
        BY <2>2, <2>10 DEF ManagerInv, InlineInfo, InlineUsers
      <4>. QED
        BY <2>10, <2>12, <2>14, <2>15, <4>1, <4>2
    <3>2. CASE k \in inline_info /\ k # i
      <4>1. k.links # l
        BY <2>2, <3>2 DEF ManagerInv, InlineInfo
      <4>2. \A u \in InlineUsers(k.links) : u # t /\ u \in Transports
        BY <2>2 DEF InlineUsers, Join
      <4>. QED
        BY <2>11, <2>14, <3>2, <4>1, <4>2 DEF ManagerInv, InlineInfo
    <3>. QED
      BY <2>13, <3>1, <3>2
  <2>17. \A k, m \in inline_info' : k.links = m.links => k = m
    BY <2>2, <2>13 DEF ManagerInv, InlineInfo
  <2>18. ASSUME NEW u \in Transports, InUse(u)', Type(u)' = "inline"
         PROVE  \E k \in inline_info' : k.links = LinksOf[u]
    <3>1. j \in inline_info' /\ j.links = l
      BY <2>13
    <3>2. CASE LinksOf[u] = l
      BY <3>1, <3>2
    <3>3. CASE LinksOf[u] # l
      <4>1. PICK k \in inline_info : k.links = LinksOf[u]
        BY <2>14, <2>18, <3>3 DEF ManagerInv, InlineInfo
      <4>. QED
        BY <2>2, <2>13, <3>3, <4>1
    <3>. QED
      BY <3>2, <3>3
  <2>19. InlineInfo'
    BY <2>16, <2>17, <2>18 DEF InlineInfo
  <2>20. ManagerTyped'
    <3>1. \A k \in inline_info' : k.srv \in Nat /\ k = [links |-> k.links, srv |-> k.srv, ref |-> k.ref]
      BY <2>2, <2>13 DEF ManagerInv, ManagerTyped
    <3>. QED
      BY <1>1, <2>2, <2>8, <3>1, JoinFacts DEF ManagerInv, ManagerTyped
  <2>. QED
    BY <2>8, <2>9, <2>19, <2>20 DEF ManagerInv
<1>3. CASE known = {}
  <2> DEFINE n == NewService
  <2> DEFINE j == [links |-> l, srv |-> n, ref |-> 1]
  <2>1. inline_info' = inline_info \union {j} /\ served' = served \union {<<n, l>>} /\ Joins(t, n, next)
    BY <1>3 DEF InlineConnect
  <2>2. n \in Nat /\ (\A u \in Transports : srv[u] # n) /\ \A e \in block_info \union poll_info : e.srv # n
    BY Fresh DEF ManagerInv
  <2> HIDE DEF n
  <2>3. Join(t, next, n)
    BY <2>1, <2>2 DEF Join
  <2>4. LinksKnown' /\ Sharing' /\ AttachedWhileUsed' /\ AttachedOnlyIfUsed' /\ IsFiniteSet(served')
    <3>1. JoinsWell(t, next, n)
      BY <2>1, <2>2, <2>3 DEF JoinsWell
    <3>. QED
      BY <3>1, JoinShares
  <2>5. BlockInfo' /\ PollInfo'
    BY <1>1, <2>2, <2>3, JoinKeepsBlock, JoinKeepsPoll DEF ManagerInv, PollInfo
  <2>6. InlineUsers(l) = {}
    BY <1>3 DEF ManagerInv, InlineInfo, InlineUsers
  <2>7. InlineUsers(l)' = {t}
    <3>1. InlineUsers(l)' = InlineUsers(l) \union {t}
      BY <2>3, JoinFacts DEF InlineUsers
    <3>. QED
      BY <2>6, <3>1
  <2>8. \A m : m # l => InlineUsers(m)' = InlineUsers(m)
    BY <2>3, JoinFacts DEF InlineUsers
  <2>9. \A u \in Transports \ {t} : srv'[u] = srv[u] /\ InUse(u)' = InUse(u) /\ Type(u)' = Type(u)
    BY <2>3, JoinFacts
  <2>10. srv'[t] = n
    BY <2>3, JoinFacts
  <2>11. ASSUME NEW k \in inline_info'
         PROVE  /\ InlineUsers(k.links)' # {}
                /\ k.ref = Cardinality(InlineUsers(k.links)')
                /\ \A u \in InlineUsers(k.links)' : srv'[u] = k.srv
    <3>1. CASE k = j
      BY <2>7, <2>10, <3>1, FS_Singleton
    <3>2. CASE k \in inline_info
      <4>1. k.links # l
        BY <1>3, <3>2
      <4>2. \A u \in InlineUsers(k.links) : u # t /\ u \in Transports
        BY DEF InlineUsers
      <4>. QED
        BY <2>8, <2>9, <3>2, <4>1, <4>2 DEF ManagerInv, InlineInfo
    <3>. QED
      BY <2>1, <3>1, <3>2
  <2>12. \A k, m \in inline_info' : k.links = m.links => k = m
    BY <1>3, <2>1 DEF ManagerInv, InlineInfo
  <2>13. \A u \in Transports : InUse(u)' /\ Type(u)' = "inline" => \E k \in inline_info' : k.links = LinksOf[u]
    <3>1. j \in inline_info' /\ j.links = l
      BY <2>1
    <3>. QED
      BY <2>1, <2>9, <3>1 DEF ManagerInv, InlineInfo
  <2>14. InlineInfo'
    BY <2>11, <2>12, <2>13 DEF InlineInfo
  <2>15. ManagerTyped'
    <3>1. \A k \in inline_info' : k.srv \in Nat /\ k = [links |-> k.links, srv |-> k.srv, ref |-> k.ref]
      BY <2>1, <2>2 DEF ManagerInv, ManagerTyped
    <3>. QED
      BY <1>1, <2>3, <2>4, <3>1, JoinFacts DEF ManagerInv, ManagerTyped
  <2>. QED
    BY <2>4, <2>5, <2>14, <2>15 DEF ManagerInv
<1>. QED
  BY <1>2, <1>3

LEMMA BlockConnectKeeps ==
    ASSUME ManagerInv, NEW t \in Transports, NEW next \in {"configure", "up"}, ~InUse(t),
           ManagedBy(t, next) = "block", BlockConnect(t, next),
           link_info' \subseteq link_info \union {[links |-> LinksOf[t], type |-> "block"]}
    PROVE  ManagerInv'
<1> DEFINE l == LinksOf[t]
<1>1. UNCHANGED <<inline_info, poll_links, poll_info>>
  BY DEF BlockConnect
<1>2. CASE BlockEntries(t) # {}
  <2>1. PICK e \in BlockEntries(t) :
            /\ block_info' = (block_info \ {e}) \union {[e EXCEPT !.count = @ + 1]}
            /\ served' = served \union {<<e.srv, l>>}
            /\ Joins(t, e.srv, next)
    BY <1>2 DEF BlockConnect
  <2>2. /\ Join(t, next, e.srv) /\ e \in block_info
        /\ e.streamer = Streamer[t] /\ e.adapter = Adapter[t]
    BY <2>1 DEF Join, ManagerInv, ManagerTyped, BlockEntries
  <2> DEFINE j == [streamer |-> e.streamer, adapter |-> e.adapter, srv |-> e.srv, count |-> e.count + 1]
  <2>3. [e EXCEPT !.count = @ + 1] = j
    <3>1. e = [streamer |-> e.streamer, adapter |-> e.adapter, srv |-> e.srv, count |-> e.count]
      BY <2>2 DEF ManagerInv, ManagerTyped
    <3>. QED
      BY <3>1
  <2>4. block_info' = (block_info \ {e}) \union {j}
    BY <2>1, <2>3
  <2>5. \A u \in Transports : InUse(u) /\ srv[u] = e.srv => u \in BlockUsers(e)
    BY <2>2 DEF ManagerInv, BlockInfo
  <2>6. \A u \in BlockUsers(e) : Type(u) = "block" /\ Streamer[u] = Streamer[t] /\ u # t
    BY <2>2 DEF BlockUsers, Join
  <2>7. LinksKnown' /\ Sharing' /\ AttachedWhileUsed' /\ AttachedOnlyIfUsed' /\ IsFiniteSet(served')
    <3>1. \A u \in Transports : InUse(u) /\ srv[u] = e.srv =>
                /\ Type(u) = ManagedBy(t, next)
                /\ Type(u) = "inline" => LinksOf[u] = LinksOf[t]
                /\ Type(u) = "block" => Streamer[u] = Streamer[t]
      BY <2>5, <2>6
    <3>2. JoinsWell(t, next, e.srv)
      BY <2>1, <2>2, <3>1 DEF JoinsWell
    <3>. QED
      BY <3>2, JoinShares
  <2>8. /\ \A k \in poll_info : k.srv # e.srv
        /\ \A f \in block_info' : \A k \in poll_info : f.srv # k.srv
    BY <2>2, <2>4 DEF ManagerInv, PollInfo
  <2>9. InlineInfo' /\ PollInfo'
    BY <1>1, <2>2, <2>8, JoinKeepsInline, JoinKeepsPoll
  <2>10. BlockUsers(e)' = BlockUsers(e) \union {t} /\ BlockUsers(j)' = BlockUsers(e)'
    BY <2>2, JoinFacts DEF BlockUsers
  <2>11. Cardinality(BlockUsers(j)') = e.count + 1
    <3>1. IsFiniteSet(BlockUsers(e)) /\ e.count = Cardinality(BlockUsers(e)) /\ t \notin BlockUsers(e)
      BY <2>2, <2>6, UsersFinite DEF ManagerInv, BlockInfo
    <3>2. Cardinality(BlockUsers(e) \union {t}) = Cardinality(BlockUsers(e)) + 1
      BY <3>1, FS_AddElement
    <3>. QED
      BY <2>10, <3>1, <3>2
  <2>12. /\ srv'[t] = e.srv /\ InUse(t)'
         /\ \A u \in Transports \ {t} : srv'[u] = srv[u] /\ InUse(u)' = InUse(u) /\ Type(u)' = Type(u)
    BY <2>2, JoinFacts
  <2>13. ASSUME NEW f \in block_info'
         PROVE  /\ f.count = Cardinality(BlockUsers(f)')
                /\ \A u \in BlockUsers(f)' : srv'[u] = f.srv
                /\ \A u \in Transports : InUse(u)' /\ srv'[u] = f.srv => u \in BlockUsers(f)'
    <3>1. CASE f = j
      <4>1. f.count = e.count + 1 /\ f.srv = e.srv
        BY <3>1
      <4>2. \A u \in BlockUsers(e) : u \in Transports \ {t} /\ srv[u] = e.srv
        BY <2>2, <2>6 DEF ManagerInv, BlockInfo, BlockUsers
      <4>. QED
        BY <2>5, <2>10, <2>11, <2>12, <3>1, <4>1, <4>2
    <3>2. CASE f \in block_info /\ f # e
      <4>1. ~(f.streamer = Streamer[t] /\ f.adapter = Adapter[t]) /\ f.srv # e.srv
        BY <2>2, <3>2 DEF ManagerInv, BlockInfo
      <4>2. BlockUsers(f)' = BlockUsers(f) /\ \A u \in BlockUsers(f) : u \in Transports \ {t}
        BY <2>2, <4>1, JoinFacts DEF BlockUsers, Join
      <4>3. /\ f.count = Cardinality(BlockUsers(f))
            /\ \A u \in BlockUsers(f) : srv[u] = f.srv
            /\ \A u \in Transports : InUse(u) /\ srv[u] = f.srv => u \in BlockUsers(f)
        BY <3>2 DEF ManagerInv, BlockInfo
      <4>. QED
        BY <2>12, <4>1, <4>2, <4>3
    <3>. QED
      BY <2>4, <3>1, <3>2
  <2>14. \A f, g \in block_info' :
            (f.streamer = g.streamer /\ f.adapter = g.adapter) \/ f.srv = g.srv => f = g
    BY <2>2, <2>4 DEF ManagerInv, BlockInfo
  <2>15. ASSUME NEW u \in Transports, InUse(u)', Type(u)' = "block"
         PROVE  BlockEntries(u)' # {}
    <3>1. CASE Streamer[u] = e.streamer /\ Adapter[u] = e.adapter
      <4>1. j \in BlockEntries(u)'
        BY <2>4, <3>1 DEF BlockEntries
      <4>. QED
        BY <4>1
    <3>2. CASE ~(Streamer[u] = e.streamer /\ Adapter[u] = e.adapter)
      <4>1. PICK f \in block_info : f.streamer = Streamer[u] /\ f.adapter = Adapter[u]
        BY <2>2, <2>12, <2>15, <3>2 DEF ManagerInv, BlockInfo, BlockEntries
      <4>2. f \in BlockEntries(u)'
        BY <2>4, <3>2, <4>1 DEF BlockEntries
      <4>. QED
        BY <4>2
    <3>. QED
      BY <3>1, <3>2
  <2>16. BlockInfo'
    BY <2>13, <2>14, <2>15 DEF BlockInfo
  <2>17. ManagerTyped'
    <3>1. \A f \in block_info' :
            f.srv \in Nat /\ f = [streamer |-> f.streamer, adapter |-> f.adapter, srv |-> f.srv, count |-> f.count]
      BY <2>2, <2>4 DEF ManagerInv, ManagerTyped
    <3>2. IsFiniteSet(block_info')
      <4>1. IsFiniteSet(block_info \ {e})
        BY FS_RemoveElement DEF ManagerInv, ManagerTyped
      <4>. QED
        BY <2>4, <4>1, FS_AddElement
    <3>. QED
      BY <1>1, <2>2, <2>7, <3>1, <3>2, JoinFacts DEF ManagerInv, ManagerTyped
  <2>. QED
    BY <2>7, <2>9, <2>16, <2>17 DEF ManagerInv
<1>3. CASE BlockEntries(t) = {}
  <2> DEFINE n == NewService
  <2> DEFINE j == [streamer |-> Streamer[t], adapter |-> Adapter[t], srv |-> n, count |-> 1]
  <2>1. block_info' = block_info \union {j} /\ served' = served \union {<<n, l>>} /\ Joins(t, n, next)
    BY <1>3 DEF BlockConnect
  <2>2. n \in Nat /\ (\A u \in Transports : srv[u] # n) /\ \A e \in block_info \union poll_info : e.srv # n
    BY Fresh DEF ManagerInv
  <2> HIDE DEF n
  <2>3. Join(t, next, n)
    BY <2>1, <2>2 DEF Join
  <2>4. LinksKnown' /\ Sharing' /\ AttachedWhileUsed' /\ AttachedOnlyIfUsed' /\ IsFiniteSet(served')
    <3>1. JoinsWell(t, next, n)
      BY <2>1, <2>2, <2>3 DEF JoinsWell
    <3>. QED
      BY <3>1, JoinShares
  <2>5. \A f \in block_info' : \A k \in poll_info : f.srv # k.srv
    BY <2>1, <2>2 DEF ManagerInv, PollInfo
  <2>6. InlineInfo' /\ PollInfo'
    BY <1>1, <2>2, <2>3, <2>5, JoinKeepsInline, JoinKeepsPoll
  <2>7. BlockUsers(j)' = {t}
    <3>1. \A u \in Transports : InUse(u) /\ Type(u) = "block"
                => ~(Streamer[u] = Streamer[t] /\ Adapter[u] = Adapter[t])
      BY <1>3 DEF ManagerInv, BlockInfo, BlockEntries
    <3>2. t \in BlockUsers(j)'
      BY <2>3, JoinFacts DEF BlockUsers
    <3>3. \A u \in BlockUsers(j)' : u = t
      BY <2>3, <3>1, JoinFacts DEF BlockUsers
    <3>. QED
      BY <3>2, <3>3
  <2>8. /\ srv'[t] = n /\ InUse(t)'
        /\ \A u \in Transports \ {t} : srv'[u] = srv[u] /\ InUse(u)' = InUse(u) /\ Type(u)' = Type(u)
    BY <2>3, JoinFacts
  <2>9. \A f \in block_info : ~(f.streamer = Streamer[t] /\ f.adapter = Adapter[t])
    BY <1>3 DEF BlockEntries
  <2>10. ASSUME NEW f \in block_info'
         PROVE  /\ f.count = Cardinality(BlockUsers(f)')
                /\ \A u \in BlockUsers(f)' : srv'[u] = f.srv
                /\ \A u \in Transports : InUse(u)' /\ srv'[u] = f.srv => u \in BlockUsers(f)'
    <3>1. CASE f = j
      <4>1. f.count = 1 /\ f.srv = n
        BY <3>1
      <4>2. BlockUsers(f)' = {t}
        <5>1. f.streamer = j.streamer /\ f.adapter = j.adapter
          BY <3>1
        <5>. QED
          BY <2>7, <5>1 DEF BlockUsers
      <4>3. Cardinality({t}) = 1
        BY FS_Singleton
      <4>. QED
        BY <2>2, <2>8, <4>1, <4>2, <4>3
    <3>2. CASE f \in block_info
      <4>1. BlockUsers(f)' = BlockUsers(f) /\ \A u \in BlockUsers(f) : u \in Transports \ {t}
        BY <2>3, <2>9, <3>2, JoinFacts DEF BlockUsers, Join
      <4>2. /\ f.count = Cardinality(BlockUsers(f)) /\ f.srv # n
            /\ \A u \in BlockUsers(f) : srv[u] = f.srv
            /\ \A u \in Transports : InUse(u) /\ srv[u] = f.srv => u \in BlockUsers(f)
        BY <2>2, <3>2 DEF ManagerInv, BlockInfo
      <4>. QED
        BY <2>8, <4>1, <4>2
    <3>. QED
      BY <2>1, <3>1, <3>2
  <2>11. \A f, g \in block_info' :
            (f.streamer = g.streamer /\ f.adapter = g.adapter) \/ f.srv = g.srv => f = g
    BY <2>1, <2>2, <2>9 DEF ManagerInv, BlockInfo
  <2>12. ASSUME NEW u \in Transports, InUse(u)', Type(u)' = "block"
         PROVE  BlockEntries(u)' # {}
    <3>1. CASE u = t
      <4>1. j \in BlockEntries(u)'
        BY <2>1, <3>1 DEF BlockEntries
      <4>. QED
        BY <4>1
    <3>2. CASE u # t
      <4>1. BlockEntries(u) # {}
        BY <2>8, <2>12, <3>2 DEF ManagerInv, BlockInfo
      <4>2. BlockEntries(u) \subseteq BlockEntries(u)'
        BY <2>1 DEF BlockEntries
      <4>. QED
        BY <4>1, <4>2
    <3>. QED
      BY <3>1, <3>2
  <2>13. BlockInfo'
    BY <2>10, <2>11, <2>12 DEF BlockInfo
  <2>14. ManagerTyped'
    <3>1. \A f \in block_info' :
            f.srv \in Nat /\ f = [streamer |-> f.streamer, adapter |-> f.adapter, srv |-> f.srv, count |-> f.count]
      BY <2>1, <2>2 DEF ManagerInv, ManagerTyped
    <3>2. IsFiniteSet(block_info')
      BY <2>1, FS_AddElement DEF ManagerInv, ManagerTyped
    <3>. QED
      BY <1>1, <2>3, <2>4, <3>1, <3>2, JoinFacts DEF ManagerInv, ManagerTyped
  <2>. QED
    BY <2>4, <2>6, <2>13, <2>14 DEF ManagerInv
<1>. QED
  BY <1>2, <1>3

LEMMA PollConnectKeeps ==
    ASSUME ManagerInv, NEW t \in Transports, NEW next \in {"configure", "up"}, ~InUse(t),
           ManagedBy(t, next) = "poll", PollConnect(t, next),
           link_info' \subseteq link_info \union {[links |-> LinksOf[t], type |-> "poll"]}
    PROVE  ManagerInv'
<1> DEFINE l == LinksOf[t]
<1>1. UNCHANGED <<inline_info, block_links, block_info>>
  BY DEF PollConnect
<1>2. CASE Cardinality(poll_info) < NumPoll
  <2> DEFINE n == NewService
  <2> DEFINE j == [links |-> l, srv |-> n, ref |-> 1]
  <2>1. /\ poll_links' = poll_links \union {j}
        /\ poll_info' = poll_info \union {[srv |-> n, count |-> 1]}
        /\ served' = served \union {<<n, l>>} /\ Joins(t, n, next)
    BY <1>2 DEF PollConnect
  <2>2. n \in Nat /\ (\A u \in Transports : srv[u] # n) /\ \A e \in block_info \union poll_info : e.srv # n
    BY Fresh DEF ManagerInv
  <2> HIDE DEF n
  <2>3. Join(t, next, n)
    BY <2>1, <2>2 DEF Join
  <2>4. LinksKnown' /\ Sharing' /\ AttachedWhileUsed' /\ AttachedOnlyIfUsed' /\ IsFiniteSet(served')
    <3>1. JoinsWell(t, next, n)
      BY <2>1, <2>2, <2>3 DEF JoinsWell
    <3>. QED
      BY <3>1, JoinShares
  <2>5. InlineInfo' /\ BlockInfo'
    BY <1>1, <2>2, <2>3, JoinKeepsInline, JoinKeepsBlock
  <2>6. /\ Type(t)' = "poll" /\ srv'[t] = n /\ InUse(t)' /\ ~InUse(t)
        /\ \A u \in Transports \ {t} : srv'[u] = srv[u] /\ InUse(u)' = InUse(u) /\ Type(u)' = Type(u)
    BY <2>3, JoinFacts DEF Join
  <2>7. ASSUME NEW i \in poll_links'
        PROVE  \E u \in Transports : InUse(u)' /\ Type(u)' = "poll" /\ LinksOf[u] = i.links /\ srv'[u] = i.srv
    BY <2>1, <2>6 DEF ManagerInv, PollInfo
  <2>8. ASSUME NEW i \in poll_info'
        PROVE  /\ \A u \in Transports : InUse(u)' /\ srv'[u] = i.srv => Type(u)' = "poll"
               /\ \A e \in block_info' : e.srv # i.srv
    <3>1. CASE i \in poll_info
      BY <1>1, <2>6, <3>1 DEF ManagerInv, PollInfo
    <3>2. CASE i.srv = n
      BY <1>1, <2>2, <2>6, <3>2
    <3>. QED
      BY <2>1, <3>1, <3>2
  <2>9. ManagerTyped'
    <3>1. IsFiniteSet(poll_info')
      BY <2>1, FS_AddElement DEF ManagerInv, ManagerTyped
    <3>2. /\ \A i \in poll_links' : i = [links |-> i.links, srv |-> i.srv, ref |-> 1]
          /\ \A i \in poll_info' : i.srv \in Nat /\ i = [srv |-> i.srv, count |-> i.count]
      BY <2>1, <2>2 DEF ManagerInv, ManagerTyped
    <3>. QED
      BY <1>1, <2>3, <2>4, <3>1, <3>2, JoinFacts DEF ManagerInv, ManagerTyped
  <2>. QED
    BY <2>4, <2>5, <2>7, <2>8, <2>9 DEF ManagerInv, PollInfo
<1>3. CASE ~(Cardinality(poll_info) < NumPoll)
  <2>1. PICK i \in poll_info :
            /\ poll_info' = (poll_info \ {i}) \union {[i EXCEPT !.count = @ + 1]}
            /\ served' = served \union {<<i.srv, l>>} /\ Joins(t, i.srv, next)
            /\ UNCHANGED poll_links
    BY <1>3 DEF PollConnect
  <2> DEFINE j == [srv |-> i.srv, count |-> i.count + 1]
  <2>2. poll_info' = (poll_info \ {i}) \union {j}
    <3>1. i = [srv |-> i.srv, count |-> i.count]
      BY DEF ManagerInv, ManagerTyped
    <3>2. [i EXCEPT !.count = @ + 1] = j
      BY <3>1
    <3>. QED
      BY <2>1, <3>2
  <2>3. Join(t, next, i.srv)
    BY <2>1 DEF Join, ManagerInv, ManagerTyped
  <2>4. /\ \A u \in Transports : InUse(u) /\ srv[u] = i.srv => Type(u) = "poll"
        /\ \A e \in block_info : e.srv # i.srv
    BY DEF ManagerInv, PollInfo
  <2>5. LinksKnown' /\ Sharing' /\ AttachedWhileUsed' /\ AttachedOnlyIfUsed' /\ IsFiniteSet(served')
    <3>1. \A u \in Transports : InUse(u) /\ srv[u] = i.srv =>
                /\ Type(u) = ManagedBy(t, next)
                /\ Type(u) = "inline" => LinksOf[u] = LinksOf[t]
                /\ Type(u) = "block" => Streamer[u] = Streamer[t]
      BY <2>4
    <3>2. JoinsWell(t, next, i.srv)
      BY <2>1, <2>3, <3>1 DEF JoinsWell
    <3>. QED
      BY <3>2, JoinShares
  <2>6. InlineInfo' /\ BlockInfo'
    BY <1>1, <2>3, <2>4, JoinKeepsInline, JoinKeepsBlock
  <2>7. /\ Type(t)' = "poll" /\ srv'[t] = i.srv /\ InUse(t)' /\ ~InUse(t)
        /\ \A u \in Transports \ {t} : srv'[u] = srv[u] /\ InUse(u)' = InUse(u) /\ Type(u)' = Type(u)
    BY <2>3, JoinFacts DEF Join
  <2>8. ASSUME NEW k \in poll_links'
        PROVE  \E u \in Transports : InUse(u)' /\ Type(u)' = "poll" /\ LinksOf[u] = k.links /\ srv'[u] = k.srv
    BY <2>1, <2>7 DEF ManagerInv, PollInfo
  <2>9. ASSUME NEW k \in poll_info'
        PROVE  /\ \A u \in Transports : InUse(u)' /\ srv'[u] = k.srv => Type(u)' = "poll"
               /\ \A e \in block_info' : e.srv # k.srv
    <3>1. PICK m \in poll_info : m.srv = k.srv
      BY <2>2
    <3>. QED
      BY <1>1, <2>7, <3>1 DEF ManagerInv, PollInfo
  <2>10. ManagerTyped'
    <3>1. IsFiniteSet(poll_info')
      <4>1. IsFiniteSet(poll_info \ {i})
        BY FS_RemoveElement DEF ManagerInv, ManagerTyped
      <4>. QED
        BY <2>2, <4>1, FS_AddElement
    <3>2. \A k \in poll_info' : k.srv \in Nat /\ k = [srv |-> k.srv, count |-> k.count]
      BY <2>2 DEF ManagerInv, ManagerTyped
    <3>. QED
      BY <1>1, <2>1, <2>3, <2>5, <3>1, <3>2, JoinFacts DEF ManagerInv, ManagerTyped
  <2>. QED
    BY <2>5, <2>6, <2>8, <2>9, <2>10 DEF ManagerInv, PollInfo
<1>. QED
  BY <1>2, <1>3

LEMMA ConnectLinksKeeps ==
    ASSUME ManagerInv, NEW t \in Transports, NEW next \in {"configure", "up"}, ~InUse(t), NEW kind,
           kind = "CTRL" <=> (KindOf[t] = "CTRL" \/ next = "configure"),
           ConnectLinks(t, kind, next)
    PROVE  ManagerInv'
<1> DEFINE l == LinksOf[t]
<1> DEFINE known == {i \in link_info : i.links = l}
<1> DEFINE type == IF known # {} THEN (CHOOSE i \in known : TRUE).type
                   ELSE IF kind = "CTRL" THEN "inline" ELSE Service[t]
<1>1. type = ManagedBy(t, next)
  <2>1. CASE known # {}
    <3>1. (CHOOSE i \in known : TRUE) \in known
      BY <2>1
    <3>2. PICK i \in known : i = (CHOOSE k \in known : TRUE)
      BY <3>1
    <3>3. PICK u \in Transports : InUse(u) /\ LinksOf[u] = l /\ Type(u) = i.type
      BY <3>2 DEF ManagerInv, LinksKnown
    <3>4. KindOf[t] = "CTRL" /\ Type(u) = "inline"
      BY <3>3, Unshared
    <3>. QED
      BY <2>1, <3>2, <3>3, <3>4 DEF ManagedBy
  <2>2. CASE known = {}
    BY <2>2 DEF ManagedBy
  <2>. QED
    BY <2>1, <2>2
<1>2. /\ CASE type = "inline" -> InlineConnect(t, next)
           [] type = "block" -> BlockConnect(t, next)
           [] type = "poll" -> PollConnect(t, next)
      /\ link_info' = (link_info \ known) \union {[links |-> l, type |-> type]}
  BY DEF ConnectLinks
<1> HIDE DEF known, type
<1>3. link_info' \subseteq link_info \union {[links |-> LinksOf[t], type |-> ManagedBy(t, next)]}
  BY <1>1, <1>2
<1>4. CASE type = "inline"
  BY <1>1, <1>2, <1>3, <1>4, InlineConnectKeeps
<1>5. CASE type = "block"
  BY <1>1, <1>2, <1>3, <1>5, BlockConnectKeeps
<1>6. CASE type = "poll"
  BY <1>1, <1>2, <1>3, <1>6, PollConnectKeeps
<1>. QED
  BY <1>1, <1>4, <1>5, <1>6, TypeOfTransport

LEMMA ConnectKeeps == ASSUME ManagerInv, NEW t \in Transports, ConnectTransport(t) PROVE ManagerInv'
<1>1. CASE KindOf[t] = "CTRL" /\ stage[t] = "new" /\ ConnectLinks(t, "CTRL", "up")
  BY <1>1, ConnectLinksKeeps DEF InUse
<1>2. CASE stage[t] = "new" /\ ConnectLinks(t, "CTRL", "configure")
  BY <1>2, ConnectLinksKeeps DEF InUse
<1>3. CASE stage[t] = "configured" /\ ConnectLinks(t, KindOf[t], "up")
  BY <1>3, ConnectLinksKeeps DEF InUse
<1>. QED
  BY <1>1, <1>2, <1>3 DEF ConnectTransport

-----------------------------------------------------------------------------
(* A transport leaves its service *)

Leave(t, next) ==
    t \in Transports /\ next \in {"configured", "gone"} /\ InUse(t) /\ Leaves(t, next)

LEMMA LeaveFacts ==
    ASSUME ManagerInv, NEW t, NEW next, Leave(t, next)
    PROVE  /\ InUse(t) /\ ~InUse(t)'
           /\ \A u \in Transports \ {t} :
                 InUse(u)' = InUse(u) /\ srv'[u] = srv[u] /\ Type(u)' = Type(u)
           /\ stage' \in [Transports -> {"new", "configure", "configured", "up", "gone"}]
           /\ srv' \in [Transports -> Nat]
           /\ link_info' = {i \in link_info : i.links # LinksOf[t]}
BY DEF Leave, Leaves, ManagerInv, ManagerTyped, InUse, Type, ManagedBy

LEMMA LeaveShares ==
    ASSUME ManagerInv, NEW t, NEW next, Leave(t, next),
           \/ /\ served' = served \ {<<srv[t], LinksOf[t]>>}
              /\ \A u \in Transports \ {t} :
                    InUse(u) /\ LinksOf[u] = LinksOf[t] => srv[u] # srv[t]
           \/ /\ served' = served
              /\ \E u \in Transports \ {t} :
                    InUse(u) /\ LinksOf[u] = LinksOf[t] /\ srv[u] = srv[t]
    PROVE  LinksKnown' /\ Sharing' /\ AttachedWhileUsed' /\ AttachedOnlyIfUsed' /\ IsFiniteSet(served')
<1>1. /\ t \in Transports /\ ~InUse(t)' /\ link_info' = {i \in link_info : i.links # LinksOf[t]}
      /\ \A u \in Transports \ {t} :
            InUse(u)' = InUse(u) /\ srv'[u] = srv[u] /\ Type(u)' = Type(u)
  BY LeaveFacts DEF Leave
<1>2. LinksKnown'
  BY <1>1 DEF ManagerInv, LinksKnown
<1>3. Sharing'
  BY <1>1 DEF ManagerInv, Sharing
<1>4. AttachedWhileUsed'
  BY <1>1 DEF ManagerInv, AttachedWhileUsed
<1>5. AttachedOnlyIfUsed'
  BY <1>1 DEF ManagerInv, AttachedOnlyIfUsed
<1>6. IsFiniteSet(served')
  BY FS_Subset DEF ManagerInv, ManagerTyped
<1>. QED
  BY <1>2, <1>3, <1>4, <1>5, <1>6

LEMMA LeaveKeepsInline ==
    ASSUME ManagerInv, NEW t, NEW next, Leave(t, next), Type(t) # "inline", inline_info' = inline_info
    PROVE  InlineInfo'
<1>1. \A l : InlineUsers(l)' = InlineUsers(l)
  BY LeaveFacts DEF InlineUsers, Leave
<1>2. \A u \in Transports : InUse(u)' /\ Type(u)' = "inline" => InUse(u) /\ Type(u) = "inline"
  BY LeaveFacts
<1>3. \A l : \A u \in InlineUsers(l) : srv'[u] = srv[u]
  BY LeaveFacts DEF InlineUsers
<1>. QED
  BY <1>1, <1>2, <1>3 DEF ManagerInv, InlineInfo

LEMMA LeaveKeepsBlock ==
    ASSUME ManagerInv, NEW t, NEW next, Leave(t, next), Type(t) # "block", block_info' = block_info
    PROVE  BlockInfo'
<1>1. \A e : BlockUsers(e)' = BlockUsers(e)
  BY LeaveFacts DEF BlockUsers, Leave
<1>2. \A u \in Transports : InUse(u)' /\ Type(u)' = "block" => InUse(u) /\ Type(u) = "block"
  BY LeaveFacts
<1>3. \A e : \A u \in BlockUsers(e) : srv'[u] = srv[u]
  BY LeaveFacts DEF BlockUsers
<1>4. \A e \in block_info : \A u \in Transports : InUse(u)' /\ srv'[u] = e.srv => InUse(u) /\ srv[u] = e.srv
  BY LeaveFacts
<1>5. \A u : BlockEntries(u)' = BlockEntries(u)
  BY DEF BlockEntries
<1>. QED
  BY <1>1, <1>2, <1>3, <1>4, <1>5 DEF ManagerInv, BlockInfo

LEMMA LeaveKeepsPoll ==
    ASSUME ManagerInv, NEW t, NEW next, Leave(t, next), Type(t) # "poll",
           UNCHANGED <<poll_links, poll_info>>,
           \A e \in block_info' : \E f \in block_info : e.srv = f.srv
    PROVE  PollInfo'
<1>1. /\ ~InUse(t)'
      /\ \A u \in Transports \ {t} :
            InUse(u)' = InUse(u) /\ srv'[u] = srv[u] /\ Type(u)' = Type(u)
  BY LeaveFacts
<1>. QED
  BY <1>1 DEF ManagerInv, PollInfo

LEMMA LessOne ==
    ASSUME NEW S, IsFiniteSet(S), NEW t \in S
    PROVE  /\ Cardinality(S) \in Nat
           /\ Cardinality(S \ {t}) = Cardinality(S) - 1
           /\ Cardinality(S) - 1 = 0 <=> S = {t}
<1>1. IsFiniteSet(S \ {t}) /\ Cardinality(S \ {t}) = Cardinality(S) - 1
  BY FS_RemoveElement
<1>2. Cardinality(S \ {t}) = 0 <=> S \ {t} = {}
  BY <1>1, FS_EmptySet
<1>3. Cardinality(S) \in Nat
  BY FS_CardinalityType
<1>. QED
  BY <1>1, <1>2, <1>3

\* After a failure nothing is changed any more.
LEMMA ManagerUnchanged == ASSUME ManagerInv, UNCHANGED <<stage, srv, managers, served>> PROVE ManagerInv'
<1>1. /\ ManagerTyped /\ LinksKnown /\ InlineInfo /\ BlockInfo /\ PollInfo /\ Sharing
      /\ AttachedWhileUsed /\ AttachedOnlyIfUsed
  BY DEF ManagerInv
<1>2. /\ UNCHANGED <<stage, srv, served, link_info, inline_info, block_links, block_info>>
      /\ UNCHANGED <<poll_links, poll_info>>
  BY DEF managers
<1>3. ManagerTyped' /\ Sharing' /\ LinksKnown'
  BY <1>1, <1>2 DEF ManagerTyped, Sharing, LinksKnown, InUse, Type, ManagedBy
<1>4. InlineInfo'
  BY <1>1, <1>2 DEF InlineInfo, InlineUsers, InUse, Type, ManagedBy
<1>5. BlockInfo'
  BY <1>1, <1>2 DEF BlockInfo, BlockUsers, BlockEntries, InUse, Type, ManagedBy
<1>6. PollInfo' /\ AttachedWhileUsed' /\ AttachedOnlyIfUsed'
  BY <1>1, <1>2 DEF PollInfo, AttachedWhileUsed, AttachedOnlyIfUsed, InUse, Type, ManagedBy
<1>. QED
  BY <1>3, <1>4, <1>5, <1>6 DEF ManagerInv

LEMMA InlineDisconnectKeeps ==
    ASSUME ManagerInv, NEW t \in Transports, NEW next \in {"configured", "gone"}, InUse(t),
           Type(t) = "inline", InlineDisconnect(t, next)
    PROVE  ManagerInv'
<1> DEFINE l == LinksOf[t]
<1>1. PICK i \in inline_info :
          /\ i.links = l
          /\ IF LastUse(i)
             THEN /\ inline_info' = inline_info \ {i}
                  /\ served' = served \ Detached(i.srv, i.links)
             ELSE /\ inline_info' = (inline_info \ {i}) \union {[i EXCEPT !.ref = @ - 1]}
                  /\ UNCHANGED served
          /\ Leaves(t, next)
          /\ UNCHANGED <<block_links, block_info, poll_links, poll_info>>
  BY DEF InlineDisconnect
<1>2. Leave(t, next)
  BY <1>1 DEF Leave
<1>3. /\ ~InUse(t)'
      /\ \A u \in Transports \ {t} : InUse(u)' = InUse(u) /\ srv'[u] = srv[u] /\ Type(u)' = Type(u)
  BY <1>2, LeaveFacts
<1>4. BlockInfo' /\ PollInfo'
  BY <1>1, <1>2, LeaveKeepsBlock, LeaveKeepsPoll
<1>5. t \in InlineUsers(l) /\ \A u \in InlineUsers(l) : srv[u] = i.srv
  <2>1. InlineInfo
    BY DEF ManagerInv
  <2>2. \A u \in InlineUsers(i.links) : srv[u] = i.srv
    BY <1>1, <2>1 DEF InlineInfo
  <2>3. t \in InlineUsers(l)
    BY DEF InlineUsers
  <2>. QED
    BY <1>1, <2>2, <2>3
<1>6. i.ref = Cardinality(InlineUsers(l)) /\ IsFiniteSet(InlineUsers(l))
  BY <1>1, UsersFinite DEF ManagerInv, InlineInfo
<1>7. InlineUsers(l)' = InlineUsers(l) \ {t}
  BY <1>3 DEF InlineUsers
<1>8. \A m : m # l => InlineUsers(m)' = InlineUsers(m)
  BY <1>3 DEF InlineUsers
<1>9. /\ Cardinality(InlineUsers(l)) \in Nat
      /\ Cardinality(InlineUsers(l)') = i.ref - 1
      /\ i.ref = 1 <=> InlineUsers(l) = {t}
  BY <1>5, <1>6, <1>7, LessOne
<1>10. ASSUME NEW k \in inline_info, k # i
       PROVE  /\ k.links # l
              /\ InlineUsers(k.links)' # {}
              /\ k.ref = Cardinality(InlineUsers(k.links)')
              /\ \A u \in InlineUsers(k.links)' : srv'[u] = k.srv
  <2>1. k.links # l
    BY <1>1, <1>10 DEF ManagerInv, InlineInfo
  <2>2. \A u \in InlineUsers(k.links) : u \in Transports \ {t}
    BY <2>1 DEF InlineUsers
  <2>3. /\ InlineUsers(k.links) # {}
        /\ k.ref = Cardinality(InlineUsers(k.links))
        /\ \A u \in InlineUsers(k.links) : srv[u] = k.srv
    BY DEF ManagerInv, InlineInfo
  <2>. QED
    BY <1>3, <1>8, <2>1, <2>2, <2>3
<1>11. \A u \in Transports : InUse(u)' /\ Type(u)' = "inline" => u # t /\ InUse(u) /\ Type(u) = "inline"
  BY <1>3
<1>12. CASE i.ref = 1
  <2>1. inline_info' = inline_info \ {i} /\ served' = served \ {<<srv[t], l>>}
    BY <1>1, <1>5, <1>12 DEF LastUse, Detached
  <2>2. \A u \in Transports \ {t} : InUse(u) /\ LinksOf[u] = l => srv[u] # srv[t]
    BY <1>9, <1>12 DEF ManagerInv, Sharing, InlineUsers
  <2>3. LinksKnown' /\ Sharing' /\ AttachedWhileUsed' /\ AttachedOnlyIfUsed' /\ IsFiniteSet(served')
    BY <1>2, <2>1, <2>2, LeaveShares
  <2>4. \A k, m \in inline_info' : k.links = m.links => k = m
    BY <2>1 DEF ManagerInv, InlineInfo
  <2>5. ASSUME NEW u \in Transports, InUse(u)', Type(u)' = "inline"
        PROVE  \E k \in inline_info' : k.links = LinksOf[u]
    <3>1. LinksOf[u] # l
      BY <1>9, <1>11, <1>12, <2>5 DEF InlineUsers
    <3>. QED
      BY <1>1, <1>11, <2>1, <2>5, <3>1 DEF ManagerInv, InlineInfo
  <2>6. InlineInfo'
    BY <1>10, <2>1, <2>4, <2>5 DEF InlineInfo
  <2>7. ManagerTyped'
    BY <1>1, <1>2, <2>1, <2>3, LeaveFacts DEF ManagerInv, ManagerTyped
  <2>. QED
    BY <1>4, <2>3, <2>6, <2>7 DEF ManagerInv
<1>13. CASE i.ref # 1
  <2> DEFINE j == [links |-> l, srv |-> i.srv, ref |-> i.ref - 1]
  <2>1. [i EXCEPT !.ref = @ - 1] = j
    <3>1. i = [links |-> i.links, srv |-> i.srv, ref |-> i.ref]
      BY DEF ManagerInv, ManagerTyped
    <3>. QED
      BY <1>1, <3>1
  <2>2. inline_info' = (inline_info \ {i}) \union {j} /\ served' = served
    BY <1>1, <1>13, <2>1 DEF LastUse
  <2>3. PICK w \in InlineUsers(l) : w # t
    BY <1>5, <1>9, <1>13
  <2>4. \E u \in Transports \ {t} : InUse(u) /\ LinksOf[u] = l /\ srv[u] = srv[t]
    BY <1>5, <2>3 DEF InlineUsers
  <2>5. LinksKnown' /\ Sharing' /\ AttachedWhileUsed' /\ AttachedOnlyIfUsed' /\ IsFiniteSet(served')
    BY <1>2, <2>2, <2>4, LeaveShares
  <2>6. ASSUME NEW k \in inline_info'
        PROVE  /\ InlineUsers(k.links)' # {}
               /\ k.ref = Cardinality(InlineUsers(k.links)')
               /\ \A u \in InlineUsers(k.links)' : srv'[u] = k.srv
    <3>1. CASE k = j
      <4>1. k.links = l /\ k.srv = i.srv /\ k.ref = i.ref - 1
        BY <3>1
      <4>2. \A u \in InlineUsers(l) \ {t} : srv'[u] = i.srv
        BY <1>3, <1>5 DEF InlineUsers
      <4>. QED
        BY <1>7, <1>9, <2>3, <4>1, <4>2
    <3>2. CASE k \in inline_info /\ k # i
      BY <1>10, <3>2
    <3>. QED
      BY <2>2, <3>1, <3>2
  <2>7. \A k, m \in inline_info' : k.links = m.links => k = m
    BY <1>1, <2>2 DEF ManagerInv, InlineInfo
  <2>8. \A u \in Transports : InUse(u)' /\ Type(u)' = "inline" => \E k \in inline_info' : k.links = LinksOf[u]
    <3>1. j \in inline_info' /\ j.links = i.links
      BY <1>1, <2>2
    <3>. QED
      BY <1>11, <2>2, <3>1 DEF ManagerInv, InlineInfo
  <2>9. InlineInfo'
    BY <2>6, <2>7, <2>8 DEF InlineInfo
  <2>10. ManagerTyped'
    <3>1. \A k \in inline_info' : k.srv \in Nat /\ k = [links |-> k.links, srv |-> k.srv, ref |-> k.ref]
      BY <2>2 DEF ManagerInv, ManagerTyped
    <3>. QED
      BY <1>1, <1>2, <2>5, <3>1, LeaveFacts DEF ManagerInv, ManagerTyped
  <2>. QED
    BY <1>4, <2>5, <2>9, <2>10 DEF ManagerInv
<1>. QED
  BY <1>12, <1>13

LEMMA BlockDisconnectKeeps ==
    ASSUME ManagerInv, NEW t \in Transports, NEW next \in {"configured", "gone"}, InUse(t),
           Type(t) = "block", BlockDisconnect(t, next)
    PROVE  ManagerInv'
<1> DEFINE l == LinksOf[t]
<1> DEFINE known == {p \in block_links : p[1] = l}
<1>1. CASE known = {}
  BY <1>1, ManagerUnchanged DEF BlockDisconnect, Fails
<1>2. CASE known # {}
  <2> DEFINE Others(e) == {f \in block_info : f.streamer = Streamer[t] /\ f # e}
  <2> DEFINE left(e) == [e EXCEPT !.count = @ - 1]
  <2>1. PICK e \in BlockEntries(t) :
            /\ block_info' = IF left(e).count = 0 /\ \A f \in Others(e) : f.count = 0
                             THEN block_info \ ({e} \union Others(e))
                             ELSE (block_info \ {e}) \union {left(e)}
            /\ served' = served \ Detached(e.srv, l)
            /\ Leaves(t, next)
            /\ UNCHANGED <<inline_info, poll_links, poll_info>>
    BY <1>2 DEF BlockDisconnect
  <2>2. /\ e \in block_info /\ e.streamer = Streamer[t] /\ e.adapter = Adapter[t]
        /\ Leave(t, next)
    BY <2>1 DEF BlockEntries, Leave
  <2>3. t \in BlockUsers(e) /\ srv[t] = e.srv /\ \A u \in BlockUsers(e) : u \in Transports /\ srv[u] = e.srv
    BY <2>2 DEF ManagerInv, BlockInfo, BlockUsers
  <2> DEFINE j == [streamer |-> e.streamer, adapter |-> e.adapter, srv |-> e.srv, count |-> e.count - 1]
  <2>4. left(e) = j
    <3>1. e = [streamer |-> e.streamer, adapter |-> e.adapter, srv |-> e.srv, count |-> e.count]
      BY <2>2 DEF ManagerInv, ManagerTyped
    <3>. QED
      BY <3>1
  <2>5. /\ ~InUse(t)'
        /\ \A u \in Transports \ {t} : InUse(u)' = InUse(u) /\ srv'[u] = srv[u] /\ Type(u)' = Type(u)
    BY <2>2, LeaveFacts
  <2>6. e.count = Cardinality(BlockUsers(e)) /\ IsFiniteSet(BlockUsers(e))
    BY <2>2, UsersFinite DEF ManagerInv, BlockInfo
  <2>7. BlockUsers(e)' = BlockUsers(e) \ {t} /\ BlockUsers(j)' = BlockUsers(e)'
    BY <2>2, <2>5 DEF BlockUsers
  <2>8. /\ Cardinality(BlockUsers(j)') = e.count - 1
        /\ e.count - 1 = 0 <=> BlockUsers(e) = {t}
    <3> DEFINE S == BlockUsers(e)
    <3>1. t \in S /\ IsFiniteSet(S) /\ e.count = Cardinality(S) /\ BlockUsers(j)' = S \ {t}
      BY <2>3, <2>6, <2>7
    <3> HIDE DEF S
    <3>2. Cardinality(S \ {t}) = Cardinality(S) - 1 /\ (Cardinality(S) - 1 = 0 <=> S = {t})
      BY <3>1, LessOne
    <3>3. Cardinality(BlockUsers(j)') = e.count - 1 /\ (e.count - 1 = 0 <=> S = {t})
      BY <3>1, <3>2
    <3>. QED
      BY <3>3 DEF S
  <2>9. LinksKnown' /\ Sharing' /\ AttachedWhileUsed' /\ AttachedOnlyIfUsed' /\ IsFiniteSet(served')
    <3>1. served' = served \ {<<srv[t], l>>}
      BY <2>1, <2>3 DEF Detached
    <3>2. \A u \in Transports \ {t} : LinksOf[u] # l
      BY Unshared
    <3>. QED
      BY <2>2, <3>1, <3>2, LeaveShares
  <2>10. ASSUME NEW f \in block_info, f # e
         PROVE  /\ f.count = Cardinality(BlockUsers(f)')
                /\ \A u \in BlockUsers(f)' : srv'[u] = f.srv
                /\ \A u \in Transports : InUse(u)' /\ srv'[u] = f.srv => u \in BlockUsers(f)'
    <3>1. ~(f.streamer = Streamer[t] /\ f.adapter = Adapter[t])
      BY <2>2, <2>10 DEF ManagerInv, BlockInfo
    <3>2. BlockUsers(f)' = BlockUsers(f) /\ \A u \in BlockUsers(f) : u \in Transports \ {t}
      BY <2>5, <3>1 DEF BlockUsers
    <3>3. /\ f.count = Cardinality(BlockUsers(f))
          /\ \A u \in BlockUsers(f) : srv[u] = f.srv
          /\ \A u \in Transports : InUse(u) /\ srv[u] = f.srv => u \in BlockUsers(f)
      BY DEF ManagerInv, BlockInfo
    <3>. QED
      BY <2>5, <3>2, <3>3
  <2>11. CASE left(e).count = 0 /\ \A f \in Others(e) : f.count = 0
    <3>1. block_info' = block_info \ ({e} \union Others(e))
      BY <2>1, <2>11
    <3>2. BlockUsers(e) = {t}
      <4>1. e.count - 1 = 0
        BY <2>4, <2>11
      <4>. QED
        BY <2>8, <4>1
    <3>3. \A f \in Others(e) : BlockUsers(f) = {}
      <4> SUFFICES ASSUME NEW f \in Others(e) PROVE BlockUsers(f) = {}
        OBVIOUS
      <4>1. f \in block_info /\ Cardinality(BlockUsers(f)) = 0
        BY <2>11 DEF ManagerInv, BlockInfo
      <4>. QED
        BY <4>1, UsersFinite, FS_EmptySet
    <3>4. InlineInfo' /\ PollInfo'
      <4>1. \A f \in block_info' : \E g \in block_info : f.srv = g.srv
        BY <3>1
      <4>2. InlineInfo'
        BY <2>1, <2>2, LeaveKeepsInline
      <4>3. PollInfo'
        BY <2>1, <2>2, <4>1, LeaveKeepsPoll
      <4>. QED
        BY <4>2, <4>3
    <3>5. \A f, g \in block_info' :
              (f.streamer = g.streamer /\ f.adapter = g.adapter) \/ f.srv = g.srv => f = g
      BY <3>1 DEF ManagerInv, BlockInfo
    <3>6. ASSUME NEW u \in Transports, InUse(u)', Type(u)' = "block"
          PROVE  BlockEntries(u)' # {}
      <4>1. u # t /\ InUse(u) /\ Type(u) = "block"
        BY <2>5, <3>6
      <4>2. PICK f \in block_info : f.streamer = Streamer[u] /\ f.adapter = Adapter[u]
        BY <4>1 DEF ManagerInv, BlockInfo, BlockEntries
      <4>3. u \in BlockUsers(f)
        BY <4>1, <4>2 DEF BlockUsers
      <4>4. f \in block_info'
        BY <3>1, <3>2, <3>3, <4>1, <4>3
      <4>5. f \in BlockEntries(u)'
        BY <4>2, <4>4 DEF BlockEntries
      <4>. QED
        BY <4>5
    <3>7. BlockInfo'
      BY <2>10, <3>1, <3>5, <3>6 DEF BlockInfo
    <3>8. ManagerTyped'
      <4>1. IsFiniteSet(block_info')
        BY <3>1, FS_Subset DEF ManagerInv, ManagerTyped
      <4>. QED
        BY <2>1, <2>2, <2>9, <3>1, <4>1, LeaveFacts DEF ManagerInv, ManagerTyped
    <3>. QED
      BY <2>9, <3>4, <3>7, <3>8 DEF ManagerInv
  <2>12. CASE ~(left(e).count = 0 /\ \A f \in Others(e) : f.count = 0)
    <3>1. block_info' = (block_info \ {e}) \union {j}
      BY <2>1, <2>4, <2>12
    <3>2. InlineInfo' /\ PollInfo'
      <4>1. \A f \in block_info' : \E g \in block_info : f.srv = g.srv
        BY <2>2, <3>1
      <4>2. InlineInfo'
        BY <2>1, <2>2, LeaveKeepsInline
      <4>3. PollInfo'
        BY <2>1, <2>2, <4>1, LeaveKeepsPoll
      <4>. QED
        BY <4>2, <4>3
    <3>3. ASSUME NEW f \in block_info'
          PROVE  /\ f.count = Cardinality(BlockUsers(f)')
                 /\ \A u \in BlockUsers(f)' : srv'[u] = f.srv
                 /\ \A u \in Transports : InUse(u)' /\ srv'[u] = f.srv => u \in BlockUsers(f)'
      <4>1. CASE f = j
        <5>1. f.count = e.count - 1 /\ f.srv = e.srv
          BY <4>1
        <5>2. BlockUsers(f)' = BlockUsers(e) \ {t}
          BY <2>7, <4>1
        <5>3. \A u \in Transports : InUse(u) /\ srv[u] = e.srv => u \in BlockUsers(e)
          BY <2>2 DEF ManagerInv, BlockInfo
        <5>4. f.count = Cardinality(BlockUsers(f)')
          BY <2>8, <4>1, <5>1
        <5>. QED
          BY <2>3, <2>5, <5>1, <5>2, <5>3, <5>4
      <4>2. CASE f \in block_info /\ f # e
        BY <2>10, <4>2
      <4>. QED
        BY <3>1, <4>1, <4>2
    <3>4. \A f, g \in block_info' :
              (f.streamer = g.streamer /\ f.adapter = g.adapter) \/ f.srv = g.srv => f = g
      BY <2>2, <3>1 DEF ManagerInv, BlockInfo
    <3>5. ASSUME NEW u \in Transports, InUse(u)', Type(u)' = "block"
          PROVE  BlockEntries(u)' # {}
      <4>1. u # t /\ InUse(u) /\ Type(u) = "block"
        BY <2>5, <3>5
      <4>2. PICK f \in block_info : f.streamer = Streamer[u] /\ f.adapter = Adapter[u]
        BY <4>1 DEF ManagerInv, BlockInfo, BlockEntries
      <4>3. \E g \in block_info' : g.streamer = Streamer[u] /\ g.adapter = Adapter[u]
        <5>1. CASE f = e
          <6>1. j \in block_info' /\ j.streamer = Streamer[u] /\ j.adapter = Adapter[u]
            BY <3>1, <4>2, <5>1
          <6>. QED
            BY <6>1
        <5>2. CASE f # e
          BY <3>1, <4>2, <5>2
        <5>. QED
          BY <5>1, <5>2
      <4>. QED
        BY <4>3 DEF BlockEntries
    <3>6. BlockInfo'
      BY <3>3, <3>4, <3>5 DEF BlockInfo
    <3>7. ManagerTyped'
      <4>1. \A f \in block_info' :
              f.srv \in Nat /\ f = [streamer |-> f.streamer, adapter |-> f.adapter, srv |-> f.srv, count |-> f.count]
        BY <2>2, <3>1 DEF ManagerInv, ManagerTyped
      <4>2. IsFiniteSet(block_info')
        <5>1. IsFiniteSet(block_info \ {e})
          BY FS_RemoveElement DEF ManagerInv, ManagerTyped
        <5>. QED
          BY <3>1, <5>1, FS_AddElement
      <4>. QED
        BY <2>1, <2>2, <2>9, <4>1, <4>2, LeaveFacts DEF ManagerInv, ManagerTyped
    <3>. QED
      BY <2>9, <3>2, <3>6, <3>7 DEF ManagerInv
  <2>. QED
    BY <2>11, <2>12
<1>. QED
  BY <1>1, <1>2

LEMMA PollDisconnectKeeps ==
    ASSUME ManagerInv, NEW t \in Transports, NEW next \in {"configured", "gone"}, InUse(t),
           Type(t) = "poll", PollDisconnect(t, next)
    PROVE  ManagerInv'
<1> DEFINE l == LinksOf[t]
<1> DEFINE known == {i \in poll_links : i.links = l}
<1>1. CASE known = {}
  BY <1>1, ManagerUnchanged DEF PollDisconnect, Fails
<1>2. CASE known # {}
  <2>1. PICK i \in known :
            /\ served' = served \ Detached(i.srv, i.links)
            /\ poll_links' = poll_links \ {i}
            /\ poll_info' = {j \in poll_info : j.srv # i.srv}
            /\ Leaves(t, next)
            /\ UNCHANGED <<inline_info, block_links, block_info>>
    BY <1>2 DEF PollDisconnect
  <2>2. i \in poll_links /\ i.links = l /\ Leave(t, next)
    BY <2>1 DEF Leave
  <2>3. srv[t] = i.srv
    <3>1. PICK u \in Transports : Type(u) = "poll" /\ LinksOf[u] = l /\ srv[u] = i.srv
      BY <2>2 DEF ManagerInv, PollInfo
    <3>2. u = t
      BY <3>1, Unshared
    <3>. QED
      BY <3>1, <3>2
  <2>4. /\ ~InUse(t)'
        /\ \A u \in Transports \ {t} : InUse(u)' = InUse(u) /\ srv'[u] = srv[u] /\ Type(u)' = Type(u)
    BY <2>2, LeaveFacts
  <2>5. LinksKnown' /\ Sharing' /\ AttachedWhileUsed' /\ AttachedOnlyIfUsed' /\ IsFiniteSet(served')
    <3>1. served' = served \ {<<srv[t], l>>}
      BY <2>1, <2>2, <2>3 DEF Detached
    <3>2. \A u \in Transports \ {t} : LinksOf[u] # l
      BY Unshared
    <3>. QED
      BY <2>2, <3>1, <3>2, LeaveShares
  <2>6. InlineInfo' /\ BlockInfo'
    BY <2>1, <2>2, LeaveKeepsInline, LeaveKeepsBlock
  <2>7. ASSUME NEW k \in poll_links'
        PROVE  \E u \in Transports : InUse(u)' /\ Type(u)' = "poll" /\ LinksOf[u] = k.links /\ srv'[u] = k.srv
    <3>1. k \in poll_links /\ k # i
      BY <2>1
    <3>2. PICK u \in Transports : InUse(u) /\ Type(u) = "poll" /\ LinksOf[u] = k.links /\ srv[u] = k.srv
      BY <3>1 DEF ManagerInv, PollInfo
    <3>3. u # t
      <4>1. /\ k = [links |-> k.links, srv |-> k.srv, ref |-> 1]
            /\ i = [links |-> i.links, srv |-> i.srv, ref |-> 1]
        BY <2>2, <3>1 DEF ManagerInv, ManagerTyped
      <4>. QED
        BY <2>2, <2>3, <3>1, <3>2, <4>1
    <3>. QED
      BY <2>4, <3>2, <3>3
  <2>8. ASSUME NEW k \in poll_info'
        PROVE  /\ \A u \in Transports : InUse(u)' /\ srv'[u] = k.srv => Type(u)' = "poll"
               /\ \A e \in block_info' : e.srv # k.srv
    <3>1. k \in poll_info
      BY <2>1
    <3>. QED
      BY <2>1, <2>4, <3>1 DEF ManagerInv, PollInfo
  <2>9. ManagerTyped'
    <3>1. IsFiniteSet(poll_info')
      BY <2>1, FS_Subset DEF ManagerInv, ManagerTyped
    <3>. QED
      BY <2>1, <2>2, <2>5, <3>1, LeaveFacts DEF ManagerInv, ManagerTyped
  <2>. QED
    BY <2>5, <2>6, <2>7, <2>8, <2>9 DEF ManagerInv, PollInfo
<1>. QED
  BY <1>1, <1>2

LEMMA DisconnectLinksKeeps ==
    ASSUME ManagerInv, NEW t \in Transports, NEW next \in {"configured", "gone"}, InUse(t),
           DisconnectLinks(t, next)
    PROVE  ManagerInv'
<1> DEFINE known == {i \in link_info : i.links = LinksOf[t]}
<1>1. CASE known = {}
  BY <1>1, ManagerUnchanged DEF DisconnectLinks, Fails
<1>2. CASE known # {}
  <2>1. PICK i \in known :
            CASE i.type = "inline" -> InlineDisconnect(t, next)
              [] i.type = "block" -> BlockDisconnect(t, next)
              [] i.type = "poll" -> PollDisconnect(t, next)
    BY <1>2 DEF DisconnectLinks
  <2>2. i.type = Type(t)
    <3>1. PICK u \in Transports : LinksOf[u] = LinksOf[t] /\ Type(u) = i.type
      BY <2>1 DEF ManagerInv, LinksKnown
    <3>. QED
      BY <3>1, Unshared
  <2>3. CASE i.type = "inline"
    BY <2>1, <2>2, <2>3, InlineDisconnectKeeps
  <2>4. CASE i.type = "block"
    BY <2>1, <2>2, <2>4, BlockDisconnectKeeps
  <2>5. CASE i.type = "poll"
    BY <2>1, <2>2, <2>5, PollDisconnectKeeps
  <2>. QED
    BY <2>2, <2>3, <2>4, <2>5, TypeOfTransport DEF Type
<1>. QED
  BY <1>1, <1>2

LEMMA DisconnectKeeps == ASSUME ManagerInv, NEW t \in Transports, DisconnectTransport(t) PROVE ManagerInv'
<1>1. CASE stage[t] = "configure" /\ DisconnectLinks(t, "configured")
  BY <1>1, DisconnectLinksKeeps DEF InUse
<1>2. CASE stage[t] = "up" /\ DisconnectLinks(t, "gone")
  BY <1>2, DisconnectLinksKeeps DEF InUse
<1>. QED
  BY <1>1, <1>2 DEF DisconnectTransport

-----------------------------------------------------------------------------
(* The theorems *)

LEMMA ManagerInitKeeps == ManagerInit => ManagerInv
<1> SUFFICES ASSUME ManagerInit PROVE ManagerInv
  OBVIOUS
<1>1. \A t \in Transports : ~InUse(t)
  BY DEF ManagerInit, InUse
<1>2. ManagerTyped
  BY FS_EmptySet DEF ManagerInit, ManagerTyped
<1>3. InlineInfo /\ BlockInfo /\ PollInfo /\ LinksKnown
  BY <1>1 DEF ManagerInit, InlineInfo, BlockInfo, PollInfo, LinksKnown
<1>4. Sharing /\ AttachedWhileUsed /\ AttachedOnlyIfUsed
  BY <1>1 DEF ManagerInit, Sharing, AttachedWhileUsed, AttachedOnlyIfUsed
<1>. QED
  BY <1>2, <1>3, <1>4 DEF ManagerInv

LEMMA ManagerNextKeeps == ManagerInv /\ [ManagerNext]_mgr_vars => ManagerInv'
<1> SUFFICES ASSUME ManagerInv, [ManagerNext]_mgr_vars PROVE ManagerInv'
  OBVIOUS
<1>1. CASE UNCHANGED mgr_vars
  BY <1>1, ManagerUnchanged DEF mgr_vars
<1>2. ASSUME NEW t \in Transports, ConnectTransport(t) PROVE ManagerInv'
  BY <1>2, ConnectKeeps
<1>3. ASSUME NEW t \in Transports, DisconnectTransport(t) PROVE ManagerInv'
  BY <1>3, DisconnectKeeps
<1>. QED
  BY <1>1, <1>2, <1>3 DEF ManagerNext

LEMMA ManagerInvariance == ManagerSpec => []ManagerInv
BY ManagerInitKeeps, ManagerNextKeeps, PTL DEF ManagerSpec

\* A transport never loses its service: whatever other transports disconnect,
\* and whichever manager serves them, the detach calls of io_service_mgr.cpp
\* never take its links away from the service it was given.
THEOREM ServiceKept == ManagerSpec => []AttachedWhileUsed
<1>1. ManagerInv => AttachedWhileUsed
  BY DEF ManagerInv
<1>. QED
  BY <1>1, ManagerInvariance, PTL

\* Links are attached to one I/O service at a time, also when the links of a
\* stream pass from the inline service that configured it to an offload service
\* (connect_links, io_service_mgr.cpp, and make_rx_data_transport).
THEOREM OneService == ManagerSpec => []LinksInOneService
<1>1. ASSUME ManagerInv PROVE LinksInOneService
  <2> SUFFICES ASSUME NEW p \in served, NEW q \in served, p[2] = q[2] PROVE p = q
    BY DEF LinksInOneService
  <2>1. PICK t \in Transports : InUse(t) /\ p = <<srv[t], LinksOf[t]>>
    BY <1>1 DEF ManagerInv, AttachedOnlyIfUsed
  <2>2. PICK u \in Transports : InUse(u) /\ q = <<srv[u], LinksOf[u]>>
    BY <1>1 DEF ManagerInv, AttachedOnlyIfUsed
  <2>3. LinksOf[t] = LinksOf[u]
    BY <2>1, <2>2
  <2>4. CASE t = u
    BY <2>1, <2>2, <2>4
  <2>5. CASE t # u
    <3>1. Type(t) = "inline" /\ Type(u) = "inline"
      BY <2>3, <2>5, Unshared
    <3>2. PICK i \in inline_info : i.links = LinksOf[t]
      BY <1>1, <2>1, <3>1 DEF ManagerInv, InlineInfo
    <3>3. t \in InlineUsers(i.links) /\ u \in InlineUsers(i.links)
      BY <2>1, <2>2, <2>3, <3>1, <3>2 DEF InlineUsers
    <3>4. srv[t] = i.srv /\ srv[u] = i.srv
      BY <1>1, <3>3 DEF ManagerInv, InlineInfo
    <3>. QED
      BY <2>1, <2>2, <2>3, <3>4
  <2>. QED
    BY <2>4, <2>5
<1>. QED
  BY <1>1, ManagerInvariance, PTL

\* Two streamers that asked for blocking offload services never share one, so
\* that a streamer waiting for data does not hold up another
\* (blocking_io_service_mgr).
THEOREM StreamersNotMixed == ManagerSpec => []StreamersApart
<1>1. ASSUME ManagerInv PROVE StreamersApart
  <2> SUFFICES ASSUME NEW t \in Transports, NEW u \in Transports,
                      stage[t] = "up", KindOf[t] # "CTRL", Service[t] = "block",
                      stage[u] = "up", srv[u] = srv[t]
               PROVE  Streamer[u] = Streamer[t]
    BY DEF StreamersApart
  <2>1. InUse(t) /\ InUse(u) /\ Type(t) = "block"
    BY DEF InUse, Type, ManagedBy
  <2>. QED
    BY <1>1, <2>1 DEF ManagerInv, Sharing
<1>. QED
  BY <1>1, ManagerInvariance, PTL

-----------------------------------------------------------------------------
(* The elements of a sequence that are in a set *)

IsOnly(f, s, S, n) ==
    f = [i \in 0 .. n |-> IF i = 0 THEN <<>>
                          ELSE IF s[i] \in S THEN Append(f[i - 1], s[i]) ELSE f[i - 1]]

LEMMA OnlyExists ==
    ASSUME NEW s, NEW S, NEW N \in Nat
    PROVE  \E f : IsOnly(f, s, S, N)
<1>. DEFINE Have == {n \in Nat : \E f : IsOnly(f, s, S, n)}
<1>1. 0 \in Have
  <2>1. IsOnly([i \in 0 .. 0 |-> <<>>], s, S, 0)
    BY DEF IsOnly
  <2>. QED
    BY <2>1
<1>2. ASSUME NEW n \in 0 .. N - 1, n \in Have PROVE n + 1 \in Have
  <2>1. PICK f : IsOnly(f, s, S, n)
    BY <1>2
  <2>. DEFINE new == IF s[n + 1] \in S THEN Append(f[n], s[n + 1]) ELSE f[n]
              g == [i \in 0 .. n + 1 |-> IF i = n + 1 THEN new ELSE f[i]]
  <2>2. ASSUME NEW i \in 0 .. n + 1
        PROVE  g[i] = IF i = 0 THEN <<>>
                      ELSE IF s[i] \in S THEN Append(g[i - 1], s[i]) ELSE g[i - 1]
    <3>1. CASE i = n + 1
      BY <3>1
    <3>2. CASE i # n + 1
      <4>1. i \in 0 .. n
        BY <3>2
      <4>2. f[i] = IF i = 0 THEN <<>>
                   ELSE IF s[i] \in S THEN Append(f[i - 1], s[i]) ELSE f[i - 1]
        BY <2>1, <4>1 DEF IsOnly
      <4>3. g[i] = f[i] /\ (i # 0 => g[i - 1] = f[i - 1])
        BY <4>1
      <4>. QED
        BY <4>2, <4>3
    <3>. QED
      BY <3>1, <3>2
  <2>3. IsOnly(g, s, S, n + 1)
    BY <2>2 DEF IsOnly
  <2>. QED
    BY <2>3
<1>. HIDE DEF Have
<1>3. N \in 0 .. N
  OBVIOUS
<1>4. N \in Have
  BY <1>1, <1>2, <1>3, UpTo
<1>. QED
  BY <1>4 DEF Have

LEMMA OnlyUnfold ==
    ASSUME NEW T, NEW s \in Seq(T), NEW S
    PROVE  \E f : IsOnly(f, s, S, Len(s)) /\ Only(s, S) = f[Len(s)]
<1>1. Len(s) \in Nat
  OBVIOUS
<1>2. \E f : IsOnly(f, s, S, Len(s))
  BY <1>1, OnlyExists
<1>3. Only(s, S) = (CHOOSE f : IsOnly(f, s, S, Len(s)))[Len(s)]
  BY DEF Only, IsOnly
<1>. QED
  BY <1>2, <1>3

LEMMA OnlyStep ==
    ASSUME NEW f, NEW s, NEW S, NEW n \in Nat, IsOnly(f, s, S, n)
    PROVE  /\ f[0] = <<>>
           /\ \A i \in 1 .. n : f[i] = IF s[i] \in S THEN Append(f[i - 1], s[i]) ELSE f[i - 1]
<1>1. f[0] = <<>>
  BY DEF IsOnly
<1>2. ASSUME NEW i \in 1 .. n
      PROVE  f[i] = IF s[i] \in S THEN Append(f[i - 1], s[i]) ELSE f[i - 1]
  <2>1. i \in 0 .. n /\ i # 0
    OBVIOUS
  <2>. QED
    BY <2>1 DEF IsOnly
<1>. QED
  BY <1>1, <1>2

\* What o is to the first n elements of s.
HasOnly(o, s, S, T, n) ==
    /\ o \in Seq(T \intersect S) /\ Len(o) <= n
    /\ \A k \in 1 .. n : s[k] \in S => \E j \in 1 .. Len(o) : o[j] = s[k]
    /\ \A j \in 1 .. Len(o) : \E k \in 1 .. n : o[j] = s[k]

LEMMA OnlyIn ==
    ASSUME NEW T, NEW s \in Seq(T), NEW S, NEW f, IsOnly(f, s, S, Len(s))
    PROVE  \A i \in 0 .. Len(s) : HasOnly(f[i], s, S, T, i)
<1>. DEFINE Have == {i \in 0 .. Len(s) : HasOnly(f[i], s, S, T, i)}
<1>0. Len(s) \in Nat
  OBVIOUS
<1>1. 0 \in Have
  <2>1. f[0] = <<>>
    BY <1>0, OnlyStep
  <2>2. HasOnly(<<>>, s, S, T, 0)
    <3>1. <<>> \in Seq(T \intersect S) /\ Len(<<>>) = 0 /\ 1 .. 0 = {}
      OBVIOUS
    <3>. QED
      BY <3>1 DEF HasOnly
  <2>. QED
    BY <1>0, <2>1, <2>2
<1>2. ASSUME NEW n \in 0 .. Len(s) - 1, n \in Have PROVE n + 1 \in Have
  <2>1. n + 1 \in 1 .. Len(s) /\ n + 1 \in 0 .. Len(s) /\ n \in Nat /\ (n + 1) - 1 = n
    BY <1>0
  <2>2. s[n + 1] \in T
    BY <2>1
  <2>3. /\ f[n] \in Seq(T \intersect S) /\ Len(f[n]) <= n
        /\ \A k \in 1 .. n : s[k] \in S => \E j \in 1 .. Len(f[n]) : f[n][j] = s[k]
        /\ \A j \in 1 .. Len(f[n]) : \E k \in 1 .. n : f[n][j] = s[k]
    BY <1>2 DEF HasOnly
  <2>4. f[n + 1] = IF s[n + 1] \in S THEN Append(f[n], s[n + 1]) ELSE f[n]
    BY <1>0, <2>1, OnlyStep
  <2>. DEFINE g == f[n]
              h == f[n + 1]
              x == s[n + 1]
  <2>5. CASE x \in S
    <3>1. h = Append(g, x) /\ x \in T \intersect S /\ g \in Seq(T \intersect S)
      BY <2>2, <2>3, <2>4, <2>5
    <3>2. /\ h \in Seq(T \intersect S) /\ Len(h) = Len(g) + 1 /\ h[Len(g) + 1] = x
          /\ Len(g) \in Nat /\ \A j \in 1 .. Len(g) : h[j] = g[j]
      <4>. HIDE DEF g, h, x
      <4>. QED
        BY <3>1
    <3>3. Len(g) <= n
      BY <2>3
    <3>4. ASSUME NEW k \in 1 .. n + 1, s[k] \in S PROVE \E j \in 1 .. Len(h) : h[j] = s[k]
      <4>1. CASE k = n + 1
        <5>1. Len(g) + 1 \in 1 .. Len(h) /\ h[Len(g) + 1] = s[k]
          BY <3>2, <4>1
        <5>. QED
          BY <5>1
      <4>2. CASE k # n + 1
        <5>1. k \in 1 .. n
          BY <2>1, <4>2
        <5>2. PICK j \in 1 .. Len(g) : g[j] = s[k]
          BY <2>3, <3>4, <5>1
        <5>3. j \in 1 .. Len(h) /\ h[j] = s[k]
          BY <3>2, <5>2
        <5>. QED
          BY <5>3
      <4>. QED
        BY <4>1, <4>2
    <3>5. ASSUME NEW j \in 1 .. Len(h) PROVE \E k \in 1 .. n + 1 : h[j] = s[k]
      <4>1. CASE j = Len(g) + 1
        BY <2>1, <3>2, <4>1
      <4>2. CASE j # Len(g) + 1
        <5>1. j \in 1 .. Len(g)
          BY <3>2, <4>2
        <5>2. PICK k \in 1 .. n : g[j] = s[k]
          BY <2>3, <5>1
        <5>3. k \in 1 .. n + 1 /\ h[j] = s[k]
          BY <2>1, <3>2, <5>1, <5>2
        <5>. QED
          BY <5>3
      <4>. QED
        BY <4>1, <4>2
    <3>6. Len(h) <= n + 1
      BY <2>1, <3>2, <3>3
    <3>. QED
      BY <2>1, <3>2, <3>4, <3>5, <3>6 DEF HasOnly
  <2>6. CASE x \notin S
    <3>1. f[n + 1] = f[n]
      BY <2>4, <2>6
    <3>2. \A k \in 1 .. n + 1 : s[k] \in S => k \in 1 .. n
      BY <2>1, <2>6
    <3>3. \A k \in 1 .. n : k \in 1 .. n + 1
      BY <2>1
    <3>4. Len(f[n]) <= n + 1
      <4>1. Len(f[n]) \in Nat
        BY <2>3
      <4>. QED
        BY <2>1, <2>3, <4>1
    <3>. QED
      BY <2>1, <2>3, <3>1, <3>2, <3>3, <3>4 DEF HasOnly
  <2>. QED
    BY <2>5, <2>6
<1>3. 0 .. Len(s) \subseteq Have
  <2>. HIDE DEF Have
  <2>. QED
    BY <1>0, <1>1, <1>2, UpTo
<1>. QED
  BY <1>3

LEMMA OnlyType ==
    ASSUME NEW T, NEW s \in Seq(T), NEW S
    PROVE  /\ Only(s, S) \in Seq(T \intersect S) /\ Only(s, S) \in Seq(T)
           /\ Len(Only(s, S)) <= Len(s)
           /\ ToSet(Only(s, S)) = ToSet(s) \intersect S
<1>1. PICK f : IsOnly(f, s, S, Len(s)) /\ Only(s, S) = f[Len(s)]
  BY OnlyUnfold
<1>2. Len(s) \in 0 .. Len(s) /\ DOMAIN s = 1 .. Len(s)
  OBVIOUS
<1>. DEFINE o == Only(s, S)
<1>3. HasOnly(o, s, S, T, Len(s))
  BY <1>1, <1>2, OnlyIn
<1>. HIDE DEF o
<1>4. DOMAIN o = 1 .. Len(o) /\ (\A j \in 1 .. Len(o) : o[j] \in S) /\ o \in Seq(T)
  <2>1. \A j \in 1 .. Len(o) : o[j] \in T \intersect S
    BY <1>3 DEF HasOnly
  <2>2. Seq(T \intersect S) \subseteq Seq(T)
    OBVIOUS
  <2>. QED
    BY <1>3, <2>1, <2>2 DEF HasOnly
<1>5. ToSet(o) = ToSet(s) \intersect S
  <2>1. ASSUME NEW x \in ToSet(o) PROVE x \in ToSet(s) /\ x \in S
    <3>1. PICK j \in 1 .. Len(o) : x = o[j]
      BY <1>4 DEF ToSet
    <3>2. PICK k \in 1 .. Len(s) : o[j] = s[k]
      BY <1>3 DEF HasOnly
    <3>. QED
      BY <1>2, <1>4, <3>1, <3>2 DEF ToSet
  <2>2. ASSUME NEW x \in ToSet(s), x \in S PROVE x \in ToSet(o)
    <3>1. PICK k \in 1 .. Len(s) : x = s[k]
      BY <1>2 DEF ToSet
    <3>2. PICK j \in 1 .. Len(o) : o[j] = s[k]
      BY <1>3, <2>2, <3>1 DEF HasOnly
    <3>. QED
      BY <1>4, <3>1, <3>2 DEF ToSet
  <2>. QED
    BY <2>1, <2>2
<1>. QED
  BY <1>3, <1>4, <1>5 DEF o, HasOnly

LEMMA OnlyEmpty == ASSUME NEW S PROVE Only(<<>>, S) = <<>>
<1>1. <<>> \in Seq({}) /\ Len(<<>>) = 0
  OBVIOUS
<1>2. PICK f : IsOnly(f, <<>>, S, 0) /\ Only(<<>>, S) = f[0]
  BY <1>1, OnlyUnfold
<1>. QED
  BY <1>2, OnlyStep

\* Sequences with a prefix in common.
LEMMA OnlyPrefix ==
    ASSUME NEW s, NEW t, NEW S, NEW f, NEW g, NEW n \in Nat, NEW m \in Nat, NEW N \in Nat,
           IsOnly(f, s, S, n), IsOnly(g, t, S, m), N <= n, N <= m,
           \A i \in 1 .. N : s[i] = t[i]
    PROVE  f[N] = g[N]
<1>. DEFINE Have == {i \in 0 .. N : f[i] = g[i]}
<1>1. 0 \in Have
  BY OnlyStep
<1>2. ASSUME NEW i \in 0 .. N - 1, i \in Have PROVE i + 1 \in Have
  <2>1. i + 1 \in 1 .. n /\ i + 1 \in 1 .. m /\ i + 1 \in 1 .. N /\ (i + 1) - 1 = i
    OBVIOUS
  <2>2. f[i + 1] = IF s[i + 1] \in S THEN Append(f[i], s[i + 1]) ELSE f[i]
    BY <2>1, OnlyStep
  <2>3. g[i + 1] = IF t[i + 1] \in S THEN Append(g[i], t[i + 1]) ELSE g[i]
    BY <2>1, OnlyStep
  <2>. QED
    BY <1>2, <2>1, <2>2, <2>3
<1>3. 0 .. N \subseteq Have
  <2>. HIDE DEF Have
  <2>. QED
    BY <1>1, <1>2, UpTo
<1>. QED
  BY <1>3

LEMMA OnlyAppend ==
    ASSUME NEW T, NEW s \in Seq(T), NEW x \in T, NEW S
    PROVE  Only(Append(s, x), S) = IF x \in S THEN Append(Only(s, S), x) ELSE Only(s, S)
<1>. DEFINE t == Append(s, x)
<1>1. /\ t \in Seq(T) /\ Len(t) = Len(s) + 1 /\ Len(s) \in Nat /\ t[Len(s) + 1] = x
      /\ \A i \in 1 .. Len(s) : s[i] = t[i]
  OBVIOUS
<1>. HIDE DEF t
<1>2. PICK f : IsOnly(f, s, S, Len(s)) /\ Only(s, S) = f[Len(s)]
  BY OnlyUnfold
<1>3. PICK g : IsOnly(g, t, S, Len(t)) /\ Only(t, S) = g[Len(t)]
  BY <1>1, OnlyUnfold
<1>4. f[Len(s)] = g[Len(s)]
  <2>1. Len(t) \in Nat /\ Len(s) <= Len(s) /\ Len(s) <= Len(t)
    BY <1>1
  <2>. QED
    BY <1>1, <1>2, <1>3, <2>1, OnlyPrefix
<1>5. g[Len(s) + 1] = IF x \in S THEN Append(g[Len(s)], x) ELSE g[Len(s)]
  <2>1. Len(t) \in Nat /\ Len(s) + 1 \in 1 .. Len(t) /\ (Len(s) + 1) - 1 = Len(s)
    BY <1>1
  <2>2. g[Len(s) + 1] = IF t[Len(s) + 1] \in S THEN Append(g[(Len(s) + 1) - 1], t[Len(s) + 1])
                        ELSE g[(Len(s) + 1) - 1]
    BY <1>3, <2>1, OnlyStep
  <2>. QED
    BY <1>1, <2>1, <2>2
<1>. QED
  BY <1>1, <1>2, <1>3, <1>4, <1>5 DEF t

LEMMA OnlyHead ==
    ASSUME NEW T, NEW s \in Seq(T), s # <<>>, NEW S
    PROVE  Only(s, S) = IF Head(s) \in S THEN <<Head(s)>> \o Only(Tail(s), S)
                        ELSE Only(Tail(s), S)
<1>. DEFINE t == Tail(s)
            x == Head(s)
            start == IF x \in S THEN <<x>> ELSE <<>>
<1>1. /\ t \in Seq(T) /\ Len(s) = 1 + Len(t) /\ Len(t) \in Nat /\ x = s[1] /\ x \in T
      /\ \A i \in 1 .. Len(t) : t[i] = s[i + 1]
  OBVIOUS
<1>. HIDE DEF t, x
<1>2. PICK f : IsOnly(f, s, S, Len(s)) /\ Only(s, S) = f[Len(s)]
  BY OnlyUnfold
<1>3. PICK g : IsOnly(g, t, S, Len(t)) /\ Only(t, S) = g[Len(t)]
  BY <1>1, OnlyUnfold
<1>. DEFINE Have == {i \in 0 .. Len(t) : f[i + 1] = start \o g[i]}
<1>0. start \in Seq(T) /\ (x \in S => start = <<x>>) /\ (x \notin S => start = <<>>)
  BY <1>1
<1>. HIDE DEF start
<1>4. 0 \in Have
  <2>1. Len(s) \in Nat /\ 1 \in 1 .. Len(s) /\ 1 - 1 = 0 /\ 0 + 1 = 1
    BY <1>1
  <2>2. f[1] = IF s[1] \in S THEN Append(f[1 - 1], s[1]) ELSE f[1 - 1]
    BY <1>2, <2>1, OnlyStep
  <2>3. f[0] = <<>> /\ g[0] = <<>>
    BY <1>1, <1>2, <1>3, <2>1, OnlyStep
  <2>4. f[1] = start
    <3>1. Append(<<>>, x) = <<x>>
      OBVIOUS
    <3>. QED
      BY <1>0, <1>1, <2>1, <2>2, <2>3, <3>1
  <2>5. start = start \o <<>>
    BY <1>0
  <2>6. f[0 + 1] = start \o g[0]
    BY <2>1, <2>3, <2>4, <2>5
  <2>7. 0 \in 0 .. Len(t)
    BY <1>1
  <2>. QED
    BY <2>6, <2>7
<1>5. ASSUME NEW i \in 0 .. Len(t) - 1, i \in Have PROVE i + 1 \in Have
  <2>1. /\ i \in 0 .. Len(t) /\ i + 1 \in 1 .. Len(t) /\ (i + 1) + 1 \in 1 .. Len(s) /\ Len(s) \in Nat
        /\ (i + 1) - 1 = i /\ ((i + 1) + 1) - 1 = i + 1
    BY <1>1
  <2>2. f[(i + 1) + 1] = IF s[(i + 1) + 1] \in S THEN Append(f[i + 1], s[(i + 1) + 1]) ELSE f[i + 1]
    BY <1>2, <2>1, OnlyStep
  <2>3. g[i + 1] = IF t[i + 1] \in S THEN Append(g[i], t[i + 1]) ELSE g[i]
    BY <1>1, <1>3, <2>1, OnlyStep
  <2>4. t[i + 1] = s[(i + 1) + 1] /\ t[i + 1] \in T
    BY <1>1, <2>1
  <2>5. f[i + 1] = start \o g[i]
    BY <1>5
  <2>6. g[i] \in Seq(T)
    <3>1. g[i] \in Seq(T \intersect S)
      BY <1>1, <1>3, <2>1, OnlyIn DEF HasOnly
    <3>. QED
      BY <3>1
  <2>8. Append(start \o g[i], t[i + 1]) = start \o Append(g[i], t[i + 1])
    <3>. DEFINE gi == g[i]
                y == t[i + 1]
    <3>1. gi \in Seq(T) /\ y \in T
      BY <2>4, <2>6
    <3>. HIDE DEF gi, y
    <3>2. Append(start \o gi, y) = (start \o gi) \o <<y>> /\ Append(gi, y) = gi \o <<y>>
      BY <1>0, <3>1, AppendIsConcat
    <3>3. (start \o gi) \o <<y>> = start \o (gi \o <<y>>)
      BY <1>0, <3>1, ConcatAssociative
    <3>. QED
      BY <3>2, <3>3 DEF gi, y
  <2>9. f[(i + 1) + 1] = start \o g[i + 1]
    BY <2>2, <2>3, <2>4, <2>5, <2>8
  <2>. QED
    BY <2>1, <2>9
<1>6. 0 .. Len(t) \subseteq Have
  <2>. HIDE DEF Have
  <2>. QED
    BY <1>1, <1>4, <1>5, UpTo
<1>7. f[Len(t) + 1] = start \o g[Len(t)]
  <2>1. Len(t) \in Nat /\ Len(t) \in 0 .. Len(t)
    BY <1>1
  <2>2. Len(t) \in Have
    BY <1>6, <2>1
  <2>. QED
    BY <2>2
<1>8. Only(s, S) = start \o Only(t, S)
  BY <1>1, <1>2, <1>3, <1>7
<1>9. Only(t, S) \in Seq(T)
  BY <1>1, OnlyType
<1>10. <<>> \o Only(t, S) = Only(t, S)
  BY <1>9, ConcatEmptySeq
<1>. QED
  BY <1>0, <1>8, <1>10 DEF t, x

LEMMA OnlyAll ==
    ASSUME NEW T, NEW s \in Seq(T), NEW S, \A i \in 1 .. Len(s) : s[i] \in S
    PROVE  Only(s, S) = s
<1>1. PICK f : IsOnly(f, s, S, Len(s)) /\ Only(s, S) = f[Len(s)]
  BY OnlyUnfold
<1>2. Len(s) \in Nat
  OBVIOUS
<1>. DEFINE Have == {n \in 0 .. Len(s) : f[n] = SubSeq(s, 1, n)}
<1>3. 0 \in Have
  <2>1. f[0] = <<>>
    BY <1>1, <1>2, OnlyStep
  <2>2. SubSeq(s, 1, 0) = <<>>
    BY SubSeqEmpty
  <2>3. 0 \in 0 .. Len(s)
    BY <1>2
  <2>. QED
    BY <2>1, <2>2, <2>3
<1>4. ASSUME NEW n \in 0 .. Len(s) - 1, n \in Have PROVE n + 1 \in Have
  <2>1. n + 1 \in 1 .. Len(s) /\ (n + 1) - 1 = n /\ n \in Nat
    BY <1>2
  <2>2. f[n + 1] = IF s[n + 1] \in S THEN Append(f[(n + 1) - 1], s[n + 1]) ELSE f[(n + 1) - 1]
    BY <1>1, <1>2, <2>1, OnlyStep
  <2>3. Append(SubSeq(s, 1, n), s[n + 1]) = SubSeq(s, 1, n + 1)
    BY <2>1
  <2>4. f[n] = SubSeq(s, 1, n) /\ s[n + 1] \in S /\ n + 1 \in 0 .. Len(s)
    BY <1>4, <2>1
  <2>5. f[n + 1] = SubSeq(s, 1, n + 1)
    BY <2>1, <2>2, <2>3, <2>4
  <2>. QED
    BY <2>4, <2>5
<1>5. 0 .. Len(s) \subseteq Have
  <2>. HIDE DEF Have
  <2>. QED
    BY <1>2, <1>3, <1>4, UpTo
<1>6. SubSeq(s, 1, Len(s)) = s
  OBVIOUS
<1>. QED
  BY <1>1, <1>2, <1>5, <1>6

-----------------------------------------------------------------------------
(* Sums over sets *)

IsSum(h, f, S) ==
    h = [s \in SUBSET S |-> IF s = {} THEN 0
                            ELSE f[CHOOSE x \in s : TRUE] + h[s \ {CHOOSE x \in s : TRUE}]]

\* The same for the subsets of at most n elements.
Upto(S, n) == {s \in SUBSET S : Cardinality(s) <= n}
IsSumUpto(h, f, S, n) ==
    h = [s \in Upto(S, n) |-> IF s = {} THEN 0
                              ELSE f[CHOOSE x \in s : TRUE] + h[s \ {CHOOSE x \in s : TRUE}]]

\* A set with an element taken away.
LEMMA OneLess ==
    ASSUME NEW S, IsFiniteSet(S), NEW s \in SUBSET S, NEW x \in s
    PROVE  /\ IsFiniteSet(s) /\ s \ {x} \in SUBSET S /\ Cardinality(s) \in Nat \ {0}
           /\ Cardinality(s \ {x}) = Cardinality(s) - 1 /\ Cardinality(s \ {x}) \in Nat
<1>1. IsFiniteSet(s)
  BY FS_Subset
<1>2. IsFiniteSet(s \ {x}) /\ Cardinality(s \ {x}) = Cardinality(s) - 1
  BY <1>1, FS_RemoveElement
<1>3. Cardinality(s) \in Nat /\ Cardinality(s \ {x}) \in Nat
  BY <1>1, <1>2, FS_CardinalityType
<1>. QED
  BY <1>1, <1>2, <1>3

LEMMA SumExists ==
    ASSUME NEW f, NEW S, IsFiniteSet(S)
    PROVE  \E h : IsSum(h, f, S)
<1>. DEFINE N == Cardinality(S)
            Have == {n \in Nat : \E h : IsSumUpto(h, f, S, n)}
            Pick(s) == CHOOSE x \in s : TRUE
<1>1. N \in Nat
  BY FS_CardinalityType
<1>2. \A s \in SUBSET S : Cardinality(s) = 0 <=> s = {}
  BY FS_Subset, FS_EmptySet
<1>3. \A s \in SUBSET S : Cardinality(s) \in Nat /\ Cardinality(s) <= N
  BY FS_Subset, FS_CardinalityType
<1>4. 0 \in Have
  <2>1. Upto(S, 0) = {{}}
    <3>1. {} \in SUBSET S /\ Cardinality({}) = 0
      BY <1>2
    <3>2. \A s \in Upto(S, 0) : s = {}
      BY <1>2, <1>3 DEF Upto
    <3>3. {} \in Upto(S, 0)
      BY <3>1 DEF Upto
    <3>. QED
      BY <3>2, <3>3
  <2>2. IsSumUpto([s \in Upto(S, 0) |-> 0], f, S, 0)
    BY <2>1 DEF IsSumUpto
  <2>. QED
    BY <2>2
<1>5. ASSUME NEW n \in 0 .. N - 1, n \in Have PROVE n + 1 \in Have
  <2>1. PICK h : IsSumUpto(h, f, S, n)
    BY <1>5
  <2>. DEFINE g == [s \in Upto(S, n + 1) |->
                      IF s = {} THEN 0 ELSE f[Pick(s)] + h[s \ {Pick(s)}]]
  <2>2. n \in Nat /\ n + 1 \in Nat
    BY <1>1
  <2>3. \A s \in Upto(S, n) : s \in Upto(S, n + 1)
    BY <1>3, <2>2 DEF Upto
  <2>4. \A s \in Upto(S, n + 1) : s # {} => s \ {Pick(s)} \in Upto(S, n)
    <3>1. SUFFICES ASSUME NEW s \in Upto(S, n + 1), s # {} PROVE s \ {Pick(s)} \in Upto(S, n)
      OBVIOUS
    <3>2. Pick(s) \in s /\ s \in SUBSET S /\ Cardinality(s) <= n + 1
      BY <3>1 DEF Upto
    <3>. HIDE DEF Pick
    <3>3. s \ {Pick(s)} \in SUBSET S /\ Cardinality(s \ {Pick(s)}) = Cardinality(s) - 1
      BY <3>2, OneLess
    <3>4. Cardinality(s) \in Nat
      BY <1>3, <3>2
    <3>. QED
      BY <2>2, <3>2, <3>3, <3>4 DEF Upto
  <2>5. \A s \in Upto(S, n) : g[s] = h[s]
    BY <2>1, <2>3 DEF IsSumUpto
  <2>6. IsSumUpto(g, f, S, n + 1)
    <3>0. \A s \in Upto(S, n + 1) :
             g[s] = IF s = {} THEN 0 ELSE f[Pick(s)] + h[s \ {Pick(s)}]
      OBVIOUS
    <3>1. DOMAIN g = Upto(S, n + 1) /\ g = [s \in DOMAIN g |-> g[s]]
      OBVIOUS
    <3>. HIDE DEF g, Pick
    <3>2. \A s \in Upto(S, n + 1) :
             g[s] = IF s = {} THEN 0 ELSE f[Pick(s)] + g[s \ {Pick(s)}]
      BY <2>4, <2>5, <3>0
    <3>3. g = [s \in Upto(S, n + 1) |-> IF s = {} THEN 0 ELSE f[Pick(s)] + g[s \ {Pick(s)}]]
      BY <3>1, <3>2
    <3>. QED
      BY <3>3 DEF IsSumUpto, Pick
  <2>. QED
    BY <2>2, <2>6
<1>. HIDE DEF Have, N
<1>6. N \in Have
  BY <1>1, <1>4, <1>5, UpTo
<1>7. Upto(S, N) = SUBSET S
  BY <1>3 DEF Upto
<1>. QED
  BY <1>6, <1>7 DEF Have, IsSum, IsSumUpto

LEMMA SumFromAbove ==
    ASSUME NEW f, NEW S, IsFiniteSet(S), NEW T \in SUBSET S,
           NEW g, IsSum(g, f, S), NEW h, IsSum(h, f, T)
    PROVE  g[T] = h[T]
<1>. DEFINE Bad == {n \in Nat : \E s \in SUBSET T : Cardinality(s) = n /\ g[s] # h[s]}
<1>1. \A s \in SUBSET T : IsFiniteSet(s) /\ Cardinality(s) \in Nat
  BY FS_Subset, FS_CardinalityType
<1>2. SUFFICES ASSUME g[T] # h[T] PROVE FALSE
  OBVIOUS
<1>3. Cardinality(T) \in Bad
  BY <1>1, <1>2
<1>4. PICK n \in Bad : \A m \in Bad : n <= m
  <2>. HIDE DEF Bad
  <2>1. Bad \in SUBSET Nat
    BY DEF Bad
  <2>. QED
    BY <1>3, <2>1, LeastExists
<1>5. PICK s \in SUBSET T : Cardinality(s) = n /\ g[s] # h[s]
  OBVIOUS
<1>. DEFINE x == CHOOSE y \in s : TRUE
<1>6. s \in SUBSET S
  OBVIOUS
<1>7. CASE s = {}
  BY <1>5, <1>6, <1>7 DEF IsSum
<1>8. CASE s # {}
  <2>1. x \in s
    BY <1>8
  <2>2. g[s] = f[x] + g[s \ {x}]
    BY <1>6, <1>8 DEF IsSum
  <2>3. h[s] = f[x] + h[s \ {x}]
    BY <1>5, <1>8 DEF IsSum
  <2>. HIDE DEF x
  <2>4. Cardinality(s \ {x}) = n - 1 /\ n - 1 \in Nat /\ n \in Nat
    BY <1>5, <1>6, <2>1, OneLess
  <2>5. n - 1 \in Bad
    BY <1>5, <2>2, <2>3, <2>4
  <2>. HIDE DEF Bad
  <2>. QED
    BY <1>4, <2>4, <2>5
<1>. QED
  BY <1>7, <1>8

LEMMA SumStep ==
    ASSUME NEW f, NEW S, IsFiniteSet(S)
    PROVE  /\ S = {} => Sum(f, S) = 0
           /\ S # {} => \E x \in S : Sum(f, S) = f[x] + Sum(f, S \ {x})
<1>1. \A T : Sum(f, T) = (CHOOSE h : IsSum(h, f, T))[T]
  BY DEF Sum, MapThenSumSet, MapThenFoldSet, IsSum
<1>2. PICK g : IsSum(g, f, S) /\ Sum(f, S) = g[S]
  BY <1>1, SumExists
<1>3. CASE S = {}
  BY <1>2, <1>3 DEF IsSum
<1>4. CASE S # {}
  <2>. DEFINE x == CHOOSE y \in S : TRUE
              T == S \ {x}
  <2>1. x \in S
    BY <1>4
  <2>2. g[S] = f[x] + g[T]
    BY <1>2, <1>4 DEF IsSum
  <2>3. IsFiniteSet(T) /\ T \in SUBSET S
    BY FS_Subset
  <2>. HIDE DEF T
  <2>4. PICK h : IsSum(h, f, T) /\ Sum(f, T) = h[T]
    BY <1>1, <2>3, SumExists
  <2>5. g[T] = h[T]
    BY <1>2, <2>3, <2>4, SumFromAbove
  <2>6. Sum(f, S) = f[x] + Sum(f, T)
    BY <1>2, <2>2, <2>4, <2>5
  <2>. QED
    BY <1>4, <2>1, <2>6 DEF T
<1>. QED
  BY <1>3, <1>4

\* Facts about all subsets of a finite set: the least counterexample has an
\* element, and without it is none.
LEMMA SumRemove ==
    ASSUME NEW f, NEW S, IsFiniteSet(S), \A x \in S : f[x] \in Int, NEW c \in S
    PROVE  /\ Sum(f, S) \in Int /\ Sum(f, S \ {c}) \in Int
           /\ Sum(f, S) = f[c] + Sum(f, S \ {c})
<1>. DEFINE Good(s) == /\ Sum(f, s) \in Int
                       /\ \A y \in s : Sum(f, s) = f[y] + Sum(f, s \ {y})
            Bad == {n \in Nat : \E s \in SUBSET S : Cardinality(s) = n /\ ~Good(s)}
<1>1. \A s \in SUBSET S : IsFiniteSet(s) /\ Cardinality(s) \in Nat
  BY FS_Subset, FS_CardinalityType
<1>2. \A s \in SUBSET S : Good(s)
  <2>1. SUFFICES ASSUME NEW s0 \in SUBSET S, ~Good(s0) PROVE FALSE
    OBVIOUS
  <2>2. Cardinality(s0) \in Bad
    BY <1>1, <2>1
  <2>3. PICK n \in Bad : \A m \in Bad : n <= m
    <3>. HIDE DEF Bad
    <3>1. Bad \in SUBSET Nat
      BY DEF Bad
    <3>. QED
      BY <2>2, <3>1, LeastExists
  <2>4. PICK s \in SUBSET S : Cardinality(s) = n /\ ~Good(s)
    OBVIOUS
  <2>5. IsFiniteSet(s)
    BY <1>1
  <2>6. \A y \in s : Good(s \ {y})
    <3>1. SUFFICES ASSUME NEW y \in s, ~Good(s \ {y}) PROVE FALSE
      OBVIOUS
    <3>. HIDE DEF Good
    <3>2. /\ Cardinality(s \ {y}) = n - 1 /\ n - 1 \in Nat /\ n \in Nat
          /\ s \ {y} \in SUBSET S
      BY <2>4, OneLess
    <3>3. n - 1 \in Bad
      BY <3>1, <3>2
    <3>. HIDE DEF Bad
    <3>. QED
      BY <2>3, <3>2, <3>3
  <2>7. CASE s = {}
    <3>1. Sum(f, s) = 0
      BY <2>5, <2>7, SumStep
    <3>. QED
      BY <2>4, <2>7, <3>1
  <2>8. CASE s # {}
    <3>1. PICK x \in s : Sum(f, s) = f[x] + Sum(f, s \ {x})
      BY <2>5, <2>8, SumStep
    <3>2. f[x] \in Int /\ Sum(f, s \ {x}) \in Int
      BY <2>6
    <3>3. Sum(f, s) \in Int
      BY <3>1, <3>2
    <3>4. ASSUME NEW y \in s PROVE Sum(f, s) = f[y] + Sum(f, s \ {y})
      <4>1. CASE y = x
        BY <3>1, <4>1
      <4>2. CASE y # x
        <5>1. Sum(f, s \ {x}) = f[y] + Sum(f, (s \ {x}) \ {y})
          BY <2>6, <4>2
        <5>2. Sum(f, s \ {y}) = f[x] + Sum(f, (s \ {y}) \ {x})
          BY <2>6, <4>2
        <5>3. (s \ {x}) \ {y} = (s \ {y}) \ {x}
          OBVIOUS
        <5>4. (s \ {x}) \ {y} \in SUBSET S /\ f[y] \in Int
          OBVIOUS
        <5>5. Sum(f, s \ {y}) \in Int
          BY <2>6
        <5>. DEFINE a == Sum(f, s)
                    b == Sum(f, s \ {x})
                    d == Sum(f, s \ {y})
                    e == Sum(f, (s \ {x}) \ {y})
                    fx == f[x]
                    fy == f[y]
        <5>6. a = fx + b /\ b = fy + e /\ d = fx + e
          BY <3>1, <5>1, <5>2, <5>3
        <5>7. fx \in Int /\ fy \in Int /\ b \in Int /\ d \in Int
          BY <3>2, <5>4, <5>5
        <5>8. e \in Int
          <6>1. IsFiniteSet((s \ {x}) \ {y}) /\ y \in s \ {x}
            BY <1>1, <4>2, <5>4
          <6>2. Cardinality(s \ {x}) = n - 1 /\ n - 1 \in Nat /\ n \in Nat /\ s \ {x} \in SUBSET S
            BY <2>4, OneLess
          <6>3. Cardinality((s \ {x}) \ {y}) = (n - 1) - 1 /\ (n - 1) - 1 \in Nat
            BY <6>1, <6>2, OneLess
          <6>4. (n - 1) - 1 \notin Bad
            <7>. HIDE DEF Bad
            <7>. QED
              BY <2>3, <6>2, <6>3
          <6>. QED
            BY <5>4, <6>3, <6>4
        <5>. HIDE DEF a, b, d, e, fx, fy
        <5>9. a = fy + d
          BY <5>6, <5>7, <5>8
        <5>. QED
          BY <5>9 DEF a, d, fy
      <4>. QED
        BY <4>1, <4>2
    <3>. QED
      BY <2>4, <3>3, <3>4
  <2>. QED
    BY <2>7, <2>8
<1>3. S \in SUBSET S /\ S \ {c} \in SUBSET S
  OBVIOUS
<1>. QED
  BY <1>2, <1>3

LEMMA SumEmpty == ASSUME NEW f PROVE Sum(f, {}) = 0
  BY SumStep, FS_EmptySet

\* Sums of functions of which one is nowhere the greater.
LEMMA SumBound ==
    ASSUME NEW S, IsFiniteSet(S), NEW f, NEW g,
           \A x \in S : f[x] \in Int /\ g[x] \in Int /\ f[x] <= g[x]
    PROVE  Sum(f, S) \in Int /\ Sum(g, S) \in Int /\ Sum(f, S) <= Sum(g, S)
<1>. DEFINE Good(s) == Sum(f, s) \in Int /\ Sum(g, s) \in Int /\ Sum(f, s) <= Sum(g, s)
            Bad == {n \in Nat : \E s \in SUBSET S : Cardinality(s) = n /\ ~Good(s)}
<1>1. \A s \in SUBSET S : IsFiniteSet(s) /\ Cardinality(s) \in Nat
  BY FS_Subset, FS_CardinalityType
<1>2. SUFFICES ASSUME ~Good(S) PROVE FALSE
  OBVIOUS
<1>3. Cardinality(S) \in Bad
  BY <1>1, <1>2
<1>4. PICK n \in Bad : \A m \in Bad : n <= m
  <2>. HIDE DEF Bad
  <2>1. Bad \in SUBSET Nat
    BY DEF Bad
  <2>. QED
    BY <1>3, <2>1, LeastExists
<1>5. PICK s \in SUBSET S : Cardinality(s) = n /\ ~Good(s)
  OBVIOUS
<1>6. CASE s = {}
  BY <1>5, <1>6, SumEmpty
<1>7. CASE s # {}
  <2>1. PICK x \in s : TRUE
    BY <1>7
  <2>2. Good(s \ {x})
    <3>1. SUFFICES ASSUME ~Good(s \ {x}) PROVE FALSE
      OBVIOUS
    <3>. HIDE DEF Good
    <3>2. /\ Cardinality(s \ {x}) = n - 1 /\ n - 1 \in Nat /\ n \in Nat
          /\ s \ {x} \in SUBSET S
      BY <1>5, OneLess
    <3>3. n - 1 \in Bad
      BY <3>1, <3>2
    <3>. HIDE DEF Bad
    <3>. QED
      BY <1>4, <3>2, <3>3
  <2>3. Sum(f, s) = f[x] + Sum(f, s \ {x}) /\ Sum(g, s) = g[x] + Sum(g, s \ {x})
    BY <1>1, SumRemove
  <2>4. f[x] \in Int /\ g[x] \in Int /\ f[x] <= g[x]
    OBVIOUS
  <2>. QED
    BY <1>5, <2>2, <2>3, <2>4
<1>. QED
  BY <1>6, <1>7

\* Sums of integers that are nowhere larger, and smaller at c.
LEMMA SumLess ==
    ASSUME NEW S, IsFiniteSet(S), NEW f, NEW h, NEW c \in S,
           \A x \in S : f[x] \in Int /\ h[x] \in Int /\ h[x] <= f[x],
           h[c] < f[c]
    PROVE  Sum(f, S) \in Int /\ Sum(h, S) \in Int /\ Sum(h, S) < Sum(f, S)
<1>. DEFINE R == S \ {c}
<1>1. /\ Sum(f, S) \in Int /\ Sum(f, R) \in Int /\ Sum(f, S) = f[c] + Sum(f, R)
  <2>1. \A x \in S : f[x] \in Int
    OBVIOUS
  <2>. QED
    BY <2>1, SumRemove
<1>2. /\ Sum(h, S) \in Int /\ Sum(h, R) \in Int /\ Sum(h, S) = h[c] + Sum(h, R)
  <2>1. \A x \in S : h[x] \in Int
    OBVIOUS
  <2>. QED
    BY <2>1, SumRemove
<1>3. Sum(h, R) <= Sum(f, R)
  <2>1. IsFiniteSet(R)
    BY FS_Subset
  <2>2. \A x \in R : h[x] \in Int /\ f[x] \in Int /\ h[x] <= f[x]
    OBVIOUS
  <2>. HIDE DEF R
  <2>. QED
    BY <2>1, <2>2, SumBound
<1>4. f[c] \in Int /\ h[c] \in Int
  OBVIOUS
<1>. HIDE DEF R
<1>. QED
  BY <1>1, <1>2, <1>3, <1>4

\* A sum changes with one of its numbers.
LEMMA SumChange ==
    ASSUME NEW S, IsFiniteSet(S), NEW f, NEW g, NEW c \in S,
           \A x \in S : f[x] \in Int /\ g[x] \in Int,
           \A x \in S \ {c} : f[x] = g[x]
    PROVE  Sum(f, S) \in Int /\ Sum(g, S) \in Int /\ Sum(g, S) = Sum(f, S) + g[c] - f[c]
<1>. DEFINE T == S \ {c}
<1>1. IsFiniteSet(T)
  BY FS_Subset
<1>2. \A x \in T : f[x] \in Int /\ g[x] \in Int /\ f[x] <= g[x] /\ g[x] <= f[x]
  OBVIOUS
<1>3. Sum(f, S) = f[c] + Sum(f, T) /\ Sum(g, S) = g[c] + Sum(g, T)
  BY SumRemove
<1>. HIDE DEF T
<1>4. /\ Sum(f, T) \in Int /\ Sum(g, T) \in Int
      /\ Sum(f, T) <= Sum(g, T) /\ Sum(g, T) <= Sum(f, T)
  BY <1>1, <1>2, SumBound
<1>5. f[c] \in Int /\ g[c] \in Int
  OBVIOUS
<1>. QED
  BY <1>3, <1>4, <1>5

LEMMA SumSame ==
    ASSUME NEW S, IsFiniteSet(S), NEW f, NEW g,
           \A x \in S : f[x] \in Int /\ g[x] \in Int /\ f[x] = g[x]
    PROVE  Sum(f, S) \in Int /\ Sum(g, S) = Sum(f, S)
<1>1. \A x \in S : f[x] <= g[x] /\ g[x] <= f[x]
  OBVIOUS
<1>2. Sum(f, S) <= Sum(g, S) /\ Sum(f, S) \in Int /\ Sum(g, S) \in Int
  BY <1>1, SumBound
<1>3. Sum(g, S) <= Sum(f, S)
  BY <1>1, SumBound
<1>. QED
  BY <1>2, <1>3

\* No number is greater than a sum that it is a part of.
LEMMA SumZero ==
    ASSUME NEW S, IsFiniteSet(S), NEW f, \A x \in S : f[x] = 0
    PROVE  Sum(f, S) = 0
<1>. DEFINE Bad == {n \in Nat : \E s \in SUBSET S : Cardinality(s) = n /\ Sum(f, s) # 0}
<1>1. SUFFICES ASSUME Sum(f, S) # 0 PROVE FALSE
  OBVIOUS
<1>2. Cardinality(S) \in Bad
  BY <1>1, FS_CardinalityType
<1>3. PICK n \in Bad : \A m \in Bad : n <= m
  <2>. HIDE DEF Bad
  <2>1. Bad \in SUBSET Nat
    BY DEF Bad
  <2>. QED
    BY <1>2, <2>1, LeastExists
<1>4. PICK s \in SUBSET S : Cardinality(s) = n /\ Sum(f, s) # 0
  OBVIOUS
<1>5. PICK x \in s : TRUE
  BY <1>4, SumEmpty
<1>6. /\ Cardinality(s \ {x}) = n - 1 /\ n - 1 \in Nat /\ n \in Nat
      /\ s \ {x} \in SUBSET S /\ IsFiniteSet(s)
  BY <1>4, <1>5, OneLess
<1>7. Sum(f, s) = f[x] + Sum(f, s \ {x})
  <2>1. \A y \in s : f[y] \in Int
    OBVIOUS
  <2>. QED
    BY <1>5, <1>6, <2>1, SumRemove
<1>8. n - 1 \in Bad
  BY <1>4, <1>5, <1>6, <1>7
<1>. HIDE DEF Bad
<1>. QED
  BY <1>3, <1>6, <1>8

LEMMA SumOver ==
    ASSUME NEW S, IsFiniteSet(S), NEW f, \A x \in S : f[x] \in Nat
    PROVE  Sum(f, S) \in Nat /\ \A c \in S : f[c] <= Sum(f, S)
<1>. DEFINE zero == [x \in S |-> 0]
<1>1. \A T \in SUBSET S : Sum(f, T) \in Nat
  <2>1. SUFFICES ASSUME NEW T \in SUBSET S PROVE Sum(f, T) \in Nat
    OBVIOUS
  <2>2. IsFiniteSet(T)
    BY FS_Subset
  <2>3. \A x \in T : zero[x] \in Int /\ f[x] \in Int /\ zero[x] <= f[x] /\ zero[x] = 0
    OBVIOUS
  <2>. HIDE DEF zero
  <2>4. Sum(zero, T) \in Int /\ Sum(f, T) \in Int /\ Sum(zero, T) <= Sum(f, T)
    BY <2>2, <2>3, SumBound
  <2>5. Sum(zero, T) = 0
    BY <2>2, <2>3, SumZero
  <2>. QED
    BY <2>4, <2>5
<1>2. ASSUME NEW c \in S PROVE f[c] <= Sum(f, S)
  <2>1. Sum(f, S) = f[c] + Sum(f, S \ {c})
    BY SumRemove
  <2>2. Sum(f, S \ {c}) \in Nat /\ f[c] \in Nat
    BY <1>1
  <2>. QED
    BY <2>1, <2>2
<1>. QED
  BY <1>1, <1>2

-----------------------------------------------------------------------------
(* Invariants *)

Requests == ({"attach", "detach"} \X Links) \union ({"connect"} \X Clients)
Phases == {"get_recv", "release_recv", "get_send", "release_send",
           "erase_recv", "erase_send", "request"}

InlineTypes ==
    /\ net \in [Links -> Seq(Clients \X Nat)] /\ free \in [Links -> Int]
    /\ attached \subseteq Links /\ mux \subseteq Links /\ alive \subseteq Clients
    /\ rcvr \in [Links -> Clients \union {None}] /\ callbacks \in [Links -> Seq(Clients)]
    /\ queues \in [Clients -> Seq(Nat)] /\ updates \in [SendClients -> Nat]
    /\ call \in [op : {"none", "recv", "fc"}, client : Clients \union {None},
                 state : {"idle", "loop", "none", "done"}, packet : Nat]
ThreadTypes ==
    /\ in_use \in [Clients -> Int] /\ reserved \in [Links -> Int]
    /\ clients \in [recv : Seq(RecvClients), send : Seq(SendClients)]
    /\ phase \in Phases /\ turn \in Nat \ {0}
    /\ requests \in Seq(Requests)
PortTypes ==
    /\ from_q \in [Clients -> Seq(Nat)] /\ to_q \in [Clients -> Seq(Nat)]
    /\ connected \subseteq Clients
    /\ user \in [Clients -> {"new", "connecting", "up", "closing", "gone"}]
    /\ held \in [Clients -> Nat] /\ accepted \in [Clients -> Nat] /\ last \in [Clients -> Nat]
Typed == InlineTypes /\ ThreadTypes /\ PortTypes

Erasing == phase \in {"erase_recv", "erase_send"}

\* Outside of requests it is the turn of a client.
TurnOfOne == phase # "request" => turn \in DOMAIN clients[Kind(phase)]

\* The thread's lists: the connected clients, and the one it erases.
Listed ==
    \A k \in {"recv", "send"} : \A i \in DOMAIN clients[k] :
        /\ clients[k][i] \in connected \/ (Erasing /\ k = Kind(phase) /\ i = turn)
        /\ \A j \in DOMAIN clients[k] : clients[k][i] = clients[k][j] => i = j
Erased == Erasing => me \notin connected /\ user[me] \in {"closing", "gone"}

\* The call that is being made is for the client whose turn it is.
Calling ==
    /\ call.state = "idle" => call = Idle
    /\ call.state # "idle" =>
        /\ call.client = me
        /\ \/ /\ call.op = "recv" /\ phase = "get_recv" /\ MayGet(me)
           \/ call.op = "fc" /\ phase = "release_send" /\ FrameNext(me)

\* The life of a client.
Life(c) ==
    /\ user[c] = "up" => c \in connected
    /\ c \in connected => user[c] \in {"connecting", "up", "closing"}
    /\ c \notin connected => from_q[c] = <<>> /\ to_q[c] = <<>>
    /\ held[c] # 0 => user[c] = "up"
    /\ \A i \in DOMAIN to_q[c] :
          to_q[c][i] = DISCONNECT => i = Len(to_q[c]) /\ user[c] = "closing"
OneBusy ==
    \A c, d \in Clients :
        user[c] \in {"connecting", "closing"} /\ user[d] \in {"connecting", "closing"} => c = d

\* Frames.
OwnLink == \A l \in Links : \A i \in DOMAIN net[l] : LinkOf[net[l][i][1]] = l
Pools == \A l \in Links : free[l] + Sum(frames, ClientsOn(l)) = NumFrames[l]
Counted(c) == in_use[c] = FramesOut(c) /\ in_use[c] <= NumPortFrames(c)
Room(c) ==
    IF c \in RecvClients THEN Len(PacketsOf(c)) + FramesOf(c) <= Reserved[c]
    ELSE queues[c] = <<>>
Unserved(c) ==
    c \in RecvClients /\ user[c] \in {"new", "connecting"} => PacketsOf(c) = <<>> /\ queues[c] = <<>>
Admitted(c) ==
    c \in connected \/ user[c] \in {"up", "closing", "gone"} =>
        Reserved[c] <= NumFrames[LinkOf[c]]

\* Requests.
ToAttach(l) == \E i \in DOMAIN requests : requests[i] = <<"attach", l>>
ToDetach(l) == \E i \in DOMAIN requests : requests[i] = <<"detach", l>>
ToConnect(c) == \E i \in DOMAIN requests : requests[i] = <<"connect", c>>

RequestOrder ==
    \A i \in DOMAIN requests :
        /\ requests[i][1] = "connect" =>
              /\ i = Len(requests)
              /\ user[requests[i][2]] = "connecting" /\ requests[i][2] \notin connected
        /\ requests[i][1] = "attach" =>
              /\ i + 1 = Len(requests)
              /\ \E c \in Clients : requests[i + 1] = <<"connect", c>> /\ LinkOf[c] = requests[i][2]
Pending ==
    /\ \A l \in Links : ToDetach(l) =>
          \A c \in Using : LinkOf[c] = l => c \notin connected /\ ToAttach(l)
    /\ \A l \in Links : ToAttach(l) => \A c \in connected : LinkOf[c] # l
    /\ \A c \in Clients : ToConnect(c) =>
          ToAttach(LinkOf[c]) \/ (LinkOf[c] \in attached /\ ~ToDetach(LinkOf[c]))

Reserves == [c \in Clients |-> IF c \in connected THEN Reserved[c] ELSE 0]
Reservations ==
    \A l \in Links : reserved[l] = Sum(Reserves, ClientsOn(l)) /\ reserved[l] <= NumFrames[l]

\* A link is attached while it has clients, and until it is detached, once.
Attached ==
    /\ \A l \in Links : ToDetach(l) => l \in attached
    /\ \A l \in attached : ToDetach(l) \/ (~ToAttach(l) /\ \E c \in Using : LinkOf[c] = l)
    /\ \A c \in Clients : user[c] \in {"up", "closing"} => LinkOf[c] \in attached
OneDetach ==
    \A i, j \in DOMAIN requests :
        requests[i][1] = "detach" /\ requests[i] = requests[j] => i = j

\* The inline service's table.
Alive ==
    \A c \in Clients : c \in alive <=> c \in connected \/ (Erasing /\ c = me)
Attachments == \A c \in alive : LinkOf[c] \in attached
Stale(l) ==
    ToDetach(l) \/ \E c \in Clients : user[c] = "closing" /\ LinkOf[c] = l /\ OthersOn(c) = {}
Receivers ==
    \A l \in Links :
        IF l \in mux
        THEN rcvr[l] = None /\ ToSet(callbacks[l]) = {c \in alive : LinkOf[c] = l}
        ELSE /\ callbacks[l] = <<>>
             /\ \A c \in alive : LinkOf[c] = l => rcvr[l] = c
             /\ rcvr[l] # None => LinkOf[rcvr[l]] = l /\ (rcvr[l] \in alive \/ Stale(l))
LeftBehind ==
    Erasing /\ user[me] = "gone" /\ LinkOf[me] \notin mux => ToDetach(LinkOf[me])
Queued ==
    /\ \A c \in Clients : queues[c] # <<>> => c \in alive /\ LinkOf[c] \in mux
    /\ call.op = "recv" /\ call.state = "loop" => queues[call.client] = <<>>

-----------------------------------------------------------------------------
(* The operators of the model *)

\* The numbers of the packets for c in a link's sequence (PacketsOf).
Numbers(s, c) == LET of_c == Only(s, {c} \X Nat) IN [i \in DOMAIN of_c |-> of_c[i][2]]

LEMMA NumbersTyped ==
    ASSUME NEW c, NEW t \in Seq(Clients \X Nat)
    PROVE  /\ Only(t, {c} \X Nat) \in Seq(Clients \X Nat) /\ Numbers(t, c) \in Seq(Nat)
           /\ Len(Numbers(t, c)) = Len(Only(t, {c} \X Nat))
           /\ \A i \in 1 .. Len(Only(t, {c} \X Nat)) : Numbers(t, c)[i] = Only(t, {c} \X Nat)[i][2]
<1>. DEFINE P == Clients \X Nat
            S == {c} \X Nat
<1>2. Only(t, S) \in Seq(P)
  BY OnlyType
<1>. DEFINE o == Only(t, S)
<1>3. Numbers(t, c) = [i \in DOMAIN o |-> o[i][2]]
  BY DEF Numbers
<1>9. o \in Seq(P)
  BY <1>2
<1>. HIDE DEF o
<1>4. DOMAIN o = 1 .. Len(o) /\ Len(o) \in Nat /\ \A i \in 1 .. Len(o) : o[i] \in P
  <2>. HIDE DEF P
  <2>. QED
    BY <1>9
<1>5. \A i \in 1 .. Len(o) : o[i][2] \in Nat
  BY <1>4
<1>6. [i \in 1 .. Len(o) |-> o[i][2]] \in Seq(Nat)
  BY <1>4, <1>5, IsASeq
<1>7. Len([i \in 1 .. Len(o) |-> o[i][2]]) = Len(o)
  BY <1>4, <1>6
<1>8. /\ o \in Seq(P) /\ Numbers(t, c) \in Seq(Nat) /\ Len(Numbers(t, c)) = Len(o)
      /\ \A i \in 1 .. Len(o) : Numbers(t, c)[i] = o[i][2]
  BY <1>9, <1>3, <1>4, <1>6, <1>7
<1>. QED
  BY <1>8 DEF o

LEMMA NumbersAppend ==
    ASSUME NEW s \in Seq(Clients \X Nat), NEW c \in Clients, NEW d \in Clients, NEW n \in Nat
    PROVE  Numbers(Append(s, <<d, n>>), c) =
              IF d = c THEN Append(Numbers(s, c), n) ELSE Numbers(s, c)
<1>. DEFINE P == Clients \X Nat
            S == {c} \X Nat
<1>1. <<d, n>> \in P /\ (<<d, n>> \in S <=> d = c) /\ Append(s, <<d, n>>) \in Seq(P)
  OBVIOUS
<1>2. Only(Append(s, <<d, n>>), S) =
         IF d = c THEN Append(Only(s, S), <<d, n>>) ELSE Only(s, S)
  <2>1. s \in Seq(P) /\ <<d, n>> \in P
    BY <1>1
  <2>2. <<d, n>> \in S <=> d = c
    BY <1>1
  <2>. HIDE DEF S, P
  <2>3. Only(Append(s, <<d, n>>), S) =
           IF <<d, n>> \in S THEN Append(Only(s, S), <<d, n>>) ELSE Only(s, S)
    BY <2>1, OnlyAppend
  <2>. QED
    BY <2>2, <2>3
<1>3. CASE d # c
  BY <1>2, <1>3 DEF Numbers
<1>4. CASE d = c
  <2>. DEFINE t == Append(s, <<d, n>>)
              o == Only(s, S)
              u == Only(t, S)
              k == Numbers(s, c)
              m == Numbers(t, c)
  <2>1. /\ o \in Seq(P) /\ u \in Seq(P) /\ u = Append(o, <<d, n>>)
        /\ k \in Seq(Nat) /\ m \in Seq(Nat) /\ Len(k) = Len(o) /\ Len(m) = Len(u)
        /\ \A i \in 1 .. Len(o) : k[i] = o[i][2]
        /\ \A i \in 1 .. Len(u) : m[i] = u[i][2]
    <3>1. s \in Seq(Clients \X Nat) /\ t \in Seq(Clients \X Nat)
      BY <1>1
    <3>. HIDE DEF t
    <3>2. o \in Seq(P) /\ k \in Seq(Nat) /\ Len(k) = Len(o) /\ \A i \in 1 .. Len(o) : k[i] = o[i][2]
      <4>1. o \in Seq(P) /\ k \in Seq(Nat)
        BY <3>1, NumbersTyped
      <4>2. Len(k) = Len(o)
        BY <3>1, NumbersTyped
      <4>3. \A i \in 1 .. Len(o) : k[i] = o[i][2]
        <5>1. k = [i \in DOMAIN o |-> o[i][2]]
          BY DEF Numbers
        <5>2. DOMAIN o = 1 .. Len(o)
          BY <4>1
        <5>. HIDE DEF o, k
        <5>. QED
          BY <5>1, <5>2
      <4>. QED
        BY <4>1, <4>2, <4>3
    <3>3. u \in Seq(P) /\ m \in Seq(Nat) /\ Len(m) = Len(u) /\ \A i \in 1 .. Len(u) : m[i] = u[i][2]
      <4>1. u \in Seq(P) /\ m \in Seq(Nat)
        BY <3>1, NumbersTyped
      <4>2. Len(m) = Len(u)
        BY <3>1, NumbersTyped
      <4>3. \A i \in 1 .. Len(u) : m[i] = u[i][2]
        <5>1. m = [i \in DOMAIN u |-> u[i][2]]
          BY DEF Numbers
        <5>2. DOMAIN u = 1 .. Len(u)
          BY <4>1
        <5>. HIDE DEF u, m
        <5>. QED
          BY <5>1, <5>2
      <4>. QED
        BY <4>1, <4>2, <4>3
    <3>4. u = Append(o, <<d, n>>)
      BY <1>2, <1>4 DEF t
    <3>. QED
      BY <3>2, <3>3, <3>4
  <2>. HIDE DEF t, o, u, k, m
  <2>2. /\ Len(u) = Len(o) + 1 /\ Len(o) \in Nat /\ u[Len(o) + 1] = <<d, n>>
        /\ \A i \in 1 .. Len(o) : u[i] = o[i]
    BY <2>1
  <2>3. /\ Append(k, n) \in Seq(Nat) /\ Len(Append(k, n)) = Len(o) + 1
        /\ Append(k, n)[Len(o) + 1] = n /\ \A i \in 1 .. Len(o) : Append(k, n)[i] = k[i]
    BY <2>1
  <2>4. \A i \in 1 .. Len(o) + 1 : m[i] = Append(k, n)[i]
    <3>1. m[Len(o) + 1] = n
      BY <2>1, <2>2
    <3>2. \A i \in 1 .. Len(o) : m[i] = k[i]
      BY <2>1, <2>2
    <3>. QED
      BY <2>2, <2>3, <3>1, <3>2
  <2>5. m = Append(k, n)
    BY <2>1, <2>2, <2>3, <2>4, SeqEqual
  <2>. QED
    BY <1>4, <2>5 DEF m, k, t
<1>. QED
  BY <1>3, <1>4

LEMMA NumbersHead ==
    ASSUME NEW s \in Seq(Clients \X Nat), NEW c \in Clients, s # <<>>
    PROVE  /\ Head(s)[1] # c => Numbers(Tail(s), c) = Numbers(s, c)
           /\ Head(s)[1] = c => Numbers(s, c) = <<Head(s)[2]>> \o Numbers(Tail(s), c)
<1>. DEFINE P == Clients \X Nat
            S == {c} \X Nat
<1>1. Head(s) \in P /\ Tail(s) \in Seq(P) /\ Head(s)[2] \in Nat
  OBVIOUS
<1>2. Head(s) \in S <=> Head(s)[1] = c
  BY <1>1
<1>3. Only(s, S) = IF Head(s) \in S THEN <<Head(s)>> \o Only(Tail(s), S) ELSE Only(Tail(s), S)
  BY OnlyHead
<1>4. CASE Head(s)[1] # c
  BY <1>2, <1>3, <1>4 DEF Numbers
<1>5. CASE Head(s)[1] = c
  <2>. DEFINE t == Tail(s)
              x == Head(s)
              o == Only(t, S)
              u == Only(s, S)
              k == Numbers(t, c)
              m == Numbers(s, c)
  <2>1. /\ o \in Seq(P) /\ u \in Seq(P) /\ x \in P /\ u = <<x>> \o o
        /\ k \in Seq(Nat) /\ m \in Seq(Nat) /\ Len(k) = Len(o) /\ Len(m) = Len(u)
        /\ \A i \in 1 .. Len(o) : k[i] = o[i][2]
        /\ \A i \in 1 .. Len(u) : m[i] = u[i][2]
    <3>1. s \in Seq(Clients \X Nat) /\ t \in Seq(Clients \X Nat)
      BY <1>1
    <3>. HIDE DEF t
    <3>2. o \in Seq(P) /\ k \in Seq(Nat) /\ Len(k) = Len(o) /\ \A i \in 1 .. Len(o) : k[i] = o[i][2]
      <4>1. o \in Seq(P) /\ k \in Seq(Nat)
        BY <3>1, NumbersTyped
      <4>2. Len(k) = Len(o)
        BY <3>1, NumbersTyped
      <4>3. \A i \in 1 .. Len(o) : k[i] = o[i][2]
        <5>1. k = [i \in DOMAIN o |-> o[i][2]]
          BY DEF Numbers
        <5>2. DOMAIN o = 1 .. Len(o)
          BY <4>1
        <5>. HIDE DEF o, k
        <5>. QED
          BY <5>1, <5>2
      <4>. QED
        BY <4>1, <4>2, <4>3
    <3>3. u \in Seq(P) /\ m \in Seq(Nat) /\ Len(m) = Len(u) /\ \A i \in 1 .. Len(u) : m[i] = u[i][2]
      <4>1. u \in Seq(P) /\ m \in Seq(Nat)
        BY <3>1, NumbersTyped
      <4>2. Len(m) = Len(u)
        BY <3>1, NumbersTyped
      <4>3. \A i \in 1 .. Len(u) : m[i] = u[i][2]
        <5>1. m = [i \in DOMAIN u |-> u[i][2]]
          BY DEF Numbers
        <5>2. DOMAIN u = 1 .. Len(u)
          BY <4>1
        <5>. HIDE DEF u, m
        <5>. QED
          BY <5>1, <5>2
      <4>. QED
        BY <4>1, <4>2, <4>3
    <3>4. x \in P /\ u = <<x>> \o o
      BY <1>1, <1>2, <1>3, <1>5 DEF t
    <3>. QED
      BY <3>2, <3>3, <3>4
  <2>. HIDE DEF t, x, o, u, k, m
  <2>2. /\ Len(u) = 1 + Len(o) /\ Len(o) \in Nat /\ u[1] = x
        /\ \A i \in 2 .. Len(o) + 1 : u[i] = o[i - 1]
    BY <2>1
  <2>3. x[2] \in Nat
    BY <2>1
  <2>4. /\ <<x[2]>> \o k \in Seq(Nat) /\ Len(<<x[2]>> \o k) = 1 + Len(o)
        /\ (<<x[2]>> \o k)[1] = x[2]
        /\ \A i \in 2 .. Len(o) + 1 : (<<x[2]>> \o k)[i] = k[i - 1]
    BY <2>1, <2>3
  <2>5. \A i \in 1 .. Len(m) : m[i] = (<<x[2]>> \o k)[i]
    <3>1. SUFFICES ASSUME NEW i \in 1 .. Len(m) PROVE m[i] = (<<x[2]>> \o k)[i]
      OBVIOUS
    <3>2. CASE i = 1
      BY <2>1, <2>2, <2>4, <3>2
    <3>3. CASE i # 1
      <4>1. i \in 2 .. Len(o) + 1 /\ i - 1 \in 1 .. Len(o) /\ i \in 1 .. Len(u)
        BY <2>1, <2>2, <3>3
      <4>2. m[i] = u[i][2] /\ u[i] = o[i - 1] /\ k[i - 1] = o[i - 1][2]
        BY <2>1, <2>2, <4>1
      <4>3. (<<x[2]>> \o k)[i] = k[i - 1]
        BY <2>4, <4>1
      <4>. QED
        BY <4>2, <4>3
    <3>. QED
      BY <3>2, <3>3
  <2>6. m = <<x[2]>> \o k
    BY <2>1, <2>2, <2>4, <2>5, SeqEqual
  <2>. QED
    BY <1>5, <2>6 DEF m, k, t, x
<1>. QED
  BY <1>4, <1>5

LEMMA PacketsNumbers == \A c : PacketsOf(c) = Numbers(net[LinkOf[c]], c)
  BY DEF PacketsOf, Numbers

LEMMA NextTurn ==
    ASSUME NEW loop \in {"get_recv", "release_recv", "get_send", "release_send"},
           NEW i \in Nat \ {0}, NEW lists,
           \A k \in {"recv", "send"} : \E T : lists[k] \in Seq(T),
           From(loop, i, lists)
    PROVE  /\ phase' \in {"get_recv", "release_recv", "get_send", "release_send", "request"}
           /\ turn' \in Nat \ {0}
           /\ phase' # "request" => turn' \in DOMAIN lists[Kind(phase')]
<1>. DEFINE later == {k \in DOMAIN Loops : /\ lists[Kind(Loops[k])] # <<>>
                                           /\ \E n \in 1 .. k - 1 : Loops[n] = loop}
<1>1. DOMAIN Loops = 1 .. 4
  BY DEF Loops
<1>2. \A k \in 1 .. 4 : Loops[k] \in {"get_recv", "release_recv", "get_send", "release_send"}
  BY DEF Loops
<1>3. \A p : Kind(p) \in {"recv", "send"}
  BY DEF Kind
<1>4. CASE i <= Len(lists[Kind(loop)])
  <2>1. phase' = loop /\ turn' = i
    BY <1>4 DEF From
  <2>2. PICK T : lists[Kind(loop)] \in Seq(T)
    BY <1>3
  <2>3. i \in DOMAIN lists[Kind(loop)]
    BY <1>4, <2>2
  <2>. QED
    BY <2>1, <2>3
<1>5. CASE ~(i <= Len(lists[Kind(loop)]))
  <2>1. phase' = (IF later = {} THEN "request" ELSE Loops[Min(later)]) /\ turn' = 1
    BY <1>5 DEF From
  <2>2. CASE later = {}
    BY <2>1, <2>2
  <2>3. CASE later # {}
    <3>1. later \in SUBSET Nat
      BY <1>1
    <3>. HIDE DEF later
    <3>2. \E m \in later : \A n \in later : m <= n
      BY <2>3, <3>1, LeastExists
    <3>3. Min(later) \in later
      BY <3>2 DEF Min
    <3>4. Min(later) \in 1 .. 4 /\ lists[Kind(Loops[Min(later)])] # <<>>
      BY <1>1, <3>3 DEF later
    <3>5. phase' = Loops[Min(later)]
      BY <2>1, <2>3
    <3>6. PICK T : lists[Kind(phase')] \in Seq(T)
      BY <1>3
    <3>7. 1 \in DOMAIN lists[Kind(phase')]
      BY <3>4, <3>5, <3>6
    <3>. QED
      BY <1>2, <2>1, <3>4, <3>5, <3>7
  <2>. QED
    BY <2>2, <2>3
<1>. QED
  BY <1>4, <1>5

\* A sequence without its element at n.
LEMMA RemoveAtFacts ==
    ASSUME NEW T, NEW s \in Seq(T), NEW n \in DOMAIN s
    PROVE  /\ RemoveAt(s, n) \in Seq(T) /\ Len(RemoveAt(s, n)) = Len(s) - 1
           /\ \A i \in 1 .. Len(s) - 1 : RemoveAt(s, n)[i] = IF i < n THEN s[i] ELSE s[i + 1]
<1>1. n \in 1 .. Len(s) /\ Len(s) \in Nat
  OBVIOUS
<1>. DEFINE a == SubSeq(s, 1, n - 1)
            b == SubSeq(s, n + 1, Len(s))
<1>2. a \in Seq(T) /\ Len(a) = n - 1 /\ \A i \in 1 .. n - 1 : a[i] = s[i]
  BY <1>1
<1>3. b \in Seq(T) /\ Len(b) = Len(s) - n /\ \A i \in 1 .. Len(s) - n : b[i] = s[n + i]
  BY <1>1
<1>. HIDE DEF a, b
<1>4. /\ a \o b \in Seq(T) /\ Len(a \o b) = Len(s) - 1
      /\ \A i \in 1 .. Len(s) - 1 : (a \o b)[i] = IF i < n THEN a[i] ELSE b[i - (n - 1)]
  <2>1. a \o b \in Seq(T) /\ Len(a \o b) = Len(a) + Len(b)
    BY <1>2, <1>3, ConcatProperties
  <2>2. Len(a \o b) = Len(s) - 1
    BY <1>1, <1>2, <1>3, <2>1
  <2>3. \A i \in 1 .. Len(a) + Len(b) :
            (a \o b)[i] = IF i <= Len(a) THEN a[i] ELSE b[i - Len(a)]
    BY <1>2, <1>3, ConcatProperties
  <2>4. Len(a) = n - 1 /\ Len(a) + Len(b) = Len(s) - 1
    BY <1>1, <1>2, <1>3
  <2>5. ASSUME NEW i \in 1 .. Len(s) - 1
        PROVE  (a \o b)[i] = IF i < n THEN a[i] ELSE b[i - (n - 1)]
    <3>1. i <= n - 1 <=> i < n
      BY <1>1
    <3>. QED
      BY <2>3, <2>4, <3>1
  <2>. QED
    BY <2>1, <2>2, <2>5
<1>5. ASSUME NEW i \in 1 .. Len(s) - 1 PROVE (a \o b)[i] = IF i < n THEN s[i] ELSE s[i + 1]
  <2>1. CASE i < n
    BY <1>1, <1>2, <1>4, <2>1
  <2>2. CASE ~(i < n)
    <3>1. i - (n - 1) \in 1 .. Len(s) - n /\ n + (i - (n - 1)) = i + 1
      BY <1>1, <2>2
    <3>. QED
      BY <1>3, <1>4, <2>2, <3>1
  <2>. QED
    BY <2>1, <2>2
<1>. QED
  BY <1>4, <1>5 DEF RemoveAt, a, b

-----------------------------------------------------------------------------
(* Types *)

LEMMA Assumptions ==
    /\ IsFiniteSet(Clients) /\ RecvClients \intersect SendClients = {}
    /\ \A c \in Clients : LinkOf[c] \in Links /\ Reserved[c] \in Nat \ {0}
                          /\ NumPortFrames(c) \in Nat \ {0} /\ MaxPkts[c] \in Nat
    /\ \A l \in Links : NumFrames[l] \in Nat \ {0}
    /\ Window \in Nat \ {0} /\ SendFrames \in Nat \ {0} /\ None \notin Clients
    /\ RecvClients \subseteq Clients /\ SendClients \subseteq Clients
    /\ \A c \in Clients : c \in RecvClients <=> c \notin SendClients
  BY OffloadAssumption DEF NumPortFrames, Clients

LEMMA ClientsFinite == \A l : ClientsOn(l) \subseteq Clients /\ IsFiniteSet(ClientsOn(l))
  BY Assumptions, FS_Subset DEF ClientsOn

LEMMA Mine ==
    Typed /\ TurnOfOne /\ phase # "request" =>
        /\ me \in Clients /\ LinkOf[me] \in Links
        /\ turn \in DOMAIN clients[Kind(phase)]
        /\ Kind(phase) = "recv" => me \in RecvClients
        /\ Kind(phase) = "send" => me \in SendClients
<1>1. SUFFICES ASSUME Typed, TurnOfOne, phase # "request"
               PROVE  /\ me \in Clients /\ LinkOf[me] \in Links
                      /\ turn \in DOMAIN clients[Kind(phase)]
                      /\ Kind(phase) = "recv" => me \in RecvClients
                      /\ Kind(phase) = "send" => me \in SendClients
  OBVIOUS
<1>2. turn \in DOMAIN clients[Kind(phase)]
  BY <1>1 DEF TurnOfOne
<1>3. clients.recv \in Seq(RecvClients) /\ clients.send \in Seq(SendClients)
  BY <1>1 DEF Typed, ThreadTypes
<1>4. Kind(phase) = "recv" => clients[Kind(phase)] = clients.recv
  OBVIOUS
<1>5. Kind(phase) = "send" => clients[Kind(phase)] = clients.send
  OBVIOUS
<1>6. Kind(phase) = "recv" => me \in RecvClients
  BY <1>2, <1>3, <1>4 DEF me
<1>7. Kind(phase) = "send" => me \in SendClients
  BY <1>2, <1>3, <1>5 DEF me
<1>8. Kind(phase) \in {"recv", "send"}
  BY DEF Kind
<1>. QED
  BY <1>2, <1>6, <1>7, <1>8, Assumptions

LEMMA ListsTyped ==
    Typed => \A k \in {"recv", "send"} : \E T : clients[k] \in Seq(T)
  BY DEF Typed, ThreadTypes

\* The turn after this one, and the first one after a request.
LEMMA Turns ==
    ASSUME Typed, Typed' \/ clients' = clients, NEW loop, NEW i \in Nat \ {0},
           loop \in {"get_recv", "release_recv", "get_send", "release_send"},
           From(loop, i, clients')
    PROVE  phase' \in Phases /\ turn' \in Nat \ {0} /\ TurnOfOne' /\ ~Erasing'
<1>1. \A k \in {"recv", "send"} : \E T : clients'[k] \in Seq(T)
  BY ListsTyped DEF Typed, ThreadTypes
<1>2. /\ phase' \in {"get_recv", "release_recv", "get_send", "release_send", "request"}
      /\ turn' \in Nat \ {0}
      /\ phase' # "request" => turn' \in DOMAIN clients'[Kind(phase')]
  <2>. DEFINE lists == clients'
  <2>1. From(loop, i, lists) /\ \A k \in {"recv", "send"} : \E T : lists[k] \in Seq(T)
    BY <1>1
  <2>. HIDE DEF lists
  <2>2. /\ phase' \in {"get_recv", "release_recv", "get_send", "release_send", "request"}
        /\ turn' \in Nat \ {0}
        /\ phase' # "request" => turn' \in DOMAIN lists[Kind(phase')]
    BY <2>1, NextTurn
  <2>. QED
    BY <2>2 DEF lists
<1>. QED
  BY <1>2 DEF Phases, TurnOfOne, Erasing

LEMMA Advances ==
    ASSUME Typed, TurnOfOne, phase \in {"get_recv", "release_recv", "get_send", "release_send"},
           Advance, clients' = clients
    PROVE  phase' \in Phases /\ turn' \in Nat \ {0} /\ TurnOfOne' /\ ~Erasing'
<1>1. turn + 1 \in Nat \ {0}
  BY DEF Typed, ThreadTypes
<1>2. From(phase, turn + 1, clients')
  BY DEF Advance
<1>. QED
  BY <1>1, <1>2, Turns

LEMMA TypedPieces ==
    Typed => \A c \in Clients :
        /\ InCall(c) \in Seq(Nat) /\ Len(InCall(c)) \in {0, 1}
        /\ PacketsOf(c) \in Seq(Nat) /\ GivenBack(c) \in Seq(Nat)
        /\ from_q[c] \in Seq(Nat) /\ to_q[c] \in Seq(Nat) /\ queues[c] \in Seq(Nat)
        /\ held[c] \in Nat /\ in_use[c] \in Int
        /\ FramesOut(c) \in Nat /\ FramesOf(c) \in Nat /\ frames[c] = FramesOf(c)
<1>1. SUFFICES ASSUME Typed, NEW c \in Clients
               PROVE  /\ InCall(c) \in Seq(Nat) /\ Len(InCall(c)) \in {0, 1}
                      /\ PacketsOf(c) \in Seq(Nat) /\ GivenBack(c) \in Seq(Nat)
                      /\ from_q[c] \in Seq(Nat) /\ to_q[c] \in Seq(Nat) /\ queues[c] \in Seq(Nat)
                      /\ held[c] \in Nat /\ in_use[c] \in Int
                      /\ FramesOut(c) \in Nat /\ FramesOf(c) \in Nat /\ frames[c] = FramesOf(c)
  OBVIOUS
<1>2. /\ from_q[c] \in Seq(Nat) /\ to_q[c] \in Seq(Nat) /\ held[c] \in Nat
      /\ queues[c] \in Seq(Nat) /\ in_use[c] \in Int /\ call.packet \in Nat
      /\ net[LinkOf[c]] \in Seq(Clients \X Nat)
  BY <1>1, Assumptions DEF Typed, InlineTypes, ThreadTypes, PortTypes
<1>3. InCall(c) \in Seq(Nat) /\ Len(InCall(c)) \in {0, 1}
  <2>1. /\ <<call.packet>> \in Seq(Nat) /\ Len(<<call.packet>>) = 1
        /\ <<>> \in Seq(Nat) /\ Len(<<>>) = 0
    BY <1>2
  <2>. QED
    BY <2>1 DEF InCall
<1>4. PacketsOf(c) \in Seq(Nat)
  <2>1. Numbers(net[LinkOf[c]], c) \in Seq(Nat)
    BY <1>2, NumbersTyped
  <2>. QED
    BY <2>1, PacketsNumbers
<1>5. GivenBack(c) \in Seq(Nat)
  BY <1>2, OnlyType DEF GivenBack
<1>6. /\ Len(from_q[c]) \in Nat /\ Len(GivenBack(c)) \in Nat
      /\ Len(queues[c]) \in Nat /\ Len(InCall(c)) \in Nat
  BY <1>2, <1>3, <1>5
<1>7. FramesOut(c) \in Nat
  BY <1>2, <1>6 DEF FramesOut
<1>8. FramesOf(c) \in Nat
  BY <1>6, <1>7 DEF FramesOf
<1>9. frames[c] = FramesOf(c)
  BY DEF frames
<1>. QED
  BY <1>2, <1>3, <1>4, <1>5, <1>7, <1>8, <1>9

\* What calls into the inline service do, when they throw and when they do not.
LEMMA RecvSteps ==
    ASSUME NEW c, Recv(c)
    PROVE  /\ UNCHANGED <<net, free, table, updates>>
           /\ \/ UNCHANGED <<queues, call>> /\ crashed' # "no"
              \/ /\ HasQueued(c) /\ queues' = [queues EXCEPT ![c] = Tail(@)] /\ crashed' = crashed
                 /\ call' = [op |-> "recv", client |-> c, state |-> "done", packet |-> Head(queues[c])]
              \/ /\ ~HasQueued(c) /\ queues' = queues /\ crashed' = crashed
                 /\ call' = [op |-> "recv", client |-> c, state |-> "loop", packet |-> 0]
  BY DEF Recv, Calls, Crash

LEMMA RecvFlowCtrlSteps ==
    ASSUME NEW c, RecvFlowCtrl(c)
    PROVE  /\ UNCHANGED <<net, free, table, queues, updates>>
           /\ \/ call' = call /\ crashed' # "no"
              \/ /\ call' = [op |-> "fc", client |-> c, state |-> "loop", packet |-> 0]
                 /\ crashed' = crashed
  BY DEF RecvFlowCtrl, Calls, Crash

LEMMA DisconnectSteps ==
    ASSUME NEW c, DisconnectReceiver(c)
    PROVE  LET l == LinkOf[c] IN
           /\ UNCHANGED <<net, rcvr, updates, call>>
           /\ \/ UNCHANGED <<free, attached, mux, callbacks, alive, queues>> /\ crashed' # "no"
              \/ /\ alive' = alive \ {c} /\ attached' = attached \union {l} /\ crashed' = crashed
                 /\ IF l \in mux
                    THEN /\ free' = [free EXCEPT ![l] = @ + FramesBack(c)]
                         /\ queues' = [queues EXCEPT ![c] = <<>>]
                         /\ callbacks' = [callbacks EXCEPT ![l] = Only(@, Clients \ {c})]
                         /\ mux' = IF callbacks[l] = <<c>> THEN mux \ {l} ELSE mux
                    ELSE UNCHANGED <<free, queues, callbacks, mux>>
  BY DEF DisconnectReceiver, Crash, table

\* Each action keeps the types.
LEMMA GetRecvBuffTypes ==
    ASSUME Typed, TurnOfOne, GetRecvBuff PROVE Typed' /\ TurnOfOne'
<1>1. phase = "get_recv" /\ me \in RecvClients /\ me \in Clients
  BY Mine DEF GetRecvBuff, Turn, Kind
<1>2. PortTypes' /\ (UNCHANGED <<phase, turn>> => ThreadTypes' /\ TurnOfOne')
  BY DEF GetRecvBuff, Typed, ThreadTypes, PortTypes, port, users, TurnOfOne
<1>3. ASSUME Recv(me), UNCHANGED <<phase, turn>>
      PROVE  Typed' /\ TurnOfOne'
  <2>1. queues' \in [Clients -> Seq(Nat)] /\ call' \in [op : {"none", "recv", "fc"},
           client : Clients \union {None}, state : {"idle", "loop", "none", "done"}, packet : Nat]
    <3>1. CASE UNCHANGED <<queues, call>>
      BY <3>1 DEF Typed, InlineTypes
    <3>2. CASE /\ HasQueued(me) /\ queues' = [queues EXCEPT ![me] = Tail(@)]
               /\ call' = [op |-> "recv", client |-> me, state |-> "done", packet |-> Head(queues[me])]
      <4>1. queues[me] \in Seq(Nat) /\ queues[me] # <<>>
        BY <1>1, <3>2 DEF HasQueued, Typed, InlineTypes
      <4>2. Head(queues[me]) \in Nat /\ Tail(queues[me]) \in Seq(Nat)
        BY <4>1
      <4>. QED
        BY <1>1, <3>2, <4>2 DEF Typed, InlineTypes
    <3>3. CASE /\ queues' = queues
               /\ call' = [op |-> "recv", client |-> me, state |-> "loop", packet |-> 0]
      BY <1>1, <3>3 DEF Typed, InlineTypes
    <3>. QED
      BY <1>3, <3>1, <3>2, <3>3, RecvSteps
  <2>2. UNCHANGED <<net, free, table, updates>>
    BY <1>3, RecvSteps
  <2>3. InlineTypes'
    BY <2>1, <2>2 DEF Typed, InlineTypes, table
  <2>. QED
    BY <1>3, <1>2, <2>3 DEF Typed
<1>5. ASSUME ~MayGet(me), Advance, UNCHANGED inline PROVE Typed' /\ TurnOfOne'
  <2>1. phase' \in Phases /\ turn' \in Nat \ {0} /\ TurnOfOne'
    BY <1>1, <1>5, Advances DEF GetRecvBuff
  <2>. QED
    BY <1>5, <2>1 DEF GetRecvBuff, Typed, InlineTypes, ThreadTypes, PortTypes,
       port, users, table, inline
<1>. QED
  BY <1>3, <1>5 DEF GetRecvBuff

LEMMA GotRecvBuffTypes ==
    ASSUME Typed, TurnOfOne, GotRecvBuff PROVE Typed' /\ TurnOfOne'
<1>1. phase = "get_recv" /\ me \in Clients
  BY Mine DEF GotRecvBuff, Turn
<1>2. phase' \in Phases /\ turn' \in Nat \ {0} /\ TurnOfOne'
  BY <1>1, Advances DEF GotRecvBuff
<1>3. from_q' \in [Clients -> Seq(Nat)] /\ in_use' \in [Clients -> Int]
  <2>1. call.packet \in Nat
    BY DEF Typed, InlineTypes
  <2>2. Append(from_q[me], call.packet) \in Seq(Nat)
    BY <1>1, <2>1 DEF Typed, PortTypes
  <2>3. in_use[me] + 1 \in Int
    BY <1>1 DEF Typed, ThreadTypes
  <2>4. CASE call.state = "done"
    <3>1. /\ from_q' = [from_q EXCEPT ![me] = Append(from_q[me], call.packet)]
          /\ in_use' = [in_use EXCEPT ![me] = in_use[me] + 1]
      BY <2>4 DEF GotRecvBuff
    <3>. QED
      BY <1>1, <2>2, <2>3, <3>1 DEF Typed, ThreadTypes, PortTypes
  <2>5. CASE call.state # "done"
    BY <2>5 DEF GotRecvBuff, Typed, ThreadTypes, PortTypes
  <2>. QED
    BY <2>4, <2>5
<1>4. InlineTypes'
  BY DEF GotRecvBuff, HangUp, Typed, InlineTypes, table, Idle
<1>. QED
  BY <1>2, <1>3, <1>4 DEF GotRecvBuff, Typed, ThreadTypes, PortTypes, users

LEMMA ReleaseRecvBuffsTypes ==
    ASSUME Typed, TurnOfOne, ReleaseRecvBuffs PROVE Typed' /\ TurnOfOne'
<1>1. phase = "release_recv" /\ me \in Clients /\ LinkOf[me] \in Links
  BY Mine DEF ReleaseRecvBuffs, Turn
<1>2. phase' \in Phases /\ turn' \in Nat \ {0} /\ TurnOfOne'
  BY <1>1, Advances DEF ReleaseRecvBuffs
<1>3. /\ to_q' \in [Clients -> Seq(Nat)] /\ in_use' \in [Clients -> Int]
      /\ free' \in [Links -> Int]
  <2>1. to_q[me] # <<>> => Tail(to_q[me]) \in Seq(Nat)
    BY <1>1 DEF Typed, PortTypes
  <2>2. in_use[me] - 1 \in Int /\ free[LinkOf[me]] + 1 \in Int
    BY <1>1 DEF Typed, ThreadTypes, InlineTypes
  <2>3. to_q' \in [Clients -> Seq(Nat)]
    BY <1>1, <2>1 DEF ReleaseRecvBuffs, PopTo, Typed, PortTypes
  <2>4. in_use' \in [Clients -> Int]
    BY <1>1, <2>2 DEF ReleaseRecvBuffs, Typed, ThreadTypes
  <2>5. free' \in [Links -> Int]
    BY <1>1, <2>2 DEF ReleaseRecvBuffs, ReleaseRecvBuff, Typed, InlineTypes
  <2>. QED
    BY <2>3, <2>4, <2>5
<1>. QED
  BY <1>2, <1>3 DEF ReleaseRecvBuffs, Typed, ThreadTypes, PortTypes, InlineTypes, users, table

LEMMA DisconnectTypes ==
    ASSUME Typed, TurnOfOne, NEW p \in {"release_recv", "release_send"}, Disconnect(p)
    PROVE  Typed' /\ TurnOfOne'
<1>1. phase = p /\ me \in Clients /\ LinkOf[me] \in Links /\ turn \in DOMAIN clients[Kind(phase)]
  BY Mine DEF Disconnect, Turn
<1>2. to_q[me] # <<>> /\ to_q[me] \in Seq(Nat) /\ Len(from_q[me]) \in Nat /\ Reserved[me] \in Nat
  BY <1>1, Assumptions DEF Disconnect, DisconnectNext, Typed, PortTypes
<1>3. /\ Tail(to_q[me]) \in Seq(Nat) /\ in_use[me] - Len(from_q[me]) \in Int
      /\ free[LinkOf[me]] + Len(from_q[me]) \in Int /\ reserved[LinkOf[me]] - Reserved[me] \in Int
  <2>1. Tail(to_q[me]) \in Seq(Nat)
    BY <1>2
  <2>2. in_use[me] \in Int /\ free[LinkOf[me]] \in Int /\ reserved[LinkOf[me]] \in Int
    BY <1>1 DEF Typed, InlineTypes, ThreadTypes
  <2>. QED
    BY <1>2, <2>1, <2>2
<1>4. PortTypes'
  BY <1>1, <1>3 DEF Disconnect, PopTo, Typed, PortTypes, users
<1>5. InlineTypes'
  BY <1>1, <1>3 DEF Disconnect, Typed, InlineTypes, table
<1>6. /\ phase' \in Phases /\ Kind(phase') = Kind(phase)
  BY <1>1 DEF Disconnect, EraseIn, Phases, Kind
<1>7. TurnOfOne'
  BY <1>1, <1>6 DEF Disconnect, TurnOfOne
<1>8. ThreadTypes'
  BY <1>1, <1>3, <1>6 DEF Disconnect, Typed, ThreadTypes
<1>. QED
  BY <1>4, <1>5, <1>7, <1>8 DEF Typed

LEMMA EraseTypes ==
    ASSUME Typed, TurnOfOne, NEW p \in {"release_recv", "release_send"}, Erase(p)
    PROVE  Typed' /\ TurnOfOne'
<1>1. /\ phase = EraseIn[p] /\ me \in Clients /\ LinkOf[me] \in Links
      /\ turn \in DOMAIN clients[Kind(phase)]
  <2>1. phase = EraseIn[p] /\ phase # "request"
    BY DEF Erase, Turn, EraseIn
  <2>. QED
    BY <2>1, Mine
<1>2. Kind(p) = Kind(phase) /\ Kind(p) \in {"recv", "send"}
  BY <1>1 DEF EraseIn, Kind
<1>3. clients' \in [recv : Seq(RecvClients), send : Seq(SendClients)]
  <2>1. clients \in [recv : Seq(RecvClients), send : Seq(SendClients)]
    BY DEF Typed, ThreadTypes
  <2>2. CASE Kind(p) = "recv"
    <3>1. clients.recv \in Seq(RecvClients) /\ turn \in DOMAIN clients.recv
      BY <1>1, <1>2, <2>1, <2>2
    <3>2. RemoveAt(clients.recv, turn) \in Seq(RecvClients)
      BY <3>1, RemoveAtFacts
    <3>. QED
      BY <2>1, <2>2, <3>2 DEF Erase
  <2>3. CASE Kind(p) = "send"
    <3>1. clients.send \in Seq(SendClients) /\ turn \in DOMAIN clients.send
      BY <1>1, <1>2, <2>1, <2>3
    <3>2. RemoveAt(clients.send, turn) \in Seq(SendClients)
      BY <3>1, RemoveAtFacts
    <3>. QED
      BY <2>1, <2>3, <3>2 DEF Erase
  <2>. QED
    BY <1>2, <2>2, <2>3
<1>4. phase' \in Phases /\ turn' \in Nat \ {0} /\ TurnOfOne'
  <2>1. \A k \in {"recv", "send"} : \E T : clients'[k] \in Seq(T)
    BY <1>3
  <2>. DEFINE lists == clients'
  <2>2. turn \in Nat \ {0} /\ From(p, turn, lists)
    BY DEF Erase, Typed, ThreadTypes
  <2>3. \A k \in {"recv", "send"} : \E T : lists[k] \in Seq(T)
    BY <2>1
  <2>. HIDE DEF lists
  <2>4. /\ phase' \in {"get_recv", "release_recv", "get_send", "release_send", "request"}
        /\ turn' \in Nat \ {0}
        /\ phase' # "request" => turn' \in DOMAIN lists[Kind(phase')]
    BY <2>2, <2>3, NextTurn
  <2>. QED
    BY <2>4 DEF lists, Phases, TurnOfOne
<1>5. InlineTypes'
  <2>1. /\ \A l \in Links : callbacks[l] \in Seq(Clients)
        /\ FramesBack(me) \in Nat
    BY <1>1 DEF Typed, InlineTypes, FramesBack
  <2>2. Only(callbacks[LinkOf[me]], Clients \ {me}) \in Seq(Clients)
    BY <1>1, <2>1, OnlyType
  <2>3. free[LinkOf[me]] + FramesBack(me) \in Int /\ <<>> \in Seq(Nat)
    BY <1>1, <2>1 DEF Typed, InlineTypes
  <2>4. DisconnectReceiver(me)
    BY DEF Erase
  <2>5. /\ free' \in [Links -> Int] /\ queues' \in [Clients -> Seq(Nat)]
        /\ callbacks' \in [Links -> Seq(Clients)]
        /\ attached' \subseteq Links /\ mux' \subseteq Links /\ alive' \subseteq Clients
    <3>1. PICK c \in Clients : c = me
      BY <1>1
    <3>. DEFINE l == LinkOf[c]
                given == free[l] + FramesBack(c)
                left == Only(callbacks[l], Clients \ {c})
    <3>2. /\ l \in Links /\ given \in Int /\ left \in Seq(Clients) /\ <<>> \in Seq(Nat)
          /\ DisconnectReceiver(c)
      BY <3>1, <1>1, <2>2, <2>3, <2>4
    <3>3. \/ UNCHANGED <<free, attached, mux, callbacks, alive, queues>>
          \/ /\ alive' = alive \ {c} /\ attached' = attached \union {l}
             /\ \/ /\ l \in mux
                   /\ free' = [free EXCEPT ![l] = given]
                   /\ queues' = [queues EXCEPT ![c] = <<>>]
                   /\ callbacks' = [callbacks EXCEPT ![l] = left]
                   /\ mux' \in {mux, mux \ {l}}
                \/ UNCHANGED <<free, queues, callbacks, mux>>
      BY <3>2, DisconnectSteps
    <3>. HIDE DEF l, given, left
    <3>4. /\ free \in [Links -> Int] /\ queues \in [Clients -> Seq(Nat)]
          /\ callbacks \in [Links -> Seq(Clients)]
          /\ attached \subseteq Links /\ mux \subseteq Links /\ alive \subseteq Clients
      BY DEF Typed, InlineTypes
    <3>5. CASE UNCHANGED <<free, attached, mux, callbacks, alive, queues>>
      BY <3>4, <3>5
    <3>6. CASE ~UNCHANGED <<free, attached, mux, callbacks, alive, queues>>
      <4>1. attached' \subseteq Links /\ mux' \subseteq Links /\ alive' \subseteq Clients
        BY <3>2, <3>3, <3>4, <3>6
      <4>2. free' \in [Links -> Int]
        BY <3>2, <3>3, <3>4, <3>6
      <4>3. queues' \in [Clients -> Seq(Nat)]
        BY <3>2, <3>3, <3>4, <3>6
      <4>4. callbacks' \in [Links -> Seq(Clients)]
        BY <3>2, <3>3, <3>4, <3>6
      <4>. QED
        BY <4>1, <4>2, <4>3, <4>4
    <3>. QED
      BY <3>5, <3>6
  <2>. QED
    BY <2>4, <2>5, DisconnectSteps DEF Typed, InlineTypes
<1>6. PortTypes'
  BY DEF Erase, port, users, Typed, PortTypes
<1>. QED
  BY <1>3, <1>4, <1>5, <1>6 DEF Erase, Typed, ThreadTypes

LEMMA SendTypes ==
    ASSUME Typed, TurnOfOne, GetSendBuff \/ AwaitDest \/ ReleaseSendBuff \/ NoSend
    PROVE  Typed' /\ TurnOfOne'
<1>1. phase \in {"get_send", "release_send"} /\ me \in Clients
  BY Mine DEF GetSendBuff, AwaitDest, ReleaseSendBuff, NoSend, Turn
<1>2. CASE GetSendBuff
  <2>1. phase' \in Phases /\ turn' \in Nat \ {0} /\ TurnOfOne'
    BY <1>1, <1>2, Advances DEF GetSendBuff
  <2>2. Append(from_q[me], Frame) \in Seq(Nat) /\ in_use[me] + 1 \in Int
    BY <1>1 DEF Typed, PortTypes, ThreadTypes, Frame
  <2>3. from_q' \in [Clients -> Seq(Nat)]
    BY <1>1, <1>2, <2>2 DEF GetSendBuff, Typed, PortTypes
  <2>4. in_use' \in [Clients -> Int]
    BY <1>1, <1>2, <2>2 DEF GetSendBuff, Typed, ThreadTypes
  <2>. QED
    BY <1>2, <2>1, <2>3, <2>4 DEF GetSendBuff, Typed, ThreadTypes, PortTypes, InlineTypes, inline, table,
       users
<1>3. CASE AwaitDest
  <2>1. RecvFlowCtrl(me)
    BY <1>3 DEF AwaitDest
  <2>2. call' = call \/ call' = [op |-> "fc", client |-> me, state |-> "loop", packet |-> 0]
    BY <2>1, RecvFlowCtrlSteps
  <2>3. InlineTypes'
    BY <1>1, <2>1, <2>2, RecvFlowCtrlSteps DEF Typed, InlineTypes, table
  <2>. QED
    BY <1>1, <1>3, <2>3 DEF AwaitDest, Typed, ThreadTypes, PortTypes, port, thread, users, TurnOfOne
<1>4. CASE ReleaseSendBuff
  <2>1. phase' \in Phases /\ turn' \in Nat \ {0} /\ TurnOfOne'
    BY <1>1, <1>4, Advances DEF ReleaseSendBuff
  <2>2. to_q[me] \in Seq(Nat) /\ to_q[me] # <<>>
    BY <1>1, <1>4 DEF ReleaseSendBuff, FrameNext, Typed, PortTypes
  <2>3. Head(to_q[me]) \in Nat /\ Tail(to_q[me]) \in Seq(Nat) /\ in_use[me] - 1 \in Int
    BY <1>1, <2>2 DEF Typed, ThreadTypes
  <2>4. /\ last' \in [Clients -> Nat] /\ in_use' \in [Clients -> Int]
        /\ to_q' \in [Clients -> Seq(Nat)]
    BY <1>1, <1>4, <2>3 DEF ReleaseSendBuff, PopTo, Typed, PortTypes, ThreadTypes
  <2>. QED
    BY <1>4, <2>1, <2>4 DEF ReleaseSendBuff, HangUp, Idle, Typed, ThreadTypes, PortTypes,
       InlineTypes, table
<1>5. CASE NoSend
  <2>1. phase' \in Phases /\ turn' \in Nat \ {0} /\ TurnOfOne'
    BY <1>1, <1>5, Advances DEF NoSend
  <2>. QED
    BY <1>5, <2>1 DEF NoSend, HangUp, Idle, Typed, ThreadTypes, PortTypes, InlineTypes, table,
       port, users
<1>. QED
  BY <1>2, <1>3, <1>4, <1>5

LEMMA RequestParts ==
    ASSUME Typed, requests # <<>>
    PROVE  /\ requests' = Tail(requests) => requests' \in Seq(Requests)
           /\ \/ Head(requests)[1] = "connect" /\ Head(requests)[2] \in Clients
              \/ Head(requests)[1] \in {"attach", "detach"} /\ Head(requests)[2] \in Links
           /\ Head(requests) \in Requests /\ requests \in Seq(Requests)
           /\ Head(requests) = <<Head(requests)[1], Head(requests)[2]>>
<1>1. requests \in Seq(Requests)
  BY DEF Typed, ThreadTypes
<1>2. Head(requests) \in Requests /\ Tail(requests) \in Seq(Requests)
  BY <1>1
<1>. QED
  BY <1>1, <1>2 DEF Requests

\* What a request does to the lists and the table.
LEMMA MakeClientTypes ==
    ASSUME Typed, NEW c \in Clients, MakeClient(c)
    PROVE  /\ clients' \in [recv : Seq(RecvClients), send : Seq(SendClients)]
           /\ reserved' \in [Links -> Int] /\ connected' \subseteq Clients /\ InlineTypes'
<1>. DEFINE l == LinkOf[c]
<1>1. l \in Links /\ Reserved[c] \in Nat
  BY Assumptions
<1>2. ASSUME reserved' = [reserved EXCEPT ![l] = @ + Reserved[c]],
             ConnectReceiver(c),
             clients' = [clients EXCEPT ![IF c \in RecvClients THEN "recv" ELSE "send"] =
                            Append(@, c)],
             connected' = connected \union {c}
      PROVE  /\ clients' \in [recv : Seq(RecvClients), send : Seq(SendClients)]
             /\ reserved' \in [Links -> Int] /\ connected' \subseteq Clients /\ InlineTypes'
  <2>1. reserved' \in [Links -> Int]
    <3>1. reserved \in [Links -> Int] /\ reserved[l] + Reserved[c] \in Int
      BY <1>1 DEF Typed, ThreadTypes
    <3>. QED
      BY <1>1, <1>2, <3>1
  <2>2. clients' \in [recv : Seq(RecvClients), send : Seq(SendClients)]
    <3>1. clients.recv \in Seq(RecvClients) /\ clients.send \in Seq(SendClients)
          /\ clients \in [recv : Seq(RecvClients), send : Seq(SendClients)]
      BY DEF Typed, ThreadTypes
    <3>2. CASE c \in RecvClients
      <4>1. Append(clients.recv, c) \in Seq(RecvClients)
        BY <3>1, <3>2
      <4>. QED
        BY <1>2, <3>1, <3>2, <4>1
    <3>3. CASE c \notin RecvClients
      <4>1. c \in SendClients
        BY <3>3 DEF Clients
      <4>2. Append(clients.send, c) \in Seq(SendClients)
        BY <3>1, <4>1
      <4>. QED
        BY <1>2, <3>1, <3>3, <4>2
    <3>. QED
      BY <3>2, <3>3
  <2>3. connected' \subseteq Clients
    BY <1>2 DEF Typed, PortTypes
  <2>4. InlineTypes'
    <3>1. /\ rcvr \in [Links -> Clients \union {None}] /\ callbacks \in [Links -> Seq(Clients)]
          /\ attached \subseteq Links /\ mux \subseteq Links /\ alive \subseteq Clients
      BY DEF Typed, InlineTypes
    <3>2. Append(callbacks[l], c) \in Seq(Clients)
      BY <1>1, <3>1
    <3>3. rcvr[l] # None => <<rcvr[l], c>> \in Seq(Clients)
      <4>1. rcvr[l] # None => rcvr[l] \in Clients
        BY <1>1, <3>1
      <4>. QED
        BY <4>1
    <3>4. /\ callbacks' \in [Links -> Seq(Clients)] /\ rcvr' \in [Links -> Clients \union {None}]
          /\ mux' \subseteq Links /\ attached' \subseteq Links /\ alive' \subseteq Clients
      <4>1. CASE l \notin attached
        BY <1>2, <3>1, <4>1 DEF ConnectReceiver, Crash, table
      <4>2. CASE l \in attached /\ l \in mux
        BY <1>1, <1>2, <3>1, <3>2, <4>2 DEF ConnectReceiver
      <4>3. CASE l \in attached /\ l \notin mux /\ rcvr[l] # None
        <5>1. /\ callbacks' = [callbacks EXCEPT ![l] = <<rcvr[l], c>>]
              /\ rcvr' = [rcvr EXCEPT ![l] = None] /\ mux' = mux \union {l}
              /\ attached' = attached /\ alive' = alive \union {c}
          BY <1>2, <4>3 DEF ConnectReceiver
        <5>. QED
          BY <1>1, <3>1, <3>3, <4>3, <5>1
      <4>4. CASE l \in attached /\ l \notin mux /\ rcvr[l] = None
        BY <1>1, <1>2, <3>1, <4>4 DEF ConnectReceiver
      <4>. QED
        BY <4>1, <4>2, <4>3, <4>4
    <3>5. UNCHANGED <<net, free, queues, updates, call>>
      BY <1>2 DEF ConnectReceiver, Crash
    <3>. QED
      BY <3>4, <3>5 DEF Typed, InlineTypes
  <2>. QED
    BY <2>1, <2>2, <2>3, <2>4
<1>3. CASE reserved[l] + Reserved[c] > NumFrames[l]
  BY <1>3 DEF MakeClient, Crash, Typed, InlineTypes, ThreadTypes, PortTypes, table
<1>. QED
  BY <1>2, <1>3 DEF MakeClient

LEMMA RequestTypes ==
    ASSUME Typed, TurnOfOne, Request PROVE Typed' /\ TurnOfOne'
<1>1. CASE requests = <<>>
  <2>1. phase' \in Phases /\ turn' \in Nat \ {0} /\ TurnOfOne'
    BY <1>1, Turns DEF Request
  <2>. QED
    BY <1>1, <2>1 DEF Request, Typed, ThreadTypes, PortTypes, InlineTypes, inline, table, users
<1>2. CASE requests # <<>>
  <2>. DEFINE whose == Head(requests)[2]
  <2>1. requests' \in Seq(Requests)
    BY <1>2, RequestParts DEF Request
  <2>2. /\ clients' \in [recv : Seq(RecvClients), send : Seq(SendClients)]
        /\ reserved' \in [Links -> Int] /\ connected' \subseteq Clients /\ InlineTypes'
    <3>1. CASE Head(requests)[1] = "attach" /\ Attach(whose)
      <4>1. whose \in Links
        BY <1>2, <3>1, RequestParts
      <4>2. UNCHANGED <<clients, connected>> /\ reserved' \in [Links -> Int]
        BY <3>1, <4>1 DEF Attach, Typed, ThreadTypes
      <4>3. /\ attached' \subseteq Links
            /\ UNCHANGED <<net, free, mux, rcvr, callbacks, alive, queues, updates, call>>
        BY <3>1, <4>1 DEF Attach, Crash, AttachRecvLink, Typed, InlineTypes, table
      <4>4. InlineTypes'
        BY <4>3 DEF Typed, InlineTypes
      <4>. QED
        BY <4>2, <4>4 DEF Typed, ThreadTypes, PortTypes
    <3>2. CASE Head(requests)[1] = "detach" /\ Detach(whose)
      <4>1. whose \in Links
        BY <1>2, <3>2, RequestParts
      <4>2. reserved' \in [Links -> Int] /\ clients' = clients /\ connected' = connected
        BY <3>2, <4>1 DEF Detach, Typed, ThreadTypes
      <4>3. <<>> \in Seq(Clients)
        OBVIOUS
      <4>4. InlineTypes'
        BY <3>2, <4>1, <4>3 DEF Detach, DetachRecvLink, Crash, Typed, InlineTypes, table
      <4>. QED
        BY <4>2, <4>4 DEF Typed, ThreadTypes, PortTypes
    <3>3. CASE Head(requests)[1] = "connect" /\ MakeClient(whose)
      <4>1. whose \in Clients
        BY <1>2, <3>3, RequestParts
      <4>. QED
        BY <3>3, <4>1, MakeClientTypes
    <3>. QED
      BY <1>2, <3>1, <3>2, <3>3 DEF Request
  <2>3. phase' \in Phases /\ turn' \in Nat \ {0} /\ TurnOfOne'
    <3>1. \A k \in {"recv", "send"} : \E T : clients'[k] \in Seq(T)
      BY <2>2
    <3>. DEFINE lists == clients'
    <3>2. From("get_recv", 1, lists) /\ \A k \in {"recv", "send"} : \E T : lists[k] \in Seq(T)
      BY <3>1 DEF Request
    <3>. HIDE DEF lists
    <3>3. /\ phase' \in {"get_recv", "release_recv", "get_send", "release_send", "request"}
          /\ turn' \in Nat \ {0}
          /\ phase' # "request" => turn' \in DOMAIN lists[Kind(phase')]
      BY <3>2, NextTurn
    <3>. QED
      BY <3>3 DEF lists, Phases, TurnOfOne
  <2>. QED
    BY <2>1, <2>2, <2>3 DEF Request, Typed, ThreadTypes, PortTypes, users
<1>. QED
  BY <1>1, <1>2

LEMMA InlineStepTypes ==
    ASSUME Typed, TurnOfOne, InlineStep, UNCHANGED <<port, thread, requests, users>>
    PROVE  Typed' /\ TurnOfOne'
<1>1. ThreadTypes' /\ PortTypes' /\ TurnOfOne'
  BY DEF Typed, ThreadTypes, PortTypes, port, thread, users, TurnOfOne
<1>2. PICK l \in Links : LoopTimeout(l) \/ LoopPacket(l)
  BY DEF InlineStep
<1>3. CASE \E what : Crash(what)
  <2>1. InlineTypes'
    BY <1>3 DEF Crash, Typed, InlineTypes, table
  <2>. QED
    BY <1>1, <2>1 DEF Typed
<1>4. CASE LoopTimeout(l) /\ Returns("none", 0) /\ UNCHANGED <<net, free, table, queues, updates, crashed>>
  <2>1. InlineTypes'
    BY <1>4 DEF Returns, Calls, Typed, InlineTypes, table
  <2>. QED
    BY <1>1, <2>1 DEF Typed
<1>5. CASE LoopPacket(l) /\ ~\E what : Crash(what)
  <2>. DEFINE c == Head(net[l])[1]
              packet == Head(net[l])[2]
  <2>1. net[l] \in Seq(Clients \X Nat) /\ net[l] # <<>>
    BY <1>2, <1>5 DEF LoopPacket, Typed, InlineTypes
  <2>2. c \in Clients /\ packet \in Nat /\ Tail(net[l]) \in Seq(Clients \X Nat)
    <3>1. Head(net[l]) \in Clients \X Nat
      BY <2>1
    <3>. QED
      BY <2>1, <3>1
  <2>. HIDE DEF c, packet
  <2>3. /\ net' = [net EXCEPT ![l] = Tail(@)] /\ UNCHANGED table
        /\ \/ /\ free' = [free EXCEPT ![l] = @ - 1] /\ Returns("done", packet)
              /\ UNCHANGED <<queues, updates>>
           \/ /\ c \in SendClients /\ updates' = [updates EXCEPT ![c] = @ + 1]
              /\ Returns("done", 0) \/ UNCHANGED call
              /\ UNCHANGED <<free, queues>>
           \/ /\ queues' = [queues EXCEPT ![c] = Append(@, packet)]
              /\ free' = [free EXCEPT ![l] = @ - 1]
              /\ UNCHANGED <<updates, call>>
           \/ UNCHANGED <<free, queues, updates, call>>
    BY <1>5 DEF LoopPacket, c, packet
  <2>4. /\ net' \in [Links -> Seq(Clients \X Nat)] /\ attached' \subseteq Links /\ mux' \subseteq Links
        /\ alive' \subseteq Clients /\ rcvr' \in [Links -> Clients \union {None}]
        /\ callbacks' \in [Links -> Seq(Clients)]
    BY <2>2, <2>3 DEF Typed, InlineTypes, table
  <2>5. free' \in [Links -> Int]
    <3>1. free \in [Links -> Int] /\ free[l] - 1 \in Int
      BY DEF Typed, InlineTypes
    <3>. QED
      BY <2>3, <3>1
  <2>6. queues' \in [Clients -> Seq(Nat)]
    <3>1. queues \in [Clients -> Seq(Nat)] /\ Append(queues[c], packet) \in Seq(Nat)
      BY <2>2 DEF Typed, InlineTypes
    <3>. QED
      BY <2>3, <3>1
  <2>7. updates' \in [SendClients -> Nat]
    <3>1. updates \in [SendClients -> Nat] /\ (c \in SendClients => updates[c] + 1 \in Nat)
      BY <2>2 DEF Typed, InlineTypes
    <3>. QED
      BY <2>3, <3>1
  <2>8. call' \in [op : {"none", "recv", "fc"}, client : Clients \union {None},
                   state : {"idle", "loop", "none", "done"}, packet : Nat]
    BY <2>2, <2>3 DEF Returns, Calls, Typed, InlineTypes
  <2>. QED
    BY <1>1, <2>4, <2>5, <2>6, <2>7, <2>8 DEF Typed, InlineTypes
<1>. QED
  BY <1>2, <1>3, <1>4, <1>5 DEF LoopTimeout

LEMMA UserTypes ==
    ASSUME Typed, TurnOfOne, NEW c \in Clients, User(c)
    PROVE  Typed' /\ TurnOfOne'
<1>1. TurnOfOne'
  BY DEF User, Connect, Connected, Take, Give, Close, Closed, TurnOfOne, thread
<1>2. InlineTypes'
  BY DEF User, Connect, Connected, Take, Give, Close, Closed, Typed, InlineTypes, inline, table
<1>3. requests' \in Seq(Requests)
  <2>1. requests \in Seq(Requests)
    BY DEF Typed, ThreadTypes
  <2>2. /\ <<"attach", LinkOf[c]>> \in Requests /\ <<"connect", c>> \in Requests
        /\ <<"detach", LinkOf[c]>> \in Requests
    BY Assumptions DEF Requests
  <2>3. CASE Connect(c)
    <3>1. PICK attach \in Seq(Requests) : requests' = requests \o attach \o << <<"connect", c>> >>
      <4>. DEFINE a == IF OthersOn(c) = {} THEN << <<"attach", LinkOf[c]>> >> ELSE <<>>
      <4>1. a \in Seq(Requests)
        BY <2>2
      <4>2. requests' = requests \o a \o << <<"connect", c>> >>
        BY <2>3 DEF Connect
      <4>. QED
        BY <4>1, <4>2
    <3>2. << <<"connect", c>> >> \in Seq(Requests)
      BY <2>2
    <3>. QED
      BY <2>1, <3>1, <3>2
  <2>4. CASE Closed(c)
    <3>1. Append(requests, <<"detach", LinkOf[c]>>) \in Seq(Requests)
      BY <2>1, <2>2
    <3>. QED
      BY <2>1, <2>4, <3>1 DEF Closed
  <2>5. CASE requests' = requests
    BY <2>1, <2>5
  <2>. QED
    BY <2>3, <2>4, <2>5 DEF User, Connected, Take, Give, Close
<1>4. ThreadTypes'
  BY <1>3 DEF User, Connect, Connected, Take, Give, Close, Closed, Typed, ThreadTypes, thread
<1>5. PortTypes'
  <2>1. /\ from_q[c] \in Seq(Nat) /\ to_q[c] \in Seq(Nat) /\ held[c] \in Nat /\ accepted[c] \in Nat
        /\ Typed /\ PortTypes
    BY DEF Typed, PortTypes
  <2>2. CASE Connect(c) \/ Connected(c) \/ Closed(c)
    BY <2>1, <2>2 DEF Connect, Connected, Closed, PortTypes, port
  <2>3. CASE Take(c)
    <3>1. Tail(from_q[c]) \in Seq(Nat) /\ Head(from_q[c]) \in Nat /\ held[c] + 1 \in Nat
      BY <2>1, <2>3 DEF Take
    <3>2. from_q' \in [Clients -> Seq(Nat)]
      BY <2>1, <2>3, <3>1 DEF Take, PortTypes
    <3>3. held' \in [Clients -> Nat]
      BY <2>1, <2>3, <3>1 DEF Take, PortTypes
    <3>4. last' \in [Clients -> Nat]
      BY <2>1, <2>3, <3>1 DEF Take, PortTypes
    <3>. QED
      BY <2>1, <2>3, <3>2, <3>3, <3>4 DEF Take, PortTypes
  <2>4. CASE Give(c)
    <3>1. held[c] - 1 \in Nat /\ accepted[c] + 1 \in Nat /\ Append(to_q[c], Frame) \in Seq(Nat)
      BY <2>1, <2>4 DEF Give, Frame
    <3>2. accepted' \in [Clients -> Nat]
      BY <2>1, <2>4, <3>1 DEF Give, PortTypes
    <3>3. Append(to_q[c], accepted'[c]) \in Seq(Nat)
      BY <2>1, <3>2
    <3>4. to_q' \in [Clients -> Seq(Nat)]
      BY <2>1, <2>4, <3>1, <3>3 DEF Give, PortTypes
    <3>5. held' \in [Clients -> Nat]
      BY <2>1, <2>4, <3>1 DEF Give, PortTypes
    <3>. QED
      BY <2>1, <2>4, <3>2, <3>4, <3>5 DEF Give, PortTypes
  <2>5. CASE Close(c)
    <3>1. Append(to_q[c], DISCONNECT) \in Seq(Nat)
      BY <2>1 DEF DISCONNECT
    <3>2. to_q' \in [Clients -> Seq(Nat)]
      BY <2>1, <2>5, <3>1 DEF Close, PortTypes
    <3>. QED
      BY <2>1, <2>5, <3>2 DEF Close, PortTypes
  <2>. QED
    BY <2>2, <2>3, <2>4, <2>5 DEF User
<1>. QED
  BY <1>1, <1>2, <1>4, <1>5 DEF Typed

LEMMA ArriveTypes ==
    ASSUME Typed, TurnOfOne, NEW c \in Clients,
           (c \in RecvClients /\ Arrive(c)) \/ (c \in SendClients /\ Answer(c))
    PROVE  Typed' /\ TurnOfOne'
<1>1. /\ LinkOf[c] \in Links /\ net[LinkOf[c]] \in Seq(Clients \X Nat) /\ accepted[c] \in Nat
      /\ accepted \in [Clients -> Nat] /\ net \in [Links -> Seq(Clients \X Nat)]
  BY Assumptions DEF Typed, InlineTypes, PortTypes
<1>2. accepted' \in [Clients -> Nat]
  <2>1. CASE Arrive(c)
    BY <1>1, <2>1 DEF Arrive
  <2>2. CASE Answer(c)
    BY <1>1, <2>2 DEF Answer, users
  <2>. QED
    BY <2>1, <2>2
<1>3. \A n \in Nat : Append(net[LinkOf[c]], <<c, n>>) \in Seq(Clients \X Nat)
  BY <1>1
<1>4. accepted'[c] \in Nat
  BY <1>2
<1>5. net' \in [Links -> Seq(Clients \X Nat)]
  <2>1. PICK n \in Nat : net' = [net EXCEPT ![LinkOf[c]] = Append(@, <<c, n>>)]
    BY <1>4 DEF Arrive, Answer
  <2>2. Append(net[LinkOf[c]], <<c, n>>) \in Seq(Clients \X Nat)
    BY <1>3
  <2>. QED
    BY <1>1, <2>1, <2>2
<1>. QED
  BY <1>2, <1>5 DEF Arrive, Answer, Typed, InlineTypes, ThreadTypes, PortTypes, TurnOfOne, table,
     port, thread, users

LEMMA TypesNext ==
    ASSUME Typed, TurnOfOne, [Next]_vars PROVE Typed' /\ TurnOfOne'
<1>1. CASE UNCHANGED vars
  BY <1>1 DEF vars, inline, port, thread, users, table, Typed, InlineTypes, ThreadTypes, PortTypes,
     TurnOfOne
<1>2. CASE Thread
  BY <1>2, GetRecvBuffTypes, GotRecvBuffTypes, ReleaseRecvBuffsTypes, DisconnectTypes, EraseTypes,
     SendTypes, RequestTypes, InlineStepTypes DEF Thread
<1>3. CASE \E c \in Clients : User(c)
  BY <1>3, UserTypes
<1>4. CASE (\E c \in RecvClients : Arrive(c)) \/ \E c \in SendClients : Answer(c)
  BY <1>4, ArriveTypes, Assumptions
<1>. QED
  BY <1>1, <1>2, <1>3, <1>4 DEF Next

LEMMA TypesInit == Init => Typed /\ TurnOfOne
<1>1. SUFFICES ASSUME Init PROVE Typed /\ TurnOfOne
  OBVIOUS
<1>2. \A T : <<>> \in Seq(T)
  OBVIOUS
<1>3. InlineTypes
  BY <1>1, <1>2, OffloadAssumption DEF Init, InlineInit, Idle, InlineTypes
<1>4. ThreadTypes
  BY <1>1, <1>2 DEF Init, ThreadTypes, Phases
<1>5. PortTypes
  BY <1>1, <1>2 DEF Init, PortTypes
<1>. QED
  BY <1>1, <1>3, <1>4, <1>5 DEF Init, Typed, TurnOfOne

-----------------------------------------------------------------------------
(* The thread's lists and its call, and the life of clients *)

\* What the thread is doing agrees with its lists, its call, and where each client
\* is in its life.
Core ==
    /\ Typed /\ TurnOfOne /\ Listed /\ Erased /\ Calling /\ OneBusy
    /\ \A c \in Clients : Life(c)

LEMMA MineLives ==
    ASSUME Core, phase # "request", ~Erasing
    PROVE  me \in Clients /\ me \in connected /\ user[me] \in {"connecting", "up", "closing"}
<1>1. me \in Clients /\ turn \in DOMAIN clients[Kind(phase)]
  BY Mine DEF Core
<1>2. Kind(phase) \in {"recv", "send"}
  BY DEF Kind
<1>3. me \in connected
  BY <1>1, <1>2 DEF Core, Listed, me
<1>. QED
  BY <1>1, <1>3 DEF Core, Life

LEMMA NoCall ==
    ASSUME Core, phase \notin {"get_recv", "release_send"} \/ call.state = "idle"
    PROVE  call = Idle
  BY DEF Core, Calling

\* A step of the thread outside of disconnects and requests.
LEMMA ListsKept ==
    ASSUME Core, UNCHANGED <<clients, connected>>, ~Erasing, ~Erasing'
    PROVE  Listed' /\ Erased'
<1>1. Listed'
  BY DEF Core, Listed
<1>. QED
  BY <1>1 DEF Erased

\* The queues of a connected client change.
LEMMA LivesKept ==
    ASSUME Core, NEW c \in Clients, c \in connected, UNCHANGED <<user, connected, held>>,
           \A d \in Clients \ {c} : from_q'[d] = from_q[d] /\ to_q'[d] = to_q[d],
           to_q'[c] = to_q[c] \/ (to_q[c] # <<>> /\ to_q'[c] = Tail(to_q[c]))
    PROVE  OneBusy' /\ \A d \in Clients : Life(d)'
<1>1. OneBusy'
  BY DEF Core, OneBusy
<1>2. ASSUME NEW d \in Clients \ {c} PROVE Life(d)'
  <2>1. Life(d) /\ from_q'[d] = from_q[d] /\ to_q'[d] = to_q[d]
    BY DEF Core
  <2>. QED
    BY <2>1 DEF Life
<1>3. Life(c)'
  <2>1. Life(c) /\ to_q[c] \in Seq(Nat)
    BY DEF Core, Typed, PortTypes
  <2>2. CASE to_q'[c] = to_q[c]
    BY <2>1, <2>2 DEF Life
  <2>3. CASE to_q[c] # <<>> /\ to_q'[c] = Tail(to_q[c])
    <3>1. /\ DOMAIN Tail(to_q[c]) = 1 .. Len(to_q[c]) - 1 /\ DOMAIN to_q[c] = 1 .. Len(to_q[c])
          /\ Len(to_q[c]) \in Nat /\ Len(Tail(to_q[c])) = Len(to_q[c]) - 1
          /\ \A i \in 1 .. Len(to_q[c]) - 1 : Tail(to_q[c])[i] = to_q[c][i + 1]
      BY <2>1, <2>3
    <3>2. ASSUME NEW i \in DOMAIN to_q'[c], to_q'[c][i] = DISCONNECT
          PROVE  i = Len(to_q'[c]) /\ user[c] = "closing"
      <4>1. i \in 1 .. Len(to_q[c]) - 1 /\ i + 1 \in DOMAIN to_q[c] /\ to_q[c][i + 1] = DISCONNECT
        BY <2>3, <3>1, <3>2
      <4>2. i + 1 = Len(to_q[c]) /\ user[c] = "closing"
        BY <2>1, <4>1 DEF Life
      <4>. QED
        BY <2>3, <3>1, <4>1, <4>2
    <3>. QED
      BY <2>1, <3>2 DEF Life
  <2>. QED
    BY <2>2, <2>3
<1>. QED
  BY <1>1, <1>2, <1>3

LEMMA ReceiveCore ==
    ASSUME Core, Typed', TurnOfOne', GetRecvBuff \/ GotRecvBuff \/ ReleaseRecvBuffs
    PROVE  Core'
<1>1. /\ phase \in {"get_recv", "release_recv"} /\ ~Erasing
      /\ UNCHANGED <<clients, connected, user, held>>
  BY DEF GetRecvBuff, GotRecvBuff, ReleaseRecvBuffs, Turn, Erasing, users, port
<1>2. me \in Clients /\ me \in connected
  BY <1>1, MineLives
<1>3. CASE GetRecvBuff
  <2>1. OneBusy' /\ \A c \in Clients : Life(c)'
    BY <1>1, <1>2, <1>3, LivesKept DEF GetRecvBuff, port
  <2>2. CASE MayGet(me)
    <3>1. /\ phase' = phase /\ me' = me /\ ~Erasing' /\ in_use' = in_use /\ phase = "get_recv"
          /\ \/ call' = Idle
             \/ call'.client = me /\ call'.op = "recv" /\ call'.state \in {"done", "loop"}
      <4>1. Recv(me) /\ call = Idle
        BY <1>3, <2>2 DEF GetRecvBuff
      <4>2. call' = Idle \/ (call'.client = me /\ call'.op = "recv" /\ call'.state \in {"done", "loop"})
        BY <4>1, RecvSteps
      <4>. QED
        BY <1>1, <1>3, <2>2, <4>2 DEF GetRecvBuff, me, Erasing, Turn
    <3>2. Calling'
      BY <2>2, <3>1 DEF Calling, MayGet, Idle
    <3>. QED
      BY <1>1, <2>1, <3>1, <3>2, ListsKept DEF Core
  <2>3. CASE ~MayGet(me)
    <3>1. ~Erasing' /\ call' = Idle
      BY <1>1, <1>3, <2>3, Advances DEF GetRecvBuff, inline, Core
    <3>2. Calling'
      BY <3>1 DEF Calling, Idle
    <3>. QED
      BY <1>1, <2>1, <3>1, <3>2, ListsKept DEF Core
  <2>. QED
    BY <2>2, <2>3
<1>4. CASE GotRecvBuff
  <2>1. ~Erasing' /\ call' = Idle
    BY <1>1, <1>4, Advances DEF GotRecvBuff, HangUp, Core
  <2>2. Calling'
    BY <2>1 DEF Calling, Idle
  <2>3. \A d \in Clients \ {me} : from_q'[d] = from_q[d] /\ to_q'[d] = to_q[d]
    BY <1>2, <1>4 DEF GotRecvBuff, Core, Typed, PortTypes
  <2>4. OneBusy' /\ \A c \in Clients : Life(c)'
    BY <1>1, <1>2, <1>4, <2>3, LivesKept DEF GotRecvBuff
  <2>. QED
    BY <1>1, <2>1, <2>2, <2>4, ListsKept DEF Core
<1>5. CASE ReleaseRecvBuffs
  <2>1. ~Erasing' /\ call' = Idle
    BY <1>1, <1>5, Advances, NoCall DEF ReleaseRecvBuffs, Turn, Core
  <2>2. Calling'
    BY <2>1 DEF Calling, Idle
  <2>3. /\ \A d \in Clients \ {me} : from_q'[d] = from_q[d] /\ to_q'[d] = to_q[d]
        /\ to_q'[me] = to_q[me] \/ (to_q[me] # <<>> /\ to_q'[me] = Tail(to_q[me]))
    BY <1>2, <1>5 DEF ReleaseRecvBuffs, PopTo, Core, Typed, PortTypes
  <2>4. OneBusy' /\ \A c \in Clients : Life(c)'
    BY <1>1, <1>2, <1>5, <2>3, LivesKept DEF ReleaseRecvBuffs
  <2>. QED
    BY <1>1, <2>1, <2>2, <2>4, ListsKept DEF Core
<1>. QED
  BY <1>3, <1>4, <1>5

LEMMA SendCore ==
    ASSUME Core, Typed', TurnOfOne', GetSendBuff \/ AwaitDest \/ ReleaseSendBuff \/ NoSend
    PROVE  Core'
<1>1. /\ phase \in {"get_send", "release_send"} /\ ~Erasing
      /\ UNCHANGED <<clients, connected, user, held>>
  BY DEF GetSendBuff, AwaitDest, ReleaseSendBuff, NoSend, Turn, Erasing, users, port, thread
<1>2. me \in Clients /\ me \in connected
  BY <1>1, MineLives
<1>3. /\ \A d \in Clients \ {me} : from_q'[d] = from_q[d] /\ to_q'[d] = to_q[d]
      /\ to_q'[me] = to_q[me] \/ (to_q[me] # <<>> /\ to_q'[me] = Tail(to_q[me]))
  BY <1>2 DEF GetSendBuff, AwaitDest, ReleaseSendBuff, NoSend, FrameNext, PopTo, Core, Typed,
     PortTypes, port
<1>4. OneBusy' /\ \A c \in Clients : Life(c)'
  BY <1>1, <1>2, <1>3, LivesKept
<1>5. CASE AwaitDest
  <2>1. /\ phase' = phase /\ me' = me /\ ~Erasing' /\ to_q' = to_q /\ in_use' = in_use
        /\ phase = "release_send" /\ FrameNext(me)
    BY <1>1, <1>5 DEF AwaitDest, me, Erasing, Turn, thread, port
  <2>2. Calling'
    <3>1. RecvFlowCtrl(me)
      BY <1>5 DEF AwaitDest
    <3>2. CASE call' = call
      BY <2>1, <3>2 DEF Core, Calling, FrameNext
    <3>3. CASE call' = [op |-> "fc", client |-> me, state |-> "loop", packet |-> 0]
      BY <2>1, <3>3 DEF Calling, FrameNext
    <3>. QED
      BY <3>1, <3>2, <3>3, RecvFlowCtrlSteps
  <2>. QED
    BY <1>1, <1>4, <2>1, <2>2, ListsKept DEF Core
<1>6. CASE ~AwaitDest
  <2>1. call' = Idle
    BY <1>6, NoCall DEF GetSendBuff, ReleaseSendBuff, NoSend, HangUp, Turn, inline
  <2>2. ~Erasing'
    BY <1>1, <1>6, Advances DEF GetSendBuff, ReleaseSendBuff, NoSend, Core
  <2>3. Calling'
    BY <2>1 DEF Calling, Idle
  <2>. QED
    BY <1>1, <1>4, <2>2, <2>3, ListsKept DEF Core
<1>. QED
  BY <1>5, <1>6

LEMMA InlineStepCore ==
    ASSUME Core, Typed', TurnOfOne', crashed = "no", InlineStep,
           UNCHANGED <<port, thread, requests, users>>
    PROVE  Core'
<1>1. PICK l \in Links : LoopTimeout(l) \/ LoopPacket(l)
  BY DEF InlineStep
<1>2. call.state = "loop"
  BY <1>1 DEF LoopTimeout, LoopPacket, Looping
<1>3. call.client = me /\ phase \in {"get_recv", "release_send"}
  BY <1>2 DEF Core, Calling
<1>4. /\ ~Erasing /\ ~Erasing' /\ me' = me /\ phase' = phase
      /\ UNCHANGED <<clients, connected, user, held, from_q, to_q, in_use>>
  BY <1>3 DEF Erasing, me, thread, port, users
<1>5. call'.op = call.op /\ call'.client = call.client /\ call'.state # "idle"
  BY <1>1, <1>2 DEF LoopTimeout, LoopPacket, Returns, Calls, Crash
<1>6. Calling'
  BY <1>2, <1>3, <1>4, <1>5 DEF Core, Calling, MayGet, FrameNext
<1>7. OneBusy' /\ \A c \in Clients : Life(c)'
  BY <1>4 DEF Core, OneBusy, Life
<1>. QED
  BY <1>4, <1>6, <1>7, ListsKept DEF Core

LEMMA DisconnectCore ==
    ASSUME Core, Typed', TurnOfOne', NEW p \in {"release_recv", "release_send"}, Disconnect(p)
    PROVE  /\ Core' /\ me' = me /\ me \in connected /\ user[me] = "closing" /\ to_q[me] = <<DISCONNECT>>
           /\ Erasing' /\ ~Erasing /\ call = Idle /\ connected' = connected \ {me} /\ phase = p
           /\ to_q'[me] = <<>> /\ from_q'[me] = <<>> /\ held[me] = 0
<1>1. /\ phase = p /\ ~Erasing /\ phase # "request" /\ crashed = "no"
      /\ phase' = EraseIn[p] /\ Kind(phase') = Kind(phase) /\ Erasing'
      /\ UNCHANGED <<clients, user, held, turn, call, crashed>> /\ connected' = connected \ {me}
  BY DEF Disconnect, Turn, Erasing, EraseIn, Kind, users
<1>2. me' = me
  BY <1>1 DEF me
<1>3. me \in Clients /\ me \in connected
  BY <1>1, MineLives
<1>4. to_q[me] \in Seq(Nat) /\ to_q[me] # <<>> /\ Head(to_q[me]) = DISCONNECT
  BY <1>3 DEF Disconnect, DisconnectNext, Core, Typed, PortTypes
<1>5. 1 \in DOMAIN to_q[me] /\ to_q[me][1] = DISCONNECT
  BY <1>4
<1>6. Len(to_q[me]) = 1 /\ user[me] = "closing"
  BY <1>3, <1>5 DEF Core, Life
<1>7. to_q[me] = <<DISCONNECT>> /\ Tail(to_q[me]) = <<>>
  <2>. DEFINE s == to_q[me]
  <2>1. s \in Seq(Nat) /\ Len(s) = 1 /\ s[1] = DISCONNECT /\ s # <<>>
    BY <1>4, <1>5, <1>6
  <2>. HIDE DEF s
  <2>2. s = <<s[1]>>
    BY <2>1
  <2>3. Tail(s) \in Seq(Nat) /\ Len(Tail(s)) = 0
    BY <2>1
  <2>4. Tail(s) = <<>>
    BY <2>3, EmptySeq
  <2>. QED
    BY <2>1, <2>2, <2>4 DEF s
<1>8. /\ to_q'[me] = <<>> /\ from_q'[me] = <<>>
      /\ \A c \in Clients \ {me} : from_q'[c] = from_q[c] /\ to_q'[c] = to_q[c]
  BY <1>3, <1>7 DEF Disconnect, PopTo, Core, Typed, PortTypes
<1>9. call = Idle
  <2>1. phase = "release_send" => ~FrameNext(me)
    BY <1>4 DEF FrameNext
  <2>. QED
    BY <1>1, <2>1, NoCall DEF Core, Calling
<1>10. held[me] = 0
  BY <1>3, <1>6 DEF Core, Life
<1>11. Listed'
  <2>1. SUFFICES ASSUME NEW k \in {"recv", "send"}, NEW i \in DOMAIN clients[k],
                        clients[k][i] \notin connected'
                 PROVE  k = Kind(phase) /\ i = turn
    BY <1>1 DEF Core, Listed
  <2>2. clients[k][i] = me
    BY <1>1, <2>1 DEF Core, Listed
  <2>3. turn \in DOMAIN clients[Kind(phase)] /\ Kind(phase) \in {"recv", "send"}
    BY <1>1, Mine DEF Core, Kind
  <2>4. k = Kind(phase)
    <3>1. clients.recv \in Seq(RecvClients) /\ clients.send \in Seq(SendClients)
      BY DEF Core, Typed, ThreadTypes
    <3>2. k = "recv" => me \in RecvClients
      BY <2>1, <2>2, <3>1
    <3>3. k = "send" => me \in SendClients
      BY <2>1, <2>2, <3>1
    <3>. QED
      BY <1>1, <2>3, <3>2, <3>3, Mine, Assumptions DEF Core
  <2>5. clients[k][i] = clients[k][turn]
    BY <2>2, <2>4 DEF me
  <2>. QED
    BY <2>1, <2>3, <2>4, <2>5 DEF Core, Listed
<1>12. Erased'
  BY <1>1, <1>2, <1>6 DEF Erased
<1>13. Calling'
  BY <1>1, <1>9 DEF Calling, Idle
<1>14. OneBusy'
  BY <1>1 DEF Core, OneBusy
<1>15. ASSUME NEW c \in Clients PROVE Life(c)'
  <2>1. Life(c)
    BY DEF Core
  <2>2. CASE c = me
    BY <1>1, <1>6, <1>8, <1>10, <2>2 DEF Life
  <2>3. CASE c # me
    BY <1>1, <1>8, <2>1, <2>3 DEF Life
  <2>. QED
    BY <2>2, <2>3
<1>. QED
  BY <1>1, <1>2, <1>3, <1>6, <1>7, <1>8, <1>9, <1>10, <1>11, <1>12, <1>13, <1>14, <1>15 DEF Core

LEMMA EraseCore ==
    ASSUME Core, Typed', TurnOfOne', NEW p \in {"release_recv", "release_send"}, Erase(p)
    PROVE  Core' /\ Erasing /\ ~Erasing' /\ me \in Clients /\ me \notin connected /\ call = Idle
<1>1. /\ phase = EraseIn[p] /\ Erasing /\ phase # "request" /\ Kind(p) = Kind(phase)
      /\ UNCHANGED <<connected, user, held, call, from_q, to_q>>
  <2>1. DisconnectReceiver(me) /\ phase = EraseIn[p]
    BY DEF Erase, Turn
  <2>2. phase \in {"erase_recv", "erase_send"} /\ Kind(p) = Kind(phase)
    BY <2>1 DEF EraseIn, Kind
  <2>3. call' = call
    BY <2>1, DisconnectSteps
  <2>4. UNCHANGED <<connected, user, held, from_q, to_q>>
    BY DEF Erase, port, users
  <2>. QED
    BY <2>1, <2>2, <2>3, <2>4 DEF Erasing
<1>2. me \in Clients /\ turn \in DOMAIN clients[Kind(phase)] /\ me \notin connected
  BY <1>1, Mine DEF Core, Erased
<1>3. ~Erasing'
  <2>1. From(p, turn, clients') /\ turn \in Nat \ {0}
    BY DEF Erase, Core, Typed, ThreadTypes
  <2>. QED
    BY <2>1, Turns DEF Core
<1>4. call = Idle
  BY <1>1, NoCall DEF Erasing
<1>5. Listed'
  <2>1. SUFFICES ASSUME NEW k \in {"recv", "send"}
                 PROVE  \A i \in DOMAIN clients'[k] :
                           /\ clients'[k][i] \in connected
                           /\ \A j \in DOMAIN clients'[k] : clients'[k][i] = clients'[k][j] => i = j
    BY <1>1 DEF Listed
  <2>2. CASE k # Kind(phase)
    <3>1. clients'[k] = clients[k]
      BY <1>1, <2>2 DEF Erase, Core, Typed, ThreadTypes
    <3>. QED
      BY <2>2, <3>1 DEF Core, Listed
  <2>3. CASE k = Kind(phase)
    <3>. DEFINE s == clients[k]
    <3>1. clients'[k] = RemoveAt(s, turn) /\ turn \in DOMAIN s
      BY <1>1, <1>2, <2>3 DEF Erase, Core, Typed, ThreadTypes
    <3>2. PICK T : s \in Seq(T)
      BY ListsTyped DEF Core
    <3>3. \A i \in DOMAIN s : (s[i] \in connected \/ i = turn) /\ \A j \in DOMAIN s : s[i] = s[j] => i = j
      BY DEF Core, Listed
    <3>. HIDE DEF s
    <3>4. /\ DOMAIN RemoveAt(s, turn) = 1 .. Len(s) - 1 /\ DOMAIN s = 1 .. Len(s) /\ Len(s) \in Nat
          /\ \A i \in 1 .. Len(s) - 1 : RemoveAt(s, turn)[i] = IF i < turn THEN s[i] ELSE s[i + 1]
      <4>1. RemoveAt(s, turn) \in Seq(T) /\ Len(RemoveAt(s, turn)) = Len(s) - 1
        BY <3>1, <3>2, RemoveAtFacts
      <4>2. \A i \in 1 .. Len(s) - 1 : RemoveAt(s, turn)[i] = IF i < turn THEN s[i] ELSE s[i + 1]
        BY <3>1, <3>2, RemoveAtFacts
      <4>3. DOMAIN RemoveAt(s, turn) = 1 .. Len(RemoveAt(s, turn))
        BY <4>1
      <4>. QED
        BY <3>2, <4>1, <4>2, <4>3
    <3>. DEFINE at(i) == IF i < turn THEN i ELSE i + 1
    <3>5. \A i \in 1 .. Len(s) - 1 : at(i) \in DOMAIN s /\ at(i) # turn /\ RemoveAt(s, turn)[i] = s[at(i)]
      BY <3>1, <3>4
    <3>6. \A i, j \in 1 .. Len(s) - 1 : at(i) = at(j) => i = j
      BY <3>1, <3>4
    <3>. HIDE DEF at
    <3>. QED
      BY <3>1, <3>3, <3>4, <3>5, <3>6
  <2>. QED
    BY <2>2, <2>3
<1>6. Erased'
  BY <1>3 DEF Erased
<1>7. Calling'
  BY <1>1, <1>4 DEF Calling, Idle
<1>8. OneBusy' /\ \A c \in Clients : Life(c)'
  BY <1>1 DEF Core, OneBusy, Life
<1>. QED
  BY <1>1, <1>2, <1>3, <1>4, <1>5, <1>6, <1>7, <1>8 DEF Core

LEMMA RequestCore ==
    ASSUME Core, Typed', TurnOfOne', RequestOrder, Request
    PROVE  Core' /\ ~Erasing /\ ~Erasing' /\ call = Idle
<1>1. /\ phase = "request" /\ ~Erasing /\ UNCHANGED <<user, held, from_q, to_q>>
  BY DEF Request, Erasing, users
<1>2. ~Erasing'
  BY Turns DEF Request, Core
<1>3. call = Idle /\ call' = call
  <2>1. call' = call
    BY DEF Request, inline, Attach, AttachRecvLink, Detach, DetachRecvLink, MakeClient,
       ConnectReceiver, Crash
  <2>. QED
    BY <1>1, <2>1, NoCall
<1>4. Calling'
  BY <1>3 DEF Calling, Idle
<1>5. OneBusy'
  BY <1>1 DEF Core, OneBusy
<1>6. CASE UNCHANGED <<clients, connected>>
  <2>1. \A c \in Clients : Life(c)'
    BY <1>1, <1>6 DEF Core, Life
  <2>. QED
    BY <1>1, <1>2, <1>3, <1>4, <1>5, <1>6, <2>1, ListsKept DEF Core
<1>7. CASE ~UNCHANGED <<clients, connected>>
  <2>. DEFINE c == Head(requests)[2]
              kind == IF c \in RecvClients THEN "recv" ELSE "send"
  <2>1. /\ requests # <<>> /\ Head(requests)[1] = "connect"
        /\ clients' = [clients EXCEPT ![kind] = Append(@, c)] /\ connected' = connected \union {c}
    BY <1>7 DEF Request, Attach, Detach, MakeClient
  <2>2. /\ c \in Clients /\ user[c] = "connecting" /\ c \notin connected
    <3>1. requests \in Seq(Requests) /\ Head(requests) \in Requests
      BY <2>1, RequestParts DEF Core
    <3>2. 1 \in DOMAIN requests /\ Head(requests) = requests[1]
      BY <2>1, <3>1
    <3>. QED
      BY <2>1, <3>1, <3>2, RequestParts DEF Core, RequestOrder
  <2>. HIDE DEF c
  <2>3. Listed'
    <3>1. SUFFICES ASSUME NEW k \in {"recv", "send"}
                   PROVE  \A i \in DOMAIN clients'[k] :
                             /\ clients'[k][i] \in connected'
                             /\ \A j \in DOMAIN clients'[k] : clients'[k][i] = clients'[k][j] => i = j
      BY DEF Listed
    <3>2. \A i \in DOMAIN clients[k] :
             /\ clients[k][i] \in connected
             /\ \A j \in DOMAIN clients[k] : clients[k][i] = clients[k][j] => i = j
      BY <1>1 DEF Core, Listed
    <3>3. CASE k # kind
      <4>1. clients'[k] = clients[k]
        BY <2>1, <3>3 DEF Core, Typed, ThreadTypes
      <4>2. connected \subseteq connected'
        BY <2>1
      <4>. DEFINE s == clients[k]
      <4>3. \A i \in DOMAIN s : s[i] \in connected /\ \A j \in DOMAIN s : s[i] = s[j] => i = j
        BY <3>2
      <4>. HIDE DEF s
      <4>4. \A i \in DOMAIN s : s[i] \in connected' /\ \A j \in DOMAIN s : s[i] = s[j] => i = j
        BY <4>2, <4>3
      <4>. QED
        BY <4>1, <4>4 DEF s
    <3>4. CASE k = kind
      <4>. DEFINE s == clients[k]
      <4>1. clients'[k] = Append(s, c)
        BY <2>1, <3>4 DEF Core, Typed, ThreadTypes
      <4>2. PICK T : s \in Seq(T)
        BY ListsTyped DEF Core
      <4>3. \A i \in DOMAIN s : s[i] \in connected /\ \A j \in DOMAIN s : s[i] = s[j] => i = j
        BY <3>2
      <4>. HIDE DEF s
      <4>4. /\ DOMAIN Append(s, c) = 1 .. Len(s) + 1 /\ DOMAIN s = 1 .. Len(s) /\ Len(s) \in Nat
            /\ Append(s, c)[Len(s) + 1] = c
            /\ \A i \in 1 .. Len(s) : Append(s, c)[i] = s[i]
        BY <4>2
      <4>5. \A i \in 1 .. Len(s) + 1 : i \in DOMAIN s \/ i = Len(s) + 1
        BY <4>4
      <4>. QED
        BY <2>1, <2>2, <4>1, <4>3, <4>4, <4>5
    <3>. QED
      BY <3>3, <3>4
  <2>4. Erased'
    BY <1>2 DEF Erased
  <2>5. ASSUME NEW d \in Clients PROVE Life(d)'
    <3>1. Life(d)
      BY DEF Core
    <3>. QED
      BY <1>1, <2>1, <2>2, <3>1 DEF Life
  <2>. QED
    BY <1>1, <1>2, <1>3, <1>4, <1>5, <2>3, <2>4, <2>5 DEF Core
<1>. QED
  BY <1>6, <1>7

\* What users do changes neither the thread's lists nor the call.
LEMMA UserCore ==
    ASSUME Core, Typed', TurnOfOne', NEW c \in Clients, User(c)
    PROVE  Core' /\ me' = me /\ (Erasing' <=> Erasing) /\ phase' = phase
<1>1. /\ UNCHANGED <<clients, connected, phase, turn, call, crashed, in_use>> /\ me' = me
      /\ (Erasing' <=> Erasing)
  BY DEF User, Connect, Connected, Take, Give, Close, Closed, inline, port, thread, me, Erasing
<1>2. Listed'
  BY <1>1 DEF Core, Listed
<1>3. Life(c) /\ to_q[c] \in Seq(Nat) /\ from_q[c] \in Seq(Nat) /\ accepted[c] \in Nat
  BY DEF Core, Typed, PortTypes
<1>4. /\ \A d \in Clients \ {c} : /\ from_q'[d] = from_q[d] /\ to_q'[d] = to_q[d]
                                  /\ held'[d] = held[d] /\ user'[d] = user[d]
      /\ user' \in [Clients -> {"new", "connecting", "up", "closing", "gone"}]
  BY DEF User, Connect, Connected, Take, Give, Close, Closed, port, Core, Typed, PortTypes
<1>5. ASSUME NEW d \in Clients \ {c} PROVE Life(d)'
  <2>1. Life(d)
    BY DEF Core
  <2>. QED
    BY <1>1, <1>4, <2>1 DEF Life
<1>6. to_q'[c] = to_q[c] \/ \E n \in Nat : to_q'[c] = Append(to_q[c], n)
  <2>1. CASE Give(c)
    <3>1. accepted'[c] \in Nat /\ Frame \in Nat
      BY DEF Frame, Typed, PortTypes
    <3>2. to_q'[c] = Append(to_q[c], IF c \in SendClients THEN accepted'[c] ELSE Frame)
      BY <2>1 DEF Give, Core, Typed, PortTypes
    <3>. QED
      BY <3>1, <3>2
  <2>2. CASE Close(c)
    <3>1. to_q'[c] = Append(to_q[c], DISCONNECT) /\ DISCONNECT \in Nat
      BY <2>2 DEF Close, Core, Typed, PortTypes, DISCONNECT
    <3>. QED
      BY <3>1
  <2>. QED
    BY <2>1, <2>2 DEF User, Connect, Connected, Take, Closed, port
<1>7. Life(c)'
  <2>1. CASE Connect(c)
    BY <1>1, <1>3, <2>1 DEF Connect, Life, port, Core, Typed, PortTypes
  <2>2. CASE Connected(c)
    BY <1>1, <1>3, <2>2 DEF Connected, Life, port, Core, Typed, PortTypes
  <2>3. CASE Take(c)
    BY <1>1, <1>3, <2>3 DEF Take, Life, port, Core, Typed, PortTypes
  <2>4. CASE Give(c)
    <3>1. PICK n \in Nat \ {0} : to_q'[c] = Append(to_q[c], n)
      <4>1. accepted'[c] \in Nat \ {0} \/ c \notin SendClients
        BY <1>3, <2>4 DEF Give, Core, Typed, PortTypes
      <4>2. to_q'[c] = Append(to_q[c], IF c \in SendClients THEN accepted'[c] ELSE Frame)
        BY <2>4 DEF Give, Core, Typed, PortTypes
      <4>3. Frame \in Nat \ {0}
        BY DEF Frame
      <4>. QED
        BY <4>1, <4>2, <4>3
    <3>2. /\ DOMAIN to_q'[c] = 1 .. Len(to_q[c]) + 1 /\ to_q'[c][Len(to_q[c]) + 1] = n
          /\ DOMAIN to_q[c] = 1 .. Len(to_q[c]) /\ Len(to_q[c]) \in Nat
          /\ \A i \in 1 .. Len(to_q[c]) : to_q'[c][i] = to_q[c][i]
      BY <1>3, <3>1
    <3>3. user[c] = "up" /\ user' = user /\ from_q' = from_q
      BY <2>4 DEF Give
    <3>4. \A i \in DOMAIN to_q[c] : to_q[c][i] # DISCONNECT
      BY <1>3, <3>3 DEF Life
    <3>5. \A i \in DOMAIN to_q'[c] : to_q'[c][i] # DISCONNECT
      BY <3>2, <3>4 DEF DISCONNECT
    <3>6. c \in connected
      BY <1>3, <3>3 DEF Life
    <3>. QED
      BY <1>1, <3>3, <3>5, <3>6 DEF Life
  <2>5. CASE Close(c)
    <3>1. /\ to_q'[c] = Append(to_q[c], DISCONNECT) /\ user'[c] = "closing" /\ user[c] = "up"
          /\ held'[c] = 0 /\ from_q' = from_q
      BY <2>5 DEF Close, Core, Typed, PortTypes
    <3>2. /\ DOMAIN to_q'[c] = 1 .. Len(to_q[c]) + 1 /\ Len(to_q'[c]) = Len(to_q[c]) + 1
          /\ DOMAIN to_q[c] = 1 .. Len(to_q[c]) /\ Len(to_q[c]) \in Nat
          /\ \A i \in 1 .. Len(to_q[c]) : to_q'[c][i] = to_q[c][i]
      <4>1. DISCONNECT \in Nat
        BY DEF DISCONNECT
      <4>. QED
        BY <1>3, <3>1, <4>1
    <3>3. c \in connected /\ \A i \in DOMAIN to_q[c] : to_q[c][i] # DISCONNECT
      BY <1>3, <3>1 DEF Life
    <3>4. \A i \in DOMAIN to_q'[c] : to_q'[c][i] = DISCONNECT => i = Len(to_q'[c])
      BY <3>2, <3>3
    <3>. QED
      BY <1>1, <3>1, <3>3, <3>4 DEF Life
  <2>6. CASE Closed(c)
    BY <1>1, <1>3, <2>6 DEF Closed, Life, port, Core, Typed, PortTypes
  <2>. QED
    BY <2>1, <2>2, <2>3, <2>4, <2>5, <2>6 DEF User
<1>8. OneBusy'
  <2>1. CASE Connect(c) \/ Close(c)
    <3>1. \A d \in Clients : user[d] \notin {"connecting", "closing"}
      BY <2>1 DEF Connect, Close, Busy
    <3>. QED
      BY <1>4, <3>1 DEF OneBusy
  <2>2. CASE ~(Connect(c) \/ Close(c))
    <3>1. user'[c] \notin {"connecting", "closing"} \/ user' = user
      BY <2>2 DEF User, Connected, Take, Give, Closed, Core, Typed, PortTypes
    <3>. QED
      BY <1>4, <3>1 DEF Core, OneBusy
  <2>. QED
    BY <2>1, <2>2
<1>9. Erased'
  <2>1. SUFFICES ASSUME Erasing PROVE user'[me] \in {"closing", "gone"}
    BY <1>1 DEF Core, Erased
  <2>2. user[me] \in {"closing", "gone"} /\ me \notin connected /\ me \in Clients
    BY <2>1, Mine DEF Core, Erased, Erasing
  <2>. QED
    BY <1>4, <2>2 DEF User, Connect, Connected, Take, Give, Close, Closed, Core, Typed, PortTypes
<1>10. Calling'
  <2>1. CASE call.state = "idle"
    BY <1>1, <2>1 DEF Core, Calling
  <2>2. CASE call.state # "idle"
    <3>1. phase = "release_send" /\ FrameNext(me) => FrameNext(me)'
      <4>1. SUFFICES ASSUME phase = "release_send", FrameNext(me) PROVE FrameNext(me)'
        OBVIOUS
      <4>2. me \in Clients
        BY <4>1, Mine DEF Core
      <4>3. to_q[me] \in Seq(Nat)
        BY <4>2 DEF Core, Typed, PortTypes
      <4>4. to_q'[me] = to_q[me] \/ \E n \in Nat : to_q'[me] = Append(to_q[me], n)
        BY <1>4, <1>6, <4>2
      <4>5. \A n \in Nat : to_q[me] # <<>> =>
               Append(to_q[me], n) # <<>> /\ Head(Append(to_q[me], n)) = Head(to_q[me])
        BY <4>3
      <4>. QED
        BY <1>1, <4>1, <4>4, <4>5 DEF FrameNext
    <3>2. MayGet(me) => MayGet(me)'
      BY <1>1 DEF MayGet
    <3>. QED
      BY <1>1, <2>2, <3>1, <3>2 DEF Core, Calling
  <2>. QED
    BY <2>1, <2>2
<1>. QED
  BY <1>1, <1>2, <1>5, <1>7, <1>8, <1>9, <1>10 DEF Core

LEMMA LinkCore ==
    ASSUME Core, Typed', TurnOfOne', NEW c, Arrive(c) \/ Answer(c)
    PROVE  Core'
<1>1. /\ UNCHANGED <<clients, connected, phase, turn, call, crashed, in_use, from_q, to_q, user, held>>
      /\ me' = me /\ (Erasing' <=> Erasing)
  BY DEF Arrive, Answer, port, thread, users, me, Erasing
<1>2. Listed' /\ Erased' /\ OneBusy'
  BY <1>1 DEF Core, Listed, Erased, OneBusy
<1>3. Calling'
  BY <1>1 DEF Core, Calling, MayGet, FrameNext
<1>4. \A d \in Clients : Life(d)'
  BY <1>1 DEF Core, Life
<1>. QED
  BY <1>2, <1>3, <1>4 DEF Core

-----------------------------------------------------------------------------
(* Frames *)

\* Every frame that was taken from a link or reserved for sending is in exactly one
\* of the places it can be in.
Accounts ==
    /\ OwnLink /\ Pools
    /\ \A c \in Clients : Counted(c) /\ Room(c) /\ Unserved(c) /\ Admitted(c)

\* What a queue to the thread holds apart from the disconnect (GivenBack).
Back(q) == Only(q, Nat \ {DISCONNECT})

LEMMA BackFacts ==
    ASSUME NEW q \in Seq(Nat)
    PROVE  /\ Back(q) \in Seq(Nat) /\ Back(<<>>) = <<>> /\ Back(<<DISCONNECT>>) = <<>>
           /\ \A n \in Nat : Back(Append(q, n)) = IF n = DISCONNECT THEN Back(q) ELSE Append(Back(q), n)
           /\ q # <<>> /\ Head(q) # DISCONNECT =>
                /\ Back(q) = <<Head(q)>> \o Back(Tail(q))
                /\ Len(Back(q)) = 1 + Len(Back(Tail(q)))
                /\ Back(q) # <<>> /\ Head(Back(q)) = Head(q) /\ Tail(Back(q)) = Back(Tail(q))
<1>. DEFINE S == Nat \ {DISCONNECT}
<1>1. \A s \in Seq(Nat) : Only(s, S) \in Seq(Nat)
  BY OnlyType
<1>2. Only(<<>>, S) = <<>>
  BY OnlyEmpty
<1>3. \A s \in Seq(Nat), n \in Nat :
         Only(Append(s, n), S) = IF n \in S THEN Append(Only(s, S), n) ELSE Only(s, S)
  <2>. HIDE DEF S
  <2>. QED
    BY OnlyAppend
<1>4. \A n \in Nat : Only(Append(q, n), S) = IF n = DISCONNECT THEN Only(q, S) ELSE Append(Only(q, S), n)
  <2>1. \A n \in Nat : n \in S <=> n # DISCONNECT
    OBVIOUS
  <2>. HIDE DEF S
  <2>. QED
    BY <1>3, <2>1
<1>5. Only(<<DISCONNECT>>, S) = <<>>
  <2>1. DISCONNECT \in Nat /\ DISCONNECT \notin S /\ <<>> \in Seq(Nat)
    BY DEF DISCONNECT
  <2>2. Append(<<>>, DISCONNECT) = <<DISCONNECT>>
    OBVIOUS
  <2>. HIDE DEF S
  <2>. QED
    BY <1>2, <1>3, <2>1, <2>2
<1>6. ASSUME q # <<>>, Head(q) # DISCONNECT
      PROVE  /\ Only(q, S) = <<Head(q)>> \o Only(Tail(q), S)
             /\ Len(Only(q, S)) = 1 + Len(Only(Tail(q), S))
             /\ Only(q, S) # <<>> /\ Head(Only(q, S)) = Head(q)
             /\ Tail(Only(q, S)) = Only(Tail(q), S)
  <2>1. Head(q) \in Nat /\ Tail(q) \in Seq(Nat)
    BY <1>6
  <2>2. Head(q) \in S
    BY <1>6, <2>1
  <2>. HIDE DEF S
  <2>3. Only(q, S) = <<Head(q)>> \o Only(Tail(q), S)
    BY <1>6, <2>2, OnlyHead
  <2>4. Only(Tail(q), S) \in Seq(Nat) /\ Only(q, S) \in Seq(Nat)
    BY <1>1, <2>1
  <2>. DEFINE x == Head(q)
              r == Only(Tail(q), S)
              w == Only(q, S)
  <2>5. w = <<x>> \o r /\ r \in Seq(Nat) /\ w \in Seq(Nat) /\ x \in Nat
    BY <2>1, <2>3, <2>4
  <2>. HIDE DEF x, r, w
  <2>6. /\ Len(w) = 1 + Len(r) /\ Len(r) \in Nat /\ w[1] = x
        /\ \A i \in 1 .. Len(r) : w[i + 1] = r[i]
    BY <2>5
  <2>7. w # <<>> /\ Head(w) = x
    BY <2>5, <2>6
  <2>8. /\ Tail(w) \in Seq(Nat) /\ Len(Tail(w)) = Len(r)
        /\ \A i \in 1 .. Len(r) : Tail(w)[i] = w[i + 1]
    BY <2>5, <2>6, <2>7
  <2>9. Tail(w) = r
    BY <2>5, <2>6, <2>8, SeqEqual
  <2>. QED
    BY <2>5, <2>6, <2>7, <2>9 DEF x, r, w
<1>. QED
  BY <1>1, <1>2, <1>4, <1>5, <1>6 DEF Back

LEMMA TypedPiecesNext ==
    Typed' => (\A c \in Clients :
        /\ InCall(c) \in Seq(Nat) /\ Len(InCall(c)) \in {0, 1}
        /\ PacketsOf(c) \in Seq(Nat) /\ GivenBack(c) \in Seq(Nat)
        /\ from_q[c] \in Seq(Nat) /\ to_q[c] \in Seq(Nat) /\ queues[c] \in Seq(Nat)
        /\ held[c] \in Nat /\ in_use[c] \in Int
        /\ FramesOut(c) \in Nat /\ FramesOf(c) \in Nat /\ frames[c] = FramesOf(c))'
BY TypedPieces, PTL

\* Nothing changes for a client.
Same(d) ==
    /\ from_q'[d] = from_q[d] /\ held'[d] = held[d] /\ GivenBack(d)' = GivenBack(d)
    /\ queues'[d] = queues[d] /\ InCall(d)' = InCall(d) /\ PacketsOf(d)' = PacketsOf(d)
    /\ in_use'[d] = in_use[d]

LEMMA SameFrames ==
    ASSUME NEW d \in Clients, Same(d)
    PROVE  /\ FramesOut(d)' = FramesOut(d) /\ FramesOf(d)' = FramesOf(d)
           /\ Counted(d) => Counted(d)'
           /\ Room(d) => Room(d)'
<1>1. FramesOut(d)' = FramesOut(d)
  BY DEF Same, FramesOut
<1>2. FramesOf(d)' = FramesOf(d)
  BY <1>1 DEF Same, FramesOf
<1>. QED
  BY <1>1, <1>2 DEF Same, Counted, Room

LEMMA FramesSum ==
    ASSUME NEW S, IsFiniteSet(S), NEW c \in S,
           \A d \in S : frames[d] \in Int /\ frames'[d] \in Int,
           \A d \in S \ {c} : frames[d] = frames'[d]
    PROVE  Sum(frames, S) \in Int /\ Sum(frames', S) = Sum(frames, S) + frames'[c] - frames[c]
  BY SumChange

\* Frames go between the pool of one link and one client.
LEMMA PoolsKept ==
    ASSUME Typed, Typed', Pools, NEW c \in Clients,
           \A d \in Clients \ {c} : Same(d),
           \A l \in Links \ {LinkOf[c]} : free'[l] = free[l],
           free'[LinkOf[c]] + FramesOf(c)' = free[LinkOf[c]] + FramesOf(c)
    PROVE  Pools'
<1>1. SUFFICES ASSUME NEW l \in Links
               PROVE  free'[l] + Sum(frames', ClientsOn(l)) = NumFrames[l]
  BY DEF Pools, ClientsOn
<1>. DEFINE S == ClientsOn(l)
<1>2. IsFiniteSet(S) /\ S \subseteq Clients
  BY ClientsFinite
<1>3. \A d \in S : /\ frames[d] = FramesOf(d) /\ frames'[d] = FramesOf(d)'
                   /\ frames[d] \in Int /\ frames'[d] \in Int
  <2>1. SUFFICES ASSUME NEW d \in S
                 PROVE  /\ frames[d] = FramesOf(d) /\ frames'[d] = FramesOf(d)'
                        /\ frames[d] \in Int /\ frames'[d] \in Int
    OBVIOUS
  <2>2. d \in Clients
    BY <1>2
  <2>3. frames[d] = FramesOf(d) /\ FramesOf(d) \in Nat
    BY <2>2, TypedPieces
  <2>4. frames'[d] = FramesOf(d)' /\ FramesOf(d)' \in Nat
    BY <2>2, TypedPiecesNext
  <2>. QED
    BY <2>3, <2>4
<1>4. \A d \in S \ {c} : frames[d] = frames'[d]
  BY <1>2, <1>3, SameFrames
<1>5. free[l] + Sum(frames, S) = NumFrames[l] /\ free[l] \in Int /\ free'[l] \in Int
  BY DEF Pools, Typed, InlineTypes
<1>. HIDE DEF S
<1>6. CASE c \in S
  <2>1. LinkOf[c] = l
    BY <1>6 DEF S, ClientsOn
  <2>2. Sum(frames, S) \in Int /\ Sum(frames', S) = Sum(frames, S) + frames'[c] - frames[c]
    <3>1. \A d \in S : frames[d] \in Int /\ frames'[d] \in Int
      BY <1>3
    <3>. QED
      BY <1>2, <1>4, <1>6, <3>1, FramesSum
  <2>3. frames[c] = FramesOf(c) /\ frames'[c] = FramesOf(c)' /\ FramesOf(c) \in Int /\ FramesOf(c)' \in Int
    BY <1>3, <1>6
  <2>4. free'[l] + FramesOf(c)' = free[l] + FramesOf(c)
    BY <2>1
  <2>. QED
    BY <1>5, <2>2, <2>3, <2>4 DEF S
<1>7. CASE c \notin S
  <2>1. free'[l] = free[l]
    BY <1>7 DEF S, ClientsOn
  <2>2. Sum(frames', S) = Sum(frames, S)
    <3>. DEFINE f == frames
                g == frames'
    <3>1. \A d \in S : f[d] \in Int /\ g[d] \in Int /\ f[d] = g[d]
      BY <1>3, <1>4, <1>7
    <3>. HIDE DEF f, g
    <3>2. Sum(g, S) = Sum(f, S)
      BY <1>2, <3>1, SumSame
    <3>. QED
      BY <3>2 DEF f, g
  <2>. QED
    BY <1>5, <2>1, <2>2 DEF S
<1>. QED
  BY <1>6, <1>7

LEMMA PoolsSame ==
    ASSUME Typed, Typed', Pools, \A d \in Clients : Same(d), free' = free
    PROVE  Pools'
<1>1. CASE Clients = {}
  <2>1. \A l : ClientsOn(l) = {}
    BY <1>1 DEF ClientsOn
  <2>2. \A l \in Links : Sum(frames', ClientsOn(l)) = 0 /\ Sum(frames, ClientsOn(l)) = 0
    BY <2>1, SumEmpty
  <2>. QED
    BY <2>2 DEF Pools
<1>2. CASE Clients # {}
  <2>1. PICK c \in Clients : TRUE
    BY <1>2
  <2>2. FramesOf(c)' = FramesOf(c)
    BY SameFrames
  <2>. QED
    BY <2>1, <2>2, PoolsKept
<1>. QED
  BY <1>1, <1>2

\* A step that leaves the links, the users and the connections alone.
LEMMA AccountsKept ==
    ASSUME Typed, Typed', Accounts, NEW c \in Clients,
           \A d \in Clients \ {c} : Same(d),
           \A l \in Links \ {LinkOf[c]} : free'[l] = free[l],
           free'[LinkOf[c]] + FramesOf(c)' = free[LinkOf[c]] + FramesOf(c),
           Counted(c)', Room(c)', Unserved(c)', OwnLink',
           user' = user, connected' \subseteq connected
    PROVE  Accounts'
<1>1. Pools'
  BY PoolsKept DEF Accounts
<1>2. \A d \in Clients : Counted(d)' /\ Room(d)'
  BY SameFrames DEF Accounts
<1>3. \A d \in Clients : Unserved(d)' /\ Admitted(d)'
  BY DEF Accounts, Unserved, Admitted, Same
<1>. QED
  BY <1>1, <1>2, <1>3 DEF Accounts

LEMMA PiecesSame ==
    ASSUME Typed, Typed', Accounts, \A d \in Clients : Same(d), free' = free, net' = net
    PROVE  OwnLink' /\ Pools' /\ \A d \in Clients : Counted(d)' /\ Room(d)'
<1>1. Pools'
  BY PoolsSame DEF Accounts
<1>2. \A d \in Clients : Counted(d)' /\ Room(d)'
  BY SameFrames DEF Accounts
<1>3. OwnLink'
  BY DEF Accounts, OwnLink
<1>. QED
  BY <1>1, <1>2, <1>3

LEMMA AccountsSame ==
    ASSUME Typed, Typed', Accounts, \A d \in Clients : Same(d), free' = free, net' = net,
           user' = user, connected' \subseteq connected
    PROVE  Accounts'
<1>1. \A d \in Clients : Unserved(d)' /\ Admitted(d)'
  BY DEF Accounts, Unserved, Admitted, Same
<1>. QED
  BY <1>1, PiecesSame DEF Accounts

\* Nobody but c, whose call it is, has a packet in the call.
LEMMA NotInCall ==
    /\ \A d : call = Idle \/ call.op = "fc" \/ call.state # "done" \/ call.client # d => InCall(d) = <<>>
    /\ \A d : call' = Idle \/ call'.op = "fc" \/ call'.state # "done" \/ call'.client # d =>
          InCall(d)' = <<>>
  BY DEF InCall, Idle

LEMMA ReceiveAccounts ==
    ASSUME Core, Typed', Accounts, GetRecvBuff \/ GotRecvBuff PROVE Accounts'
<1>1. /\ phase = "get_recv" /\ ~Erasing /\ Typed /\ TurnOfOne
      /\ UNCHANGED <<net, free, connected, user, held, to_q>>
  <2>1. Recv(me) => UNCHANGED <<net, free>>
    BY RecvSteps
  <2>. QED
    BY <2>1 DEF GetRecvBuff, GotRecvBuff, Turn, Erasing, users, port, Core, HangUp, inline
<1>2. PICK c \in Clients : c = me /\ c \in RecvClients
  BY <1>1, Mine DEF Kind
<1>3. c \in connected /\ user[c] \in {"connecting", "up", "closing"}
  BY <1>2, <1>1, MineLives
<1>4. \A d \in Clients : PacketsOf(d)' = PacketsOf(d) /\ GivenBack(d)' = GivenBack(d)
  BY <1>2, <1>1 DEF PacketsOf, GivenBack
<1>5. CASE GetRecvBuff /\ UNCHANGED <<queues, from_q, in_use>>
  <2>1. InCall(c)' = <<>> /\ InCall(c) = <<>> /\ \A d \in Clients \ {c} : InCall(d)' = InCall(d)
    <3>1. call = Idle /\ (Recv(c) \/ call' = call)
      BY <1>2, <1>5 DEF GetRecvBuff, inline
    <3>2. call' = Idle \/ call'.state = "loop"
          \/ (HasQueued(c) /\ queues' = [queues EXCEPT ![c] = Tail(@)])
      BY <3>1, RecvSteps
    <3>3. ~(HasQueued(c) /\ queues' = [queues EXCEPT ![c] = Tail(@)])
      <4>1. SUFFICES ASSUME HasQueued(c), queues' = [queues EXCEPT ![c] = Tail(@)] PROVE FALSE
        OBVIOUS
      <4>. DEFINE q == queues[c]
      <4>2. q \in Seq(Nat) /\ q # <<>>
        BY <1>2, <1>1, <4>1 DEF HasQueued, Typed, InlineTypes
      <4>4. Tail(q) = q
        <5>1. queues'[c] = Tail(q)
          BY <1>2, <1>1, <4>1 DEF Typed, InlineTypes
        <5>. QED
          BY <5>1, <1>5
      <4>. HIDE DEF q
      <4>3. Len(Tail(q)) = Len(q) - 1 /\ Len(q) \in Nat
        BY <4>2
      <4>5. Len(Tail(q)) = Len(q)
        BY <4>4, Zenon
      <4>. DEFINE n == Len(q)
      <4>6. n = n - 1 /\ n \in Nat
        BY <4>3, <4>5
      <4>. HIDE DEF n
      <4>. QED
        BY <4>6
    <3>. QED
      BY <3>1, <3>2, <3>3, NotInCall
  <2>2. \A d \in Clients : Same(d)
    BY <1>2, <1>1, <1>4, <1>5, <2>1 DEF Same
  <2>. QED
    BY <1>2, <1>1, <2>2, AccountsSame
<1>6. CASE GetRecvBuff /\ ~UNCHANGED queues
  <2>1. /\ call = Idle /\ HasQueued(c) /\ queues' = [queues EXCEPT ![c] = Tail(@)]
        /\ call' = [op |-> "recv", client |-> c, state |-> "done", packet |-> Head(queues[c])]
        /\ UNCHANGED <<from_q, in_use>>
    <3>1. call = Idle /\ Recv(c) /\ UNCHANGED <<from_q, in_use>>
      BY <1>2, <1>6 DEF GetRecvBuff, inline, port
    <3>. QED
      BY <1>6, <3>1, RecvSteps
  <2>2. /\ queues[c] \in Seq(Nat) /\ queues[c] # <<>> /\ queues'[c] = Tail(queues[c])
        /\ \A d \in Clients \ {c} : queues'[d] = queues[d]
    BY <1>2, <2>1 DEF HasQueued, Core, Typed, InlineTypes
  <2>3. /\ InCall(c) = <<>> /\ InCall(c)' = <<Head(queues[c])>>
        /\ \A d \in Clients \ {c} : InCall(d)' = <<>> /\ InCall(d) = <<>>
    BY <1>2, <2>1, NotInCall DEF InCall
  <2>4. \A d \in Clients \ {c} : Same(d)
    BY <1>2, <1>1, <1>4, <2>1, <2>2, <2>3 DEF Same
  <2>5. FramesOut(c)' = FramesOut(c)
    BY <1>2, <1>1, <1>4, <2>1 DEF FramesOut
  <2>6. FramesOf(c)' = FramesOf(c)
    <3>1. Len(queues'[c]) + Len(InCall(c)') = Len(queues[c]) + Len(InCall(c))
      BY <1>2, <2>2, <2>3
    <3>. QED
      BY <1>2, <2>5, <3>1 DEF FramesOf
  <2>7. Counted(c)' /\ Room(c)'
    BY <1>2, <1>4, <2>1, <2>5, <2>6 DEF Accounts, Counted, Room
  <2>8. Unserved(c)'
    <3>1. user[c] # "connecting"
      BY <1>2, <2>2 DEF Accounts, Unserved
    <3>. QED
      BY <1>2, <1>1, <1>3, <3>1 DEF Unserved
  <2>9. OwnLink'
    BY <1>2, <1>1 DEF Accounts, OwnLink
  <2>. QED
    BY <1>1, <1>2, <2>4, <2>6, <2>7, <2>8, <2>9, AccountsKept
<1>7. CASE GotRecvBuff /\ call.state = "done"
  <2>1. call.client = c /\ call.op = "recv" /\ MayGet(c)
    BY <1>2, <1>1, <1>7 DEF Core, Calling
  <2>2. /\ from_q' = [from_q EXCEPT ![c] = Append(@, call.packet)]
        /\ in_use' = [in_use EXCEPT ![c] = @ + 1] /\ call' = Idle /\ queues' = queues
    BY <1>2, <1>7 DEF GotRecvBuff, HangUp
  <2>3. /\ InCall(c) = <<call.packet>> /\ InCall(c)' = <<>>
        /\ \A d \in Clients \ {c} : InCall(d)' = <<>> /\ InCall(d) = <<>>
    BY <1>2, <1>7, <2>1, <2>2, NotInCall DEF InCall
  <2>4. /\ from_q[c] \in Seq(Nat) /\ from_q'[c] = Append(from_q[c], call.packet) /\ call.packet \in Nat
        /\ in_use'[c] = in_use[c] + 1 /\ in_use[c] \in Int /\ held[c] \in Nat
        /\ \A d \in Clients \ {c} : from_q'[d] = from_q[d] /\ in_use'[d] = in_use[d]
    BY <1>2, <2>2 DEF Core, Typed, InlineTypes, PortTypes, ThreadTypes
  <2>5. \A d \in Clients \ {c} : Same(d)
    BY <1>2, <1>1, <1>4, <2>2, <2>3, <2>4 DEF Same
  <2>6. FramesOut(c)' = FramesOut(c) + 1 /\ FramesOut(c) \in Nat
    <3>1. Len(from_q'[c]) = Len(from_q[c]) + 1 /\ Len(from_q[c]) \in Nat
      BY <1>2, <2>4
    <3>2. Len(GivenBack(c)) \in Nat /\ GivenBack(c)' = GivenBack(c)
      BY <1>1, <1>2, <1>4, TypedPieces
    <3>3. FramesOut(c) = Len(from_q[c]) + held[c] + Len(GivenBack(c))
      BY DEF FramesOut
    <3>4. FramesOut(c)' = Len(from_q'[c]) + held[c] + Len(GivenBack(c))
      BY <1>1, <3>2 DEF FramesOut
    <3>. QED
      BY <2>4, <3>1, <3>2, <3>3, <3>4
  <2>7. FramesOf(c)' = FramesOf(c)
    <3>1. Len(InCall(c)) = 1 /\ Len(InCall(c)') = 0 /\ queues' = queues /\ Len(queues[c]) \in Nat
      BY <1>1, <1>2, <2>2, <2>3, TypedPieces
    <3>. QED
      BY <1>2, <2>6, <3>1 DEF FramesOf
  <2>8. Counted(c)'
    <3>1. in_use[c] = FramesOut(c) /\ in_use[c] < NumPortFrames(c)
      BY <1>2, <2>1 DEF Accounts, Counted, MayGet
    <3>. QED
      BY <1>2, <2>4, <2>6, <3>1, Assumptions DEF Counted
  <2>9. Room(c)' /\ Unserved(c)' /\ OwnLink'
    BY <1>1, <1>2, <1>4, <2>2, <2>7 DEF Accounts, Room, Unserved, OwnLink
  <2>. QED
    BY <1>1, <1>2, <2>5, <2>7, <2>8, <2>9, AccountsKept
<1>8. CASE GotRecvBuff /\ call.state # "done"
  <2>1. \A d \in Clients : InCall(d)' = <<>> /\ InCall(d) = <<>>
    BY <1>2, <1>8, NotInCall DEF GotRecvBuff, HangUp
  <2>2. \A d \in Clients : Same(d)
    BY <1>2, <1>1, <1>4, <1>8, <2>1 DEF Same, GotRecvBuff, HangUp
  <2>. QED
    BY <1>2, <1>1, <2>2, AccountsSame
<1>. QED
  BY <1>2, <1>5, <1>6, <1>7, <1>8 DEF GetRecvBuff, Recv, inline, port

\* A frame that its user has given back is taken out of the queue.
LEMMA FrameBack ==
    ASSUME Typed, Typed', NEW c \in Clients, FrameNext(c), PopTo(c),
           UNCHANGED <<from_q, held>>
    PROVE  /\ FramesOut(c)' = FramesOut(c) - 1
           /\ \A d \in Clients \ {c} : GivenBack(d)' = GivenBack(d)
<1>1. /\ to_q[c] \in Seq(Nat) /\ to_q[c] # <<>> /\ Head(to_q[c]) # DISCONNECT
      /\ to_q'[c] = Tail(to_q[c]) /\ \A d \in Clients \ {c} : to_q'[d] = to_q[d]
  BY DEF FrameNext, PopTo, Typed, PortTypes
<1>2. Len(Back(to_q[c])) = 1 + Len(Back(to_q'[c])) /\ Back(to_q'[c]) \in Seq(Nat)
  <2>1. Tail(to_q[c]) \in Seq(Nat)
    BY <1>1
  <2>. QED
    BY <1>1, <2>1, BackFacts
<1>3. GivenBack(c) = Back(to_q[c]) /\ GivenBack(c)' = Back(to_q'[c])
  BY DEF GivenBack, Back
<1>4. Len(from_q[c]) \in Nat /\ held[c] \in Nat /\ Len(GivenBack(c)') \in Nat
  <2>1. from_q[c] \in Seq(Nat) /\ held[c] \in Nat
    BY DEF Typed, PortTypes
  <2>. QED
    BY <1>2, <1>3, <2>1
<1>5. FramesOut(c)' = FramesOut(c) - 1
  <2>1. FramesOut(c) = Len(from_q[c]) + held[c] + Len(GivenBack(c))
    BY DEF FramesOut
  <2>2. FramesOut(c)' = Len(from_q[c]) + held[c] + Len(GivenBack(c)')
    BY DEF FramesOut
  <2>3. Len(GivenBack(c)) = 1 + Len(GivenBack(c)')
    BY <1>2, <1>3
  <2>. QED
    BY <1>4, <2>1, <2>2, <2>3
<1>. QED
  BY <1>1, <1>5 DEF GivenBack

LEMMA ReleaseAccounts ==
    ASSUME Core, Typed', Accounts, ReleaseRecvBuffs \/ ReleaseSendBuff PROVE Accounts'
<1>1. /\ phase \in {"release_recv", "release_send"} /\ ~Erasing /\ Typed /\ TurnOfOne
      /\ UNCHANGED <<net, connected, user, held, from_q, queues>>
      /\ ReleaseRecvBuffs => phase = "release_recv"
      /\ ReleaseSendBuff => phase = "release_send"
  BY DEF ReleaseRecvBuffs, ReleaseSendBuff, Turn, Erasing, users, Core, HangUp
<1>2. PICK c \in Clients : /\ c = me /\ LinkOf[c] \in Links
                           /\ (ReleaseRecvBuffs => c \in RecvClients)
                           /\ (ReleaseSendBuff => c \in SendClients)
  BY <1>1, Mine DEF Kind
<1>3. \A d \in Clients : InCall(d)' = <<>> /\ InCall(d) = <<>>
  <2>1. CASE ReleaseRecvBuffs
    <3>1. call = Idle /\ call' = Idle
      BY <1>2, <1>1, <2>1, NoCall DEF ReleaseRecvBuffs
    <3>. QED
      BY <1>2, <3>1, NotInCall
  <2>2. CASE ReleaseSendBuff
    <3>1. call' = Idle /\ (call = Idle \/ call.op = "fc")
      BY <1>2, <1>1, <2>2 DEF ReleaseSendBuff, HangUp, Core, Calling
    <3>. QED
      BY <1>2, <3>1, NotInCall
  <2>. QED
    BY <1>2, <2>1, <2>2
<1>4. \A d \in Clients : PacketsOf(d)' = PacketsOf(d)
  BY <1>2, <1>1 DEF PacketsOf
<1>5. CASE ReleaseRecvBuffs /\ to_q[c] = <<>>
  <2>1. \A d \in Clients : Same(d)
    BY <1>2, <1>1, <1>3, <1>4, <1>5 DEF Same, ReleaseRecvBuffs, GivenBack
  <2>. QED
    BY <1>2, <1>1, <1>5, <2>1, AccountsSame DEF ReleaseRecvBuffs
<1>6. CASE ReleaseSendBuff \/ to_q[c] # <<>>
  <2>1. FrameNext(c) /\ PopTo(c) /\ in_use' = [in_use EXCEPT ![c] = @ - 1]
    BY <1>2, <1>6 DEF ReleaseRecvBuffs, ReleaseSendBuff, DisconnectNext, FrameNext
  <2>2. FramesOut(c)' = FramesOut(c) - 1 /\ \A d \in Clients \ {c} : GivenBack(d)' = GivenBack(d)
    BY <1>1, <1>2, <2>1, FrameBack
  <2>3. in_use'[c] = in_use[c] - 1 /\ \A d \in Clients \ {c} : in_use'[d] = in_use[d]
    BY <1>2, <2>1 DEF Core, Typed, ThreadTypes
  <2>4. \A d \in Clients \ {c} : Same(d)
    BY <1>2, <1>1, <1>3, <1>4, <2>2, <2>3 DEF Same
  <2>5. FramesOf(c)' = IF c \in RecvClients THEN FramesOf(c) - 1 ELSE FramesOf(c)
    <3>1. Len(InCall(c)) = 0 /\ Len(InCall(c)') = 0 /\ Len(queues[c]) \in Nat /\ FramesOut(c) \in Nat
      BY <1>1, <1>2, <1>3, TypedPieces
    <3>. QED
      BY <1>2, <1>1, <2>2, <3>1 DEF FramesOf
  <2>6. /\ free'[LinkOf[c]] = free[LinkOf[c]] + (IF c \in RecvClients THEN 1 ELSE 0)
        /\ \A l \in Links \ {LinkOf[c]} : free'[l] = free[l]
    <3>1. free \in [Links -> Int]
      BY <1>2 DEF Core, Typed, InlineTypes
    <3>2. CASE ReleaseRecvBuffs
      <4>1. to_q[c] # <<>>
        BY <1>1, <1>6, <3>2
      <4>2. free' = [free EXCEPT ![LinkOf[c]] = @ + 1]
        BY <1>2, <3>2, <4>1 DEF ReleaseRecvBuffs, ReleaseRecvBuff
      <4>3. c \in RecvClients
        BY <1>2, <3>2
      <4>. QED
        BY <1>2, <3>1, <4>2, <4>3
    <3>3. CASE ReleaseSendBuff
      BY <1>2, <3>1, <3>3, Assumptions DEF ReleaseSendBuff, HangUp
    <3>. QED
      BY <1>2, <3>2, <3>3
  <2>7. /\ free[LinkOf[c]] \in Int /\ FramesOf(c) \in Nat /\ FramesOut(c) \in Nat
        /\ in_use[c] \in Int /\ Len(PacketsOf(c)) \in Nat
    <3>1. free[LinkOf[c]] \in Int
      BY <1>2 DEF Core, Typed, InlineTypes
    <3>. QED
      BY <1>1, <1>2, <3>1, TypedPieces
  <2>8. free'[LinkOf[c]] + FramesOf(c)' = free[LinkOf[c]] + FramesOf(c)
    BY <1>2, <2>5, <2>6, <2>7
  <2>9. Counted(c)'
    <3>1. in_use[c] = FramesOut(c) /\ in_use[c] <= NumPortFrames(c) /\ NumPortFrames(c) \in Nat
      BY <1>2, Assumptions DEF Accounts, Counted
    <3>. QED
      BY <1>2, <2>2, <2>3, <2>7, <3>1 DEF Counted, NumPortFrames
  <2>10. Room(c)'
    <3>1. Reserved[c] \in Nat
      BY <1>2, Assumptions
    <3>2. Room(c)
      BY <1>2 DEF Accounts
    <3>3. CASE c \in RecvClients
      <4>1. PacketsOf(c)' = PacketsOf(c)
        BY <1>2, <1>4
      <4>. QED
        BY <1>2, <2>5, <2>7, <3>1, <3>2, <3>3, <4>1 DEF Room
    <3>4. CASE c \notin RecvClients
      BY <1>2, <1>1, <3>2, <3>4 DEF Room
    <3>. QED
      BY <1>2, <3>3, <3>4
  <2>11. Unserved(c)' /\ OwnLink'
    BY <1>1, <1>2, <1>4 DEF Accounts, Unserved, OwnLink
  <2>. QED
    BY <1>1, <1>2, <2>4, <2>6, <2>8, <2>9, <2>10, <2>11, AccountsKept
<1>. QED
  BY <1>2, <1>5, <1>6

LEMMA SendAccounts ==
    ASSUME Core, Typed', Accounts, GetSendBuff \/ AwaitDest \/ NoSend PROVE Accounts'
<1>1. /\ phase \in {"get_send", "release_send"} /\ ~Erasing /\ Typed /\ TurnOfOne
      /\ UNCHANGED <<net, free, connected, user, held, to_q, queues>>
  <2>1. AwaitDest => UNCHANGED <<net, free, queues>>
    BY RecvFlowCtrlSteps DEF AwaitDest
  <2>. QED
    BY <2>1 DEF GetSendBuff, AwaitDest, NoSend, Turn, Erasing, users, port, Core, HangUp, inline
<1>2. PICK c \in Clients : c = me /\ c \in SendClients /\ c \notin RecvClients
  BY <1>1, Mine, Assumptions DEF Kind
<1>3. \A d \in Clients : InCall(d)' = <<>> /\ InCall(d) = <<>>
  <2>1. call = Idle \/ call.op = "fc"
    BY <1>2, <1>1 DEF Core, Calling
  <2>2. call' = Idle \/ call'.op = "fc"
    <3>1. AwaitDest => call' = call \/ call'.op = "fc"
      BY RecvFlowCtrlSteps DEF AwaitDest
    <3>. QED
      BY <2>1, <3>1 DEF GetSendBuff, NoSend, HangUp, inline
  <2>. QED
    BY <1>2, <2>1, <2>2, NotInCall
<1>4. \A d \in Clients : PacketsOf(d)' = PacketsOf(d) /\ GivenBack(d)' = GivenBack(d)
  BY <1>2, <1>1 DEF PacketsOf, GivenBack
<1>5. CASE UNCHANGED <<from_q, in_use>>
  <2>1. \A d \in Clients : Same(d)
    BY <1>2, <1>1, <1>3, <1>4, <1>5 DEF Same
  <2>. QED
    BY <1>2, <1>1, <2>1, AccountsSame
<1>6. CASE ~UNCHANGED <<from_q, in_use>>
  <2>1. /\ MayGet(c) /\ from_q' = [from_q EXCEPT ![c] = Append(@, Frame)]
        /\ in_use' = [in_use EXCEPT ![c] = @ + 1]
    BY <1>2, <1>6 DEF GetSendBuff, AwaitDest, NoSend, port, thread
  <2>2. /\ from_q[c] \in Seq(Nat) /\ from_q'[c] = Append(from_q[c], Frame) /\ Frame \in Nat
        /\ in_use'[c] = in_use[c] + 1 /\ in_use[c] \in Int /\ held[c] \in Nat
        /\ \A d \in Clients \ {c} : from_q'[d] = from_q[d] /\ in_use'[d] = in_use[d]
    BY <1>2, <2>1 DEF Core, Typed, PortTypes, ThreadTypes, Frame
  <2>3. \A d \in Clients \ {c} : Same(d)
    BY <1>2, <1>1, <1>3, <1>4, <2>2 DEF Same
  <2>4. FramesOut(c)' = FramesOut(c) + 1 /\ FramesOut(c) \in Nat
    <3>1. Len(from_q'[c]) = Len(from_q[c]) + 1 /\ Len(from_q[c]) \in Nat
      BY <1>2, <2>2
    <3>2. Len(GivenBack(c)) \in Nat /\ GivenBack(c)' = GivenBack(c)
      BY <1>1, <1>2, <1>4, TypedPieces
    <3>3. FramesOut(c) = Len(from_q[c]) + held[c] + Len(GivenBack(c))
      BY DEF FramesOut
    <3>4. FramesOut(c)' = Len(from_q'[c]) + held[c] + Len(GivenBack(c))
      BY <1>1, <3>2 DEF FramesOut
    <3>. QED
      BY <2>2, <3>1, <3>2, <3>3, <3>4
  <2>5. FramesOf(c)' = FramesOf(c)
    BY <1>1, <1>2, <1>3 DEF FramesOf
  <2>6. Counted(c)'
    <3>1. in_use[c] = FramesOut(c) /\ in_use[c] < NumPortFrames(c)
      BY <1>2, <2>1 DEF Accounts, Counted, MayGet
    <3>. QED
      BY <1>2, <2>2, <2>4, <3>1, Assumptions DEF Counted
  <2>7. Room(c)' /\ Unserved(c)' /\ OwnLink'
    BY <1>1, <1>2 DEF Accounts, Room, Unserved, OwnLink
  <2>. QED
    BY <1>1, <1>2, <2>3, <2>5, <2>6, <2>7, AccountsKept
<1>. QED
  BY <1>2, <1>5, <1>6

LEMMA DisconnectAccounts ==
    ASSUME Core, Typed', TurnOfOne', Accounts, NEW p \in {"release_recv", "release_send"},
           Disconnect(p)
    PROVE  Accounts'
<1>1. /\ phase = p /\ phase # "request" /\ Typed /\ TurnOfOne /\ connected' \subseteq connected
      /\ UNCHANGED <<net, queues, call, user, held>>
  BY DEF Disconnect, Turn, Core, users
<1>2. PICK c \in Clients : c = me /\ LinkOf[c] \in Links
  BY <1>1, Mine
<1>3. /\ to_q[c] = <<DISCONNECT>> /\ to_q'[c] = <<>> /\ from_q'[c] = <<>> /\ held[c] = 0
      /\ call = Idle /\ user[c] = "closing"
  BY <1>2, DisconnectCore
<1>4. /\ in_use'[c] = in_use[c] - Len(from_q[c])
      /\ \A d \in Clients \ {c} : from_q'[d] = from_q[d] /\ to_q'[d] = to_q[d] /\ in_use'[d] = in_use[d]
      /\ free'[LinkOf[c]] = free[LinkOf[c]] + (IF c \in RecvClients THEN Len(from_q[c]) ELSE 0)
      /\ \A l \in Links \ {LinkOf[c]} : free'[l] = free[l]
  <2>1. /\ from_q' = [from_q EXCEPT ![c] = <<>>] /\ to_q' = [to_q EXCEPT ![c] = Tail(@)]
        /\ in_use' = [in_use EXCEPT ![c] = @ - Len(from_q[c])]
        /\ free' = IF c \in RecvClients
                   THEN [free EXCEPT ![LinkOf[c]] = @ + Len(from_q[c])] ELSE free
    BY <1>2 DEF Disconnect, PopTo
  <2>2. /\ from_q \in [Clients -> Seq(Nat)] /\ to_q \in [Clients -> Seq(Nat)]
        /\ in_use \in [Clients -> Int] /\ free \in [Links -> Int]
    BY <1>1 DEF Typed, PortTypes, ThreadTypes, InlineTypes
  <2>3. free'[LinkOf[c]] = free[LinkOf[c]] + (IF c \in RecvClients THEN Len(from_q[c]) ELSE 0)
    BY <1>2, <2>1, <2>2
  <2>. QED
    BY <1>2, <2>1, <2>2, <2>3
<1>5. \A d \in Clients : InCall(d)' = <<>> /\ InCall(d) = <<>>
  BY <1>1, <1>3, NotInCall
<1>6. \A d \in Clients : PacketsOf(d)' = PacketsOf(d)
  BY <1>1 DEF PacketsOf
<1>7. GivenBack(c) = <<>> /\ GivenBack(c)' = <<>>
  <2>1. Back(to_q[c]) = <<>> /\ Back(to_q'[c]) = <<>>
    <3>1. <<>> \in Seq(Nat)
      OBVIOUS
    <3>. QED
      BY <1>3, <3>1, BackFacts
  <2>. QED
    BY <2>1 DEF Back, GivenBack
<1>8. \A d \in Clients \ {c} : Same(d)
  BY <1>1, <1>4, <1>5, <1>6 DEF Same, GivenBack
<1>9. /\ Len(from_q[c]) \in Nat /\ Len(queues[c]) \in Nat /\ free[LinkOf[c]] \in Int
      /\ in_use[c] \in Int /\ Len(PacketsOf(c)) \in Nat /\ Len(<<>>) = 0
  <2>1. free[LinkOf[c]] \in Int
    BY <1>1, <1>2 DEF Typed, InlineTypes
  <2>2. from_q[c] \in Seq(Nat) /\ queues[c] \in Seq(Nat) /\ in_use[c] \in Int /\ PacketsOf(c) \in Seq(Nat)
    BY <1>1, TypedPieces
  <2>. QED
    BY <2>1, <2>2
<1>10. FramesOut(c) = Len(from_q[c]) /\ FramesOut(c)' = 0
  <2>1. FramesOut(c) = Len(from_q[c]) + held[c] + Len(GivenBack(c))
    BY DEF FramesOut
  <2>2. FramesOut(c)' = Len(from_q'[c]) + held'[c] + Len(GivenBack(c)')
    BY DEF FramesOut
  <2>. QED
    BY <1>1, <1>3, <1>7, <1>9, <2>1, <2>2
<1>11. /\ FramesOf(c) = Len(queues[c]) + (IF c \in RecvClients THEN Len(from_q[c]) ELSE 0)
       /\ FramesOf(c)' = Len(queues[c])
  <2>1. FramesOf(c) = Len(queues[c]) + 0 + (IF c \in RecvClients THEN Len(from_q[c]) ELSE 0)
    BY <1>5, <1>9, <1>10 DEF FramesOf
  <2>2. FramesOf(c)' = Len(queues[c]) + 0 + 0
    BY <1>1, <1>5, <1>9, <1>10 DEF FramesOf
  <2>. QED
    BY <1>9, <2>1, <2>2
<1>12. free'[LinkOf[c]] + FramesOf(c)' = free[LinkOf[c]] + FramesOf(c)
  <2>1. CASE c \in RecvClients
    <3>1. free'[LinkOf[c]] = free[LinkOf[c]] + Len(from_q[c])
      BY <1>4, <2>1
    <3>2. FramesOf(c) = Len(queues[c]) + Len(from_q[c])
      BY <1>11, <2>1
    <3>3. FramesOf(c)' = Len(queues[c])
      BY <1>11
    <3>4. Len(from_q[c]) \in Int /\ Len(queues[c]) \in Int /\ free[LinkOf[c]] \in Int
      BY <1>9
    <3>. DEFINE f == Len(from_q[c])
                q == Len(queues[c])
    <3>5. /\ free'[LinkOf[c]] = free[LinkOf[c]] + f /\ FramesOf(c) = q + f /\ FramesOf(c)' = q
          /\ f \in Int /\ q \in Int /\ free[LinkOf[c]] \in Int
      BY <3>1, <3>2, <3>3, <3>4
    <3>. HIDE DEF f, q
    <3>. QED
      BY <3>5
  <2>2. CASE c \notin RecvClients
    <3>1. free'[LinkOf[c]] = free[LinkOf[c]] + 0
      BY <1>4, <2>2
    <3>2. FramesOf(c) = Len(queues[c]) + 0
      BY <1>11, <2>2
    <3>3. FramesOf(c)' = Len(queues[c])
      BY <1>11
    <3>4. Len(from_q[c]) \in Int /\ Len(queues[c]) \in Int /\ free[LinkOf[c]] \in Int
      BY <1>9
    <3>. QED
      BY <3>1, <3>2, <3>3, <3>4
  <2>. QED
    BY <2>1, <2>2
<1>13. Counted(c)'
  <2>1. in_use[c] = FramesOut(c) /\ NumPortFrames(c) \in Nat
    BY Assumptions DEF Accounts, Counted
  <2>2. in_use'[c] = 0
    BY <1>4, <1>9, <1>10, <2>1
  <2>. QED
    BY <1>10, <2>1, <2>2 DEF Counted, NumPortFrames
<1>14. Room(c)'
  <2>1. Room(c) /\ Reserved[c] \in Nat
    BY Assumptions DEF Accounts
  <2>2. CASE c \in RecvClients
    <3>1. Len(PacketsOf(c)) + FramesOf(c) <= Reserved[c]
      BY <2>1, <2>2 DEF Room
    <3>2. Len(PacketsOf(c)) + Len(queues[c]) <= Reserved[c]
      <4>1. FramesOf(c) = Len(queues[c]) + Len(from_q[c])
        BY <1>11, <2>2
      <4>2. /\ Len(from_q[c]) \in Nat /\ Len(queues[c]) \in Int /\ Len(PacketsOf(c)) \in Int
            /\ Reserved[c] \in Int
        BY <1>9, <2>1
      <4>. DEFINE f == Len(from_q[c])
                  q == Len(queues[c])
                  n == Len(PacketsOf(c))
      <4>3. n + FramesOf(c) <= Reserved[c] /\ FramesOf(c) = q + f /\ {n, q, Reserved[c]} \subseteq Int /\ f \in Nat
        BY <3>1, <4>1, <4>2
      <4>. HIDE DEF f, q, n
      <4>4. n + q <= Reserved[c]
        BY <4>3
      <4>. QED
        BY <4>4 DEF n, q
    <3>3. PacketsOf(c)' = PacketsOf(c)
      BY <1>6
    <3>. QED
      BY <1>11, <2>2, <3>2, <3>3 DEF Room
  <2>3. CASE c \notin RecvClients
    BY <1>1, <2>1, <2>3 DEF Room
  <2>. QED
    BY <2>2, <2>3
<1>15. Unserved(c)' /\ OwnLink'
  BY <1>1, <1>3 DEF Accounts, Unserved, OwnLink
<1>. QED
  BY <1>1, <1>4, <1>8, <1>12, <1>13, <1>14, <1>15, AccountsKept

LEMMA EraseAccounts ==
    ASSUME Core, Typed', TurnOfOne', Accounts, NEW p \in {"release_recv", "release_send"}, Erase(p)
    PROVE  Accounts'
<1>1. /\ Erasing /\ phase # "request" /\ Typed /\ TurnOfOne
      /\ UNCHANGED <<net, call, user, held, from_q, to_q, connected, in_use>>
      /\ DisconnectReceiver(me)
  <2>1. DisconnectReceiver(me)
    BY DEF Erase
  <2>2. UNCHANGED <<net, call>>
    BY <2>1, DisconnectSteps
  <2>3. UNCHANGED <<user, held, from_q, to_q, connected, in_use>>
    BY DEF Erase, port, users
  <2>4. phase \in {"erase_recv", "erase_send"}
    BY DEF Erase, Turn, EraseIn
  <2>. QED
    BY <2>1, <2>2, <2>3, <2>4 DEF Erasing, Core
<1>2. PICK c \in Clients : c = me /\ LinkOf[c] \in Links
  BY <1>1, Mine
<1>3. user[c] \in {"closing", "gone"} /\ call = Idle
  BY <1>1, <1>2, EraseCore DEF Core, Erased
<1>4. \A d \in Clients : /\ InCall(d)' = InCall(d) /\ InCall(d) = <<>> /\ PacketsOf(d)' = PacketsOf(d)
                         /\ GivenBack(d)' = GivenBack(d)
  BY <1>1, <1>3, NotInCall DEF InCall, PacketsOf, GivenBack
<1>5. CASE UNCHANGED <<free, queues>>
  <2>1. UNCHANGED <<free, queues>>
    BY <1>5
  <2>2. \A d \in Clients : Same(d)
    BY <1>1, <1>4, <2>1 DEF Same
  <2>. QED
    BY <1>1, <2>1, <2>2, AccountsSame
<1>6. CASE ~UNCHANGED <<free, queues>>
  <2>1. /\ free' = [free EXCEPT ![LinkOf[c]] = @ + Len(queues[c])]
        /\ queues' = [queues EXCEPT ![c] = <<>>]
    BY <1>1, <1>2, <1>6, DisconnectSteps DEF FramesBack
  <2>2. /\ free \in [Links -> Int] /\ queues \in [Clients -> Seq(Nat)]
    BY <1>1 DEF Typed, InlineTypes
  <2>3. /\ queues'[c] = <<>> /\ \A d \in Clients \ {c} : queues'[d] = queues[d]
        /\ free'[LinkOf[c]] = free[LinkOf[c]] + Len(queues[c])
        /\ \A l \in Links \ {LinkOf[c]} : free'[l] = free[l]
    BY <1>2, <2>1, <2>2
  <2>4. \A d \in Clients \ {c} : Same(d)
    BY <1>1, <1>4, <2>3 DEF Same
  <2>5. FramesOut(c)' = FramesOut(c)
    BY <1>1, <1>4 DEF FramesOut
  <2>6. /\ Len(queues[c]) \in Nat /\ free[LinkOf[c]] \in Int /\ FramesOut(c) \in Nat
        /\ Len(PacketsOf(c)) \in Nat /\ Len(<<>>) = 0 /\ FramesOf(c) \in Nat
    <3>1. queues[c] \in Seq(Nat) /\ FramesOut(c) \in Nat /\ PacketsOf(c) \in Seq(Nat) /\ FramesOf(c) \in Nat
      BY <1>1, TypedPieces
    <3>2. free[LinkOf[c]] \in Int
      BY <1>2, <2>2
    <3>. QED
      BY <3>1, <3>2
  <2>7. FramesOf(c)' = FramesOf(c) - Len(queues[c])
    <3>1. FramesOf(c) = Len(queues[c]) + 0 + (IF c \in RecvClients THEN FramesOut(c) ELSE 0)
      BY <1>4, <2>6 DEF FramesOf
    <3>2. FramesOf(c)' = 0 + 0 + (IF c \in RecvClients THEN FramesOut(c) ELSE 0)
      BY <1>4, <2>3, <2>5, <2>6 DEF FramesOf
    <3>. QED
      BY <2>6, <3>1, <3>2
  <2>8. free'[LinkOf[c]] + FramesOf(c)' = free[LinkOf[c]] + FramesOf(c)
    BY <2>3, <2>6, <2>7
  <2>9. Counted(c)'
    BY <1>1, <2>5 DEF Accounts, Counted
  <2>10. Room(c)'
    <3>1. Room(c) /\ Reserved[c] \in Nat
      BY Assumptions DEF Accounts
    <3>2. CASE c \in RecvClients
      <4>1. Len(PacketsOf(c)) + FramesOf(c) <= Reserved[c]
        BY <3>1, <3>2 DEF Room
      <4>2. Len(PacketsOf(c)) + FramesOf(c)' <= Reserved[c]
        BY <2>6, <2>7, <3>1, <4>1
      <4>3. PacketsOf(c)' = PacketsOf(c)
        BY <1>4
      <4>. QED
        BY <3>2, <4>2, <4>3 DEF Room
    <3>3. CASE c \notin RecvClients
      BY <2>3, <3>3 DEF Room
    <3>. QED
      BY <3>2, <3>3
  <2>11. Unserved(c)' /\ OwnLink'
    BY <1>1, <1>3 DEF Accounts, Unserved, OwnLink
  <2>. QED
    BY <1>1, <2>3, <2>4, <2>8, <2>9, <2>10, <2>11, AccountsKept
<1>. QED
  BY <1>5, <1>6

LEMMA RequestAccounts ==
    ASSUME Core, Typed', TurnOfOne', Accounts, RequestOrder, Reservations, Request
    PROVE  Accounts'
<1>1. UNCHANGED <<net, free, queues, call, in_use, from_q, to_q, user, held, last, accepted>>
  BY DEF Request, inline, Attach, AttachRecvLink, Detach, DetachRecvLink, MakeClient,
     ConnectReceiver, Crash, users
<1>2. \A d \in Clients : Same(d)
  BY <1>1 DEF Same, GivenBack, InCall, PacketsOf
<1>3. Typed
  BY DEF Core
<1>4. OwnLink' /\ Pools' /\ \A d \in Clients : Counted(d)' /\ Room(d)'
  BY <1>1, <1>2, <1>3, PiecesSame
<1>5. \A d \in Clients : Unserved(d)'
  BY <1>1, <1>2 DEF Accounts, Unserved, Same
<1>6. ASSUME NEW d \in Clients PROVE Admitted(d)'
  <2>1. Admitted(d)
    BY DEF Accounts
  <2>2. CASE d \in connected' => d \in connected
    BY <1>1, <2>1, <2>2 DEF Admitted
  <2>3. CASE d \in connected' /\ d \notin connected
    <3>1. reserved[LinkOf[d]] \in Nat /\ Reserved[d] \in Nat /\ NumFrames[LinkOf[d]] \in Nat
      <4>1. LinkOf[d] \in Links
        BY Assumptions
      <4>2. \A c \in ClientsOn(LinkOf[d]) : Reserves[c] \in Nat
        BY Assumptions, ClientsFinite DEF Reserves
      <4>3. Sum(Reserves, ClientsOn(LinkOf[d])) \in Nat
        <5>. DEFINE S == ClientsOn(LinkOf[d])
                    f == Reserves
        <5>1. IsFiniteSet(S) /\ \A x \in S : f[x] \in Nat
          BY <4>2, ClientsFinite
        <5>. HIDE DEF S, f
        <5>2. Sum(f, S) \in Nat
          BY <5>1, SumOver
        <5>. QED
          BY <5>2 DEF S, f
      <4>. QED
        BY <4>1, <4>3, Assumptions DEF Reservations
    <3>2. reserved[LinkOf[d]] + Reserved[d] <= NumFrames[LinkOf[d]]
      <4>1. requests # <<>>
        BY <2>3 DEF Request
      <4>. DEFINE e == Head(requests)[2]
      <4>2. /\ MakeClient(e)
            /\ connected' = connected \union {e}
        BY <2>3, <4>1 DEF Request, Attach, Detach, MakeClient
      <4>3. d = e
        BY <2>3, <4>2
      <4>4. ~(reserved[LinkOf[e]] + Reserved[e] > NumFrames[LinkOf[e]])
        BY <2>3, <4>2, <4>3 DEF MakeClient
      <4>. QED
        BY <3>1, <4>3, <4>4
    <3>3. Reserved[d] <= NumFrames[LinkOf[d]]
      BY <3>1, <3>2
    <3>. QED
      BY <3>3 DEF Admitted
  <2>. QED
    BY <2>2, <2>3
<1>. QED
  BY <1>4, <1>5, <1>6 DEF Accounts

\* The first packet of a link, for c with number n, is taken.
Takes(l, c, n) ==
    /\ net[l] # <<>> /\ net' = [net EXCEPT ![l] = Tail(@)]
    /\ c = Head(net[l])[1] /\ n = Head(net[l])[2]

LEMMA Taken ==
    ASSUME Typed, OwnLink, NEW l \in Links, NEW c, NEW n, Takes(l, c, n)
    PROVE  /\ c \in Clients /\ LinkOf[c] = l /\ n \in Nat
           /\ PacketsOf(c) = <<n>> \o PacketsOf(c)'
           /\ PacketsOf(c)' \in Seq(Nat) /\ PacketsOf(c) \in Seq(Nat)
           /\ Len(PacketsOf(c)) = 1 + Len(PacketsOf(c)')
           /\ \A d \in Clients \ {c} : PacketsOf(d)' = PacketsOf(d)
           /\ OwnLink'
<1>1. net \in [Links -> Seq(Clients \X Nat)]
  BY DEF Typed, InlineTypes
<1>. USE DEF Takes
<1>. DEFINE s == net[l]
<1>2. s \in Seq(Clients \X Nat) /\ s # <<>> /\ c = Head(s)[1] /\ n = Head(s)[2]
  BY <1>1
<1>3. net'[l] = Tail(s) /\ \A k \in Links \ {l} : net'[k] = net[k]
  BY <1>1
<1>4. LinkOf[s[1][1]] = l
  <2>1. 1 \in DOMAIN s
    BY <1>2
  <2>. QED
    BY <2>1 DEF OwnLink
<1>5. OwnLink'
  <2>1. SUFFICES ASSUME NEW k \in Links, NEW i \in DOMAIN net'[k] PROVE LinkOf[net'[k][i][1]] = k
    BY DEF OwnLink
  <2>2. CASE k = l
    <3>1. i \in DOMAIN Tail(s)
      BY <1>3, <2>2
    <3>. HIDE DEF s
    <3>2. i + 1 \in DOMAIN s /\ Tail(s)[i] = s[i + 1]
      BY <1>2, <3>1
    <3>3. LinkOf[s[i + 1][1]] = l
      BY <3>2 DEF OwnLink, s
    <3>. QED
      BY <1>3, <2>2, <3>2, <3>3
  <2>3. CASE k # l
    BY <1>3, <2>1, <2>3 DEF OwnLink
  <2>. QED
    BY <2>2, <2>3
<1>6. \A d : PacketsOf(d) = Numbers(net[LinkOf[d]], d) /\ PacketsOf(d)' = Numbers(net'[LinkOf[d]], d)
  BY DEF PacketsOf, Numbers
<1>7. \A d \in Clients : LinkOf[d] # l => PacketsOf(d)' = PacketsOf(d)
  BY <1>3, <1>6, Assumptions
<1>8. ASSUME NEW d \in Clients, LinkOf[d] = l
      PROVE  PacketsOf(d) = Numbers(s, d) /\ PacketsOf(d)' = Numbers(Tail(s), d)
  BY <1>3, <1>6, <1>8
<1>. HIDE DEF s
<1>9. c \in Clients /\ n \in Nat /\ LinkOf[c] = l /\ Tail(s) \in Seq(Clients \X Nat)
  BY <1>2, <1>4
<1>10. /\ \A d \in Clients \ {c} : Numbers(Tail(s), d) = Numbers(s, d)
       /\ Numbers(s, c) = <<n>> \o Numbers(Tail(s), c)
       /\ Numbers(s, c) \in Seq(Nat) /\ Numbers(Tail(s), c) \in Seq(Nat)
  <2>1. s \in Seq(Clients \X Nat) /\ s # <<>>
    BY <1>2
  <2>2. Numbers(s, c) \in Seq(Nat) /\ Numbers(Tail(s), c) \in Seq(Nat)
    BY <1>9, <2>1, NumbersTyped
  <2>3. \A d \in Clients \ {c} : Numbers(Tail(s), d) = Numbers(s, d)
    BY <1>2, NumbersHead
  <2>4. Numbers(s, c) = <<n>> \o Numbers(Tail(s), c)
    BY <1>2, <1>9, NumbersHead
  <2>. QED
    BY <2>2, <2>3, <2>4
<1>11. Len(<<n>> \o Numbers(Tail(s), c)) = 1 + Len(Numbers(Tail(s), c))
  BY <1>9, <1>10
<1>12. \A d \in Clients \ {c} : PacketsOf(d)' = PacketsOf(d)
  BY <1>7, <1>8, <1>10
<1>. QED
  BY <1>5, <1>8, <1>9, <1>10, <1>11, <1>12

\* A packet that is taken leaves room, and its receiver is served.
LEMMA TakenRoom ==
    ASSUME Typed, Accounts, NEW l \in Links, NEW c, NEW n, Takes(l, c, n), user' = user,
           c \in RecvClients => FramesOf(c)' \in {FramesOf(c), FramesOf(c) + 1},
           c \notin RecvClients => queues'[c] = queues[c]
    PROVE  Room(c)' /\ Unserved(c)' /\ OwnLink'
<1>1. /\ c \in Clients /\ PacketsOf(c) = <<n>> \o PacketsOf(c)' /\ n \in Nat
      /\ PacketsOf(c)' \in Seq(Nat) /\ Len(PacketsOf(c)) = 1 + Len(PacketsOf(c)')
      /\ OwnLink'
  <2>1. OwnLink
    BY DEF Accounts
  <2>. QED
    BY <2>1, Taken
<1>2. Room(c)'
  <2>1. Room(c) /\ Reserved[c] \in Nat
    BY <1>1, Assumptions DEF Accounts
  <2>2. CASE c \in RecvClients
    <3>1. Len(PacketsOf(c)) + FramesOf(c) <= Reserved[c]
      BY <2>1, <2>2 DEF Room
    <3>. DEFINE q == Len(PacketsOf(c)')
    <3>2. q \in Nat /\ FramesOf(c) \in Nat /\ Len(PacketsOf(c)) = 1 + q
      BY <1>1, TypedPieces
    <3>. HIDE DEF q
    <3>3. q + FramesOf(c)' <= Reserved[c]
      BY <2>1, <2>2, <3>1, <3>2
    <3>. QED
      BY <2>2, <3>3 DEF Room, q
  <2>3. CASE c \notin RecvClients
    BY <2>1, <2>3 DEF Room
  <2>. QED
    BY <2>2, <2>3
<1>3. Unserved(c)'
  <2>1. <<n>> \o PacketsOf(c)' # <<>>
    BY <1>1
  <2>2. PacketsOf(c) # <<>>
    BY <1>1, <2>1
  <2>. QED
    BY <1>1, <2>2 DEF Accounts, Unserved
<1>. QED
  BY <1>1, <1>2, <1>3

LEMMA LoopAccounts ==
    ASSUME Core, Typed', Accounts, InlineStep, UNCHANGED <<port, thread, requests, users>>
    PROVE  Accounts'
<1>1. /\ Typed /\ UNCHANGED <<connected, user, held, from_q, to_q, in_use>>
  BY DEF Core, port, thread, users
<1>2. PICK l \in Links : LoopTimeout(l) \/ LoopPacket(l)
  BY DEF InlineStep
<1>3. Looping(l) /\ call.state = "loop" /\ \A d \in Clients : InCall(d) = <<>>
  BY <1>2, NotInCall DEF LoopTimeout, LoopPacket, Looping
<1>4. \A d \in Clients : GivenBack(d)' = GivenBack(d)
  BY <1>1 DEF GivenBack
<1>5. CASE UNCHANGED <<net, free, queues>> /\ \A d \in Clients : InCall(d)' = <<>>
  <2>1. \A d \in Clients : Same(d)
    BY <1>1, <1>3, <1>4, <1>5 DEF Same, PacketsOf
  <2>. QED
    BY <1>1, <1>5, <2>1, AccountsSame
<1>6. CASE LoopTimeout(l)
  <2>1. UNCHANGED <<net, free, queues>>
    BY <1>6 DEF LoopTimeout, Crash
  <2>2. \A d \in Clients : InCall(d)' = <<>>
    BY <1>3, <1>6, NotInCall DEF LoopTimeout, Crash, Returns, Calls
  <2>. QED
    BY <1>5, <2>1, <2>2
<1>7. CASE LoopPacket(l) /\ \E what : Crash(what)
  <2>1. UNCHANGED <<net, free, queues, call>>
    BY <1>7 DEF Crash
  <2>2. \A d \in Clients : InCall(d)' = <<>>
    BY <1>3, <2>1 DEF InCall
  <2>. QED
    BY <1>5, <2>1, <2>2
<1>8. CASE LoopPacket(l) /\ ~\E what : Crash(what)
  <2>1. PICK c, n : c = Head(net[l])[1] /\ n = Head(net[l])[2]
    OBVIOUS
  <2>2. /\ Takes(l, c, n)
        /\ \/ /\ c = call.client /\ c \in RecvClients
              /\ free' = [free EXCEPT ![l] = @ - 1]
              /\ Returns("done", n)
              /\ UNCHANGED <<queues, updates>>
           \/ /\ c \in SendClients
              /\ IF call.op = "fc" /\ c = call.client THEN Returns("done", 0) ELSE UNCHANGED call
              /\ UNCHANGED <<free, queues>>
           \/ /\ c # call.client /\ c \in RecvClients
              /\ queues' = [queues EXCEPT ![c] = Append(@, n)]
              /\ free' = [free EXCEPT ![l] = @ - 1]
              /\ UNCHANGED <<updates, call>>
           \/ UNCHANGED <<free, queues, updates, call>>
    BY <1>8, <2>1 DEF LoopPacket, Takes
  <2>3. /\ c \in Clients /\ LinkOf[c] = l /\ n \in Nat
        /\ \A d \in Clients \ {c} : PacketsOf(d)' = PacketsOf(d)
    <3>1. OwnLink
      BY DEF Accounts
    <3>. QED
      BY <1>1, <2>2, <3>1, Taken
  <2>4. /\ free \in [Links -> Int] /\ queues \in [Clients -> Seq(Nat)] /\ free[l] \in Int
    BY <1>1 DEF Typed, InlineTypes
  <2>5. FramesOut(c)' = FramesOut(c) /\ FramesOut(c) \in Nat /\ FramesOf(c) \in Nat
    BY <1>1, <1>4, <2>3, TypedPieces DEF FramesOut
  <2>6. Counted(c)'
    BY <1>1, <2>3, <2>5 DEF Accounts, Counted
  <2>7. /\ FramesOf(c) = Len(queues[c]) + 0 + (IF c \in RecvClients THEN FramesOut(c) ELSE 0)
        /\ Len(queues[c]) \in Nat
    <3>1. Len(InCall(c)) = 0 /\ queues[c] \in Seq(Nat)
      BY <1>3, <2>3, <2>4
    <3>. QED
      BY <3>1 DEF FramesOf
  <2>8. CASE /\ c \in RecvClients /\ free' = [free EXCEPT ![l] = @ - 1]
             /\ FramesOf(c)' = FramesOf(c) + 1
             /\ \A d \in Clients \ {c} : InCall(d)' = <<>> /\ queues'[d] = queues[d]
    <3>1. \A d \in Clients \ {c} : Same(d)
      BY <1>1, <1>3, <1>4, <2>3, <2>8 DEF Same
    <3>2. free'[l] = free[l] - 1 /\ \A k \in Links \ {l} : free'[k] = free[k]
      BY <2>4, <2>8
    <3>3. free'[LinkOf[c]] + FramesOf(c)' = free[LinkOf[c]] + FramesOf(c)
      BY <2>3, <2>4, <2>5, <2>8, <3>2
    <3>4. Room(c)' /\ Unserved(c)' /\ OwnLink'
      BY <1>1, <2>1, <2>2, <2>8, TakenRoom
    <3>. QED
      BY <1>1, <2>3, <2>6, <3>1, <3>2, <3>3, <3>4, AccountsKept
  <2>9. CASE UNCHANGED <<free, queues>> /\ \A d \in Clients : InCall(d)' = <<>>
    <3>1. \A d \in Clients \ {c} : Same(d)
      BY <1>1, <1>3, <1>4, <2>3, <2>9 DEF Same
    <3>2. FramesOf(c)' = FramesOf(c)
      BY <1>3, <2>3, <2>5, <2>9 DEF FramesOf
    <3>3. Room(c)' /\ Unserved(c)' /\ OwnLink'
      BY <1>1, <2>1, <2>2, <2>9, <3>2, TakenRoom
    <3>. QED
      BY <1>1, <2>3, <2>6, <2>9, <3>1, <3>2, <3>3, AccountsKept
  <2>10. CASE /\ c = call.client /\ c \in RecvClients /\ free' = [free EXCEPT ![l] = @ - 1]
              /\ Returns("done", n) /\ UNCHANGED queues
    <3>1. call.op = "recv"
      <4>1. call.client = me /\ phase # "request" /\ (call.op # "recv" => phase = "release_send")
        BY <1>3 DEF Core, Calling
      <4>2. call.op # "recv" => c \in SendClients
        BY <1>1, <2>10, <4>1, Mine DEF Kind, Core
      <4>. QED
        BY <2>10, <4>2, Assumptions
    <3>2. call' = [op |-> "recv", client |-> c, state |-> "done", packet |-> n]
      BY <2>10, <3>1 DEF Returns, Calls
    <3>3. InCall(c)' = <<n>> /\ Len(<<n>>) = 1 /\ \A d \in Clients \ {c} : InCall(d)' = <<>>
      BY <3>2 DEF InCall
    <3>4. FramesOf(c)' = Len(queues[c]) + 1 + FramesOut(c)
      BY <2>5, <2>10, <3>3 DEF FramesOf
    <3>5. FramesOf(c)' = FramesOf(c) + 1
      BY <2>5, <2>7, <2>10, <3>4
    <3>. QED
      BY <2>8, <2>10, <3>3, <3>5
  <2>11. CASE /\ c \in RecvClients /\ queues' = [queues EXCEPT ![c] = Append(@, n)]
              /\ free' = [free EXCEPT ![l] = @ - 1] /\ UNCHANGED call
    <3>1. \A d \in Clients : InCall(d)' = <<>>
      BY <1>3, <2>11 DEF InCall
    <3>2. Len(queues'[c]) = Len(queues[c]) + 1 /\ \A d \in Clients \ {c} : queues'[d] = queues[d]
      <4>1. queues'[c] = Append(queues[c], n) /\ queues[c] \in Seq(Nat)
        BY <2>3, <2>4, <2>11
      <4>. QED
        BY <2>3, <2>4, <2>11, <4>1
    <3>3. FramesOf(c)' = Len(queues[c]) + 1 + 0 + FramesOut(c)
      BY <2>3, <2>5, <2>11, <3>1, <3>2 DEF FramesOf
    <3>4. FramesOf(c)' = FramesOf(c) + 1
      BY <2>5, <2>7, <2>11, <3>3
    <3>. QED
      BY <2>8, <2>11, <3>1, <3>2, <3>4
  <2>12. CASE /\ UNCHANGED <<free, queues>>
              /\ IF call.op = "fc" /\ c = call.client THEN Returns("done", 0) ELSE UNCHANGED call
    <3>1. \A d \in Clients : InCall(d)' = <<>>
      <4>1. CASE UNCHANGED call
        BY <1>3, <4>1 DEF InCall
      <4>2. CASE call.op = "fc" /\ Returns("done", 0)
        BY <4>2, NotInCall DEF Returns, Calls
      <4>. QED
        BY <2>12, <4>1, <4>2
    <3>. QED
      BY <2>9, <2>12, <3>1
  <2>13. CASE UNCHANGED <<free, queues, call>>
    <3>1. \A d \in Clients : InCall(d)' = <<>>
      BY <1>3, <2>13 DEF InCall
    <3>. QED
      BY <2>9, <2>13, <3>1
  <2>. QED
    BY <2>2, <2>10, <2>11, <2>12, <2>13
<1>. QED
  BY <1>2, <1>6, <1>7, <1>8

LEMMA UserAccounts ==
    ASSUME Core, Typed', Accounts, NEW c \in Clients, User(c)
    PROVE  Accounts'
<1>1. /\ Typed /\ UNCHANGED <<net, free, queues, call, in_use, connected>>
  BY DEF Core, User, Connect, Connected, Take, Give, Close, Closed, inline, port, thread
<1>2. /\ from_q \in [Clients -> Seq(Nat)] /\ to_q \in [Clients -> Seq(Nat)] /\ held \in [Clients -> Nat]
      /\ user \in [Clients -> {"new", "connecting", "up", "closing", "gone"}]
      /\ accepted \in [Clients -> Nat] /\ accepted' \in [Clients -> Nat]
  BY <1>1 DEF Typed, PortTypes
<1>3. \A d \in Clients \ {c} :
         from_q'[d] = from_q[d] /\ to_q'[d] = to_q[d] /\ held'[d] = held[d] /\ user'[d] = user[d]
  BY <1>2 DEF User, Connect, Connected, Take, Give, Close, Closed, port
<1>4. \A d \in Clients : PacketsOf(d)' = PacketsOf(d) /\ InCall(d)' = InCall(d)
  BY <1>1 DEF PacketsOf, InCall
<1>5. \A d \in Clients \ {c} : Same(d)
  BY <1>1, <1>3, <1>4 DEF Same, GivenBack
<1>6. FramesOut(c)' = FramesOut(c)
  <2>1. /\ FramesOut(c) = Len(from_q[c]) + held[c] + Len(Back(to_q[c]))
        /\ FramesOut(c)' = Len(from_q'[c]) + held'[c] + Len(Back(to_q'[c]))
    BY DEF FramesOut, GivenBack, Back
  <2>2. /\ from_q[c] \in Seq(Nat) /\ to_q[c] \in Seq(Nat) /\ Back(to_q[c]) \in Seq(Nat) /\ held[c] \in Nat
    BY <1>2, BackFacts
  <2>. DEFINE f == Len(from_q[c])
              b == Len(Back(to_q[c]))
  <2>3. f \in Nat /\ b \in Nat
    BY <2>2
  <2>4. CASE Take(c)
    <3>1. from_q[c] # <<>> /\ from_q'[c] = Tail(from_q[c]) /\ held'[c] = held[c] + 1 /\ to_q' = to_q
      BY <1>2, <2>4 DEF Take
    <3>2. Len(from_q'[c]) = f - 1
      BY <2>2, <3>1
    <3>3. Len(Back(to_q'[c])) = b
      BY <3>1
    <3>4. FramesOut(c) = f + held[c] + b /\ FramesOut(c)' = (f - 1) + (held[c] + 1) + b
      BY <2>1, <3>1, <3>2, <3>3
    <3>5. held[c] \in Int /\ f \in Int /\ b \in Int
      BY <2>2, <2>3
    <3>. HIDE DEF f, b
    <3>. QED
      BY <3>4, <3>5
  <2>5. CASE Give(c)
    <3>1. held'[c] = held[c] - 1 /\ from_q' = from_q
      BY <1>2, <2>5 DEF Give
    <3>2. PICK n \in Nat \ {0} : to_q'[c] = Append(to_q[c], n)
      <4>1. to_q'[c] = Append(to_q[c], IF c \in SendClients THEN accepted'[c] ELSE Frame)
        BY <1>2, <2>5 DEF Give
      <4>2. c \in SendClients => accepted'[c] \in Nat \ {0}
        BY <1>2, <2>5 DEF Give
      <4>. QED
        BY <4>1, <4>2 DEF Frame
    <3>3. Back(to_q'[c]) = Append(Back(to_q[c]), n)
      <4>. DEFINE q == to_q[c]
      <4>1. q \in Seq(Nat) /\ n \in Nat /\ n # DISCONNECT
        BY <2>2 DEF DISCONNECT
      <4>. HIDE DEF q
      <4>2. Back(Append(q, n)) = IF n = DISCONNECT THEN Back(q) ELSE Append(Back(q), n)
        BY <4>1, BackFacts
      <4>. QED
        BY <3>2, <4>1, <4>2 DEF q
    <3>4. Len(Back(to_q'[c])) = b + 1
      BY <2>2, <3>2, <3>3
    <3>5. FramesOut(c) = f + held[c] + b /\ FramesOut(c)' = f + (held[c] - 1) + (b + 1)
      BY <2>1, <3>1, <3>4
    <3>6. held[c] \in Int /\ f \in Int /\ b \in Int
      BY <2>2, <2>3
    <3>. HIDE DEF f, b
    <3>. QED
      BY <3>5, <3>6
  <2>6. CASE Close(c)
    <3>1. held' = held /\ from_q' = from_q /\ to_q'[c] = Append(to_q[c], DISCONNECT)
      BY <1>2, <2>6 DEF Close
    <3>2. Back(to_q'[c]) = Back(to_q[c])
      <4>1. DISCONNECT \in Nat
        BY DEF DISCONNECT
      <4>. QED
        BY <2>2, <3>1, <4>1, BackFacts
    <3>. QED
      BY <2>1, <3>1, <3>2
  <2>7. CASE UNCHANGED <<from_q, held, to_q>>
    BY <2>1, <2>7
  <2>. QED
    BY <2>4, <2>5, <2>6, <2>7 DEF User, Connect, Connected, Closed, port
<1>7. FramesOf(c)' = FramesOf(c)
  BY <1>1, <1>4, <1>6 DEF FramesOf
<1>8. \A d \in Clients : FramesOut(d)' = FramesOut(d) /\ FramesOf(d)' = FramesOf(d)
  BY <1>5, <1>6, <1>7, SameFrames
<1>9. \A d \in Clients : Counted(d)' /\ Room(d)'
  BY <1>1, <1>4, <1>8 DEF Accounts, Counted, Room
<1>10. Pools'
  BY <1>1, <1>5, <1>7, PoolsKept DEF Accounts
<1>11. OwnLink'
  BY <1>1 DEF Accounts, OwnLink
<1>12. \A d \in Clients : Unserved(d)'
  <2>1. SUFFICES ASSUME NEW d \in Clients PROVE Unserved(d)'
    OBVIOUS
  <2>2. user'[d] \in {"new", "connecting"} => user[d] \in {"new", "connecting"}
    BY <1>2, <1>3 DEF User, Connect, Connected, Take, Give, Close, Closed
  <2>. QED
    BY <1>1, <1>4, <2>2 DEF Accounts, Unserved
<1>13. \A d \in Clients : Admitted(d)'
  <2>1. SUFFICES ASSUME NEW d \in Clients PROVE Admitted(d)'
    OBVIOUS
  <2>2. user'[d] \in {"up", "closing", "gone"} => user[d] \in {"up", "closing", "gone"} \/ d \in connected
    BY <1>2, <1>3 DEF User, Connect, Connected, Take, Give, Close, Closed
  <2>. QED
    BY <1>1, <2>2 DEF Accounts, Admitted
<1>. QED
  BY <1>9, <1>10, <1>11, <1>12, <1>13 DEF Accounts

\* A packet goes into a link.
LEMMA PacketSent ==
    ASSUME Typed, NEW c \in Clients, NEW n \in Nat,
           net' = [net EXCEPT ![LinkOf[c]] = Append(@, <<c, n>>)]
    PROVE  \A d \in Clients :
              PacketsOf(d)' = IF d = c THEN Append(PacketsOf(d), n) ELSE PacketsOf(d)
<1>. DEFINE l == LinkOf[c]
            s == net[l]
<1>1. /\ net \in [Links -> Seq(Clients \X Nat)] /\ l \in Links /\ s \in Seq(Clients \X Nat)
      /\ net'[l] = Append(s, <<c, n>>) /\ \A k \in Links \ {l} : net'[k] = net[k]
  BY Assumptions DEF Typed, InlineTypes
<1>2. SUFFICES ASSUME NEW d \in Clients
               PROVE  PacketsOf(d)' = IF d = c THEN Append(PacketsOf(d), n) ELSE PacketsOf(d)
  OBVIOUS
<1>3. PacketsOf(d) = Numbers(net[LinkOf[d]], d) /\ PacketsOf(d)' = Numbers(net'[LinkOf[d]], d)
  BY DEF PacketsOf, Numbers
<1>4. CASE LinkOf[d] = l
  <2>1. PacketsOf(d) = Numbers(s, d) /\ PacketsOf(d)' = Numbers(Append(s, <<c, n>>), d)
    BY <1>1, <1>3, <1>4
  <2>2. s \in Seq(Clients \X Nat)
    BY <1>1
  <2>. HIDE DEF s
  <2>3. Numbers(Append(s, <<c, n>>), d) = IF c = d THEN Append(Numbers(s, d), n) ELSE Numbers(s, d)
    BY <2>2, NumbersAppend
  <2>. QED
    BY <2>1, <2>3
<1>5. CASE LinkOf[d] # l
  BY <1>1, <1>3, <1>5, Assumptions
<1>. QED
  BY <1>4, <1>5

LEMMA LinkAccounts ==
    ASSUME Core, Typed', Accounts, NEW c \in Clients,
           (c \in RecvClients /\ Arrive(c)) \/ (c \in SendClients /\ Answer(c))
    PROVE  Accounts'
<1>1. /\ Typed
      /\ UNCHANGED <<free, queues, call, in_use, from_q, to_q, held, user, connected>>
  BY DEF Core, Arrive, Answer, port, thread, users
<1>2. PICK n \in Nat : net' = [net EXCEPT ![LinkOf[c]] = Append(@, <<c, n>>)]
  <2>1. accepted'[c] \in Nat
    BY DEF Typed, PortTypes
  <2>. QED
    BY <2>1 DEF Arrive, Answer
<1>. DEFINE l == LinkOf[c]
            s == net[l]
<1>3. /\ net \in [Links -> Seq(Clients \X Nat)] /\ l \in Links /\ s \in Seq(Clients \X Nat)
      /\ net'[l] = Append(s, <<c, n>>) /\ \A k \in Links \ {l} : net'[k] = net[k]
  BY <1>1, <1>2, Assumptions DEF Typed, InlineTypes
<1>4. \A d \in Clients : PacketsOf(d)' = IF d = c THEN Append(PacketsOf(d), n) ELSE PacketsOf(d)
  BY <1>1, <1>2, PacketSent
<1>5. \A d \in Clients : InCall(d)' = InCall(d) /\ GivenBack(d)' = GivenBack(d)
  BY <1>1 DEF InCall, GivenBack
<1>6. \A d \in Clients \ {c} : Same(d)
  BY <1>1, <1>4, <1>5 DEF Same
<1>7. FramesOut(c)' = FramesOut(c) /\ FramesOf(c)' = FramesOf(c)
  BY <1>1, <1>5 DEF FramesOut, FramesOf
<1>8. Counted(c)'
  BY <1>1, <1>7 DEF Accounts, Counted
<1>9. Room(c)'
  <2>1. CASE c \in RecvClients
    <3>1. Len(PacketsOf(c)) + FramesOf(c) < Reserved[c]
      BY <2>1, Assumptions DEF Arrive
    <3>. DEFINE q == Len(PacketsOf(c))
    <3>2. q \in Nat /\ FramesOf(c) \in Nat /\ Reserved[c] \in Nat /\ PacketsOf(c) \in Seq(Nat)
      BY <1>1, TypedPieces, Assumptions
    <3>3. Len(PacketsOf(c)') = q + 1
      BY <1>4, <3>2
    <3>. HIDE DEF q
    <3>4. q + 1 + FramesOf(c) <= Reserved[c]
      BY <3>1, <3>2 DEF q
    <3>. QED
      BY <1>7, <2>1, <3>3, <3>4 DEF Room
  <2>2. CASE c \notin RecvClients
    BY <1>1, <2>2 DEF Accounts, Room
  <2>. QED
    BY <2>1, <2>2
<1>10. Unserved(c)'
  <2>1. c \in RecvClients => user[c] \in {"up", "closing", "gone"}
    BY Assumptions DEF Arrive
  <2>. QED
    BY <1>1, <2>1 DEF Unserved
<1>11. OwnLink'
  <2>1. SUFFICES ASSUME NEW k \in Links, NEW i \in DOMAIN net'[k] PROVE LinkOf[net'[k][i][1]] = k
    BY DEF OwnLink
  <2>2. CASE k # l
    BY <1>3, <2>1, <2>2 DEF Accounts, OwnLink
  <2>3. CASE k = l
    <3>. DEFINE e == <<c, n>>
    <3>1. /\ DOMAIN Append(s, e) = 1 .. Len(s) + 1 /\ DOMAIN s = 1 .. Len(s) /\ Len(s) \in Nat
          /\ Append(s, e)[Len(s) + 1] = e
          /\ \A j \in 1 .. Len(s) : Append(s, e)[j] = s[j]
      BY <1>3
    <3>2. net'[k] = Append(s, e) /\ i \in 1 .. Len(s) + 1
      BY <1>3, <2>3, <3>1
    <3>3. CASE i = Len(s) + 1
      BY <2>3, <3>1, <3>2, <3>3
    <3>4. CASE i # Len(s) + 1
      <4>1. i \in DOMAIN s /\ net'[k][i] = s[i]
        BY <3>1, <3>2, <3>4
      <4>. QED
        BY <1>3, <2>3, <4>1 DEF Accounts, OwnLink
    <3>. QED
      BY <3>3, <3>4
  <2>. QED
    BY <2>2, <2>3
<1>. QED
  BY <1>1, <1>6, <1>7, <1>8, <1>9, <1>10, <1>11, AccountsKept

LEMMA AccountsInit == Init => Accounts
<1>1. SUFFICES ASSUME Init PROVE Accounts
  OBVIOUS
<1>2. /\ net = [l \in Links |-> <<>>] /\ free = NumFrames /\ queues = [c \in Clients |-> <<>>]
      /\ call = Idle /\ from_q = [c \in Clients |-> <<>>] /\ to_q = [c \in Clients |-> <<>>]
      /\ connected = {} /\ in_use = [c \in Clients |-> 0] /\ user = [c \in Clients |-> "new"]
      /\ held = [c \in Clients |-> 0]
  BY <1>1 DEF Init, InlineInit
<1>3. <<>> \in Seq(Nat) /\ Len(<<>>) = 0
  OBVIOUS
<1>4. \A c \in Clients : PacketsOf(c) = <<>>
  <2>1. SUFFICES ASSUME NEW c \in Clients PROVE PacketsOf(c) = <<>>
    OBVIOUS
  <2>2. net[LinkOf[c]] = <<>>
    BY <1>2, Assumptions
  <2>. QED
    BY <2>2, OnlyEmpty DEF PacketsOf
<1>5. \A c \in Clients : FramesOut(c) = 0 /\ FramesOf(c) = 0
  <2>1. SUFFICES ASSUME NEW c \in Clients PROVE FramesOut(c) = 0 /\ FramesOf(c) = 0
    OBVIOUS
  <2>2. GivenBack(c) = <<>> /\ InCall(c) = <<>> /\ queues[c] = <<>> /\ from_q[c] = <<>> /\ held[c] = 0
    BY <1>2, OnlyEmpty, NotInCall DEF GivenBack
  <2>3. FramesOut(c) = 0 + 0 + 0
    BY <1>3, <2>2 DEF FramesOut
  <2>4. FramesOf(c) = 0 + 0 + 0
    BY <1>3, <2>2, <2>3 DEF FramesOf
  <2>. QED
    BY <2>3, <2>4
<1>6. Pools
  <2>1. SUFFICES ASSUME NEW l \in Links PROVE free[l] + Sum(frames, ClientsOn(l)) = NumFrames[l]
    BY DEF Pools
  <2>. DEFINE S == ClientsOn(l)
              f == frames
  <2>2. IsFiniteSet(S) /\ \A c \in S : f[c] = 0
    BY <1>5, ClientsFinite DEF frames
  <2>. HIDE DEF S, f
  <2>3. Sum(f, S) = 0
    BY <2>2, SumZero
  <2>. QED
    BY <1>2, <2>3, Assumptions DEF S, f
<1>7. ASSUME NEW c \in Clients PROVE Counted(c) /\ Room(c) /\ Unserved(c) /\ Admitted(c)
  <2>1. Counted(c)
    BY <1>2, <1>5, Assumptions DEF Counted
  <2>2. Room(c)
    BY <1>2, <1>3, <1>4, <1>5, Assumptions DEF Room
  <2>. QED
    BY <1>2, <1>4, <2>1, <2>2 DEF Unserved, Admitted
<1>8. OwnLink
  BY <1>2 DEF OwnLink
<1>. QED
  BY <1>6, <1>7, <1>8 DEF Accounts

-----------------------------------------------------------------------------
(* Requests, reservations and the inline service's table *)

\* The requests under way, the reservations and the inline service's table know of
\* the same clients. An exception in the thread may leave them half changed.
Table == RequestOrder /\ Pending /\ Attached /\ OneDetach /\ Reservations /\ Alive
         /\ Attachments /\ Receivers /\ LeftBehind /\ Queued

\* The table when nothing that it depends on changes, but for the queues.
LEMMA TableKept ==
    ASSUME Table, UNCHANGED <<requests, user, connected, reserved, table>>,
           Erasing' <=> Erasing, Erasing => me' = me, Queued'
    PROVE  Table'
<1>1. UNCHANGED <<attached, mux, rcvr, callbacks, alive>>
  BY DEF table
<1>2. RequestOrder'
  BY DEF Table, RequestOrder
<1>3. Pending' /\ Attached' /\ OneDetach'
  BY <1>1 DEF Table, Pending, Attached, OneDetach, ToDetach, ToAttach, ToConnect, Using
<1>4. Reserves' = Reserves
  BY DEF Reserves
<1>5. Reservations'
  <2>1. SUFFICES ASSUME NEW l \in Links
                 PROVE  reserved'[l] = Sum(Reserves', ClientsOn(l)) /\ reserved'[l] <= NumFrames[l]
    BY DEF Reservations
  <2>. QED
    BY <1>4 DEF Table, Reservations
<1>6. Alive' /\ Attachments'
  BY <1>1 DEF Table, Alive, Attachments
<1>7. \A l : Stale(l)' = Stale(l)
  BY DEF Stale, ToDetach, OthersOn, Using
<1>8. Receivers'
  BY <1>1, <1>7 DEF Table, Receivers
<1>9. LeftBehind'
  BY <1>1 DEF Table, LeftBehind, ToDetach
<1>. QED
  BY <1>2, <1>3, <1>5, <1>6, <1>8, <1>9 DEF Table

LEMMA ReceiveTable ==
    ASSUME Core, Core', Table, crashed' = "no", GetRecvBuff \/ GotRecvBuff \/ ReleaseRecvBuffs
    PROVE  Table'
<1>1. /\ phase \in {"get_recv", "release_recv"} /\ ~Erasing /\ Typed /\ TurnOfOne
      /\ UNCHANGED <<requests, user, connected, reserved, table>>
  <2>1. Recv(me) => table' = table
    BY RecvSteps DEF table
  <2>. QED
    BY <2>1 DEF GetRecvBuff, GotRecvBuff, ReleaseRecvBuffs, Turn, Erasing, users, port, Core, HangUp,
       inline
<1>2. ~Erasing'
  <2>1. CASE GetRecvBuff /\ UNCHANGED <<phase, turn>>
    BY <1>1, <2>1 DEF Erasing
  <2>2. CASE Advance
    BY <1>1, <2>2, Advances DEF GetRecvBuff, GotRecvBuff, ReleaseRecvBuffs
  <2>. QED
    BY <2>1, <2>2 DEF GetRecvBuff, GotRecvBuff, ReleaseRecvBuffs
<1>3. UNCHANGED <<mux, alive>>
  BY <1>1 DEF table
<1>4. Queued'
  <2>1. CASE queues' = queues /\ (call' = Idle \/ call' = call)
    BY <1>3, <2>1 DEF Table, Queued, Idle
  <2>2. CASE GetRecvBuff /\ MayGet(me)
    <3>1. PICK c \in Clients : c = me
      BY <1>1, Mine
    <3>2. CASE HasQueued(c)
      <4>1. queues' = [queues EXCEPT ![c] = Tail(@)] /\ call'.state = "done"
        BY <2>2, <3>1, <3>2, RecvSteps DEF GetRecvBuff
      <4>2. queues \in [Clients -> Seq(Nat)]
        BY <1>1 DEF Typed, InlineTypes
      <4>3. \A d \in Clients : queues'[d] # <<>> => queues[d] # <<>>
        BY <3>2, <4>1, <4>2 DEF HasQueued
      <4>. QED
        BY <1>3, <4>1, <4>3 DEF Table, Queued
    <3>3. CASE ~HasQueued(c)
      <4>1. queues' = queues /\ call'.client = c
        BY <2>2, <3>1, <3>3, RecvSteps DEF GetRecvBuff
      <4>2. queues[c] = <<>>
        BY <3>1, <3>3 DEF HasQueued, Table, Queued
      <4>. QED
        BY <1>3, <4>1, <4>2 DEF Table, Queued
    <3>. QED
      BY <3>2, <3>3
  <2>. QED
    BY <2>1, <2>2 DEF GetRecvBuff, GotRecvBuff, ReleaseRecvBuffs, HangUp, inline
<1>. QED
  BY <1>1, <1>2, <1>4, TableKept

LEMMA SendTable ==
    ASSUME Core, Core', Table, crashed' = "no",
           GetSendBuff \/ AwaitDest \/ ReleaseSendBuff \/ NoSend
    PROVE  Table'
<1>1. /\ phase \in {"get_send", "release_send"} /\ ~Erasing /\ Typed /\ TurnOfOne
      /\ UNCHANGED <<requests, user, connected, reserved, table, queues>>
      /\ call' = Idle \/ call' = call \/ call'.op = "fc"
  <2>1. AwaitDest => UNCHANGED <<table, queues>> /\ (call' = call \/ call'.op = "fc")
    BY RecvFlowCtrlSteps DEF AwaitDest
  <2>. QED
    BY <2>1 DEF GetSendBuff, AwaitDest, ReleaseSendBuff, NoSend, Turn, Erasing, users, port, thread,
       Core, HangUp, inline
<1>2. ~Erasing'
  <2>1. CASE AwaitDest
    BY <1>1, <2>1 DEF AwaitDest, thread, Erasing
  <2>2. CASE ~AwaitDest
    BY <1>1, <2>2, Advances DEF GetSendBuff, ReleaseSendBuff, NoSend
  <2>. QED
    BY <2>1, <2>2
<1>3. Queued'
  BY <1>1 DEF table, Table, Queued, Idle
<1>. QED
  BY <1>1, <1>2, <1>3, TableKept

\* The single receiver of a link is the one whose call it is.
LEMMA Caller ==
    ASSUME Core, Table, call.state = "loop"
    PROVE  /\ call.client \in Clients /\ call.client \in alive /\ ~Erasing
           /\ LinkOf[call.client] \notin mux => rcvr[LinkOf[call.client]] = call.client
<1>1. call.client = me /\ phase \in {"get_recv", "release_send"}
  BY DEF Core, Calling
<1>2. PICK c \in Clients : c = call.client /\ c \in connected /\ ~Erasing /\ LinkOf[c] \in Links
  BY <1>1, MineLives, Assumptions DEF Erasing
<1>3. c \in alive
  BY <1>2 DEF Table, Alive
<1>. QED
  BY <1>2, <1>3 DEF Table, Receivers

LEMMA LoopTable ==
    ASSUME Core, Core', Table, InlineStep, UNCHANGED <<port, thread, requests, users>>
    PROVE  Table'
<1>1. PICK l \in Links : LoopTimeout(l) \/ LoopPacket(l)
  BY DEF InlineStep
<1>2. call.state = "loop" /\ LinkOf[call.client] = l
  BY <1>1 DEF LoopTimeout, LoopPacket, Looping
<1>3. call.client \in Clients /\ call.client \in alive /\ (l \notin mux => rcvr[l] = call.client)
  BY <1>2, Caller
<1>4. /\ UNCHANGED <<requests, user, connected, reserved, phase, turn, clients, table, mux, alive>>
      /\ me' = me /\ (Erasing' <=> Erasing)
  BY <1>1 DEF port, thread, users, LoopTimeout, LoopPacket, Crash, me, Erasing, table
<1>5. call'.op = call.op /\ call'.client = call.client
  BY <1>1 DEF LoopTimeout, LoopPacket, Crash, Returns, Calls
<1>6. CASE queues' = queues
  <2>1. call'.state = "loop" => call.state = "loop"
    BY <1>2
  <2>2. Queued'
    BY <1>4, <1>5, <1>6, <2>1, <1>2 DEF Table, Queued
  <2>. QED
    BY <1>4, <2>2, TableKept
<1>7. CASE queues' # queues
  <2>1. PICK c, n : /\ c = Head(net[l])[1] /\ net[l] # <<>> /\ Found(l, c) /\ c # call.client
                    /\ queues' = [queues EXCEPT ![c] = Append(@, n)]
    BY <1>1, <1>7 DEF LoopTimeout, LoopPacket, Crash
  <2>2. c \in Clients /\ LinkOf[c] = l /\ c \in alive /\ l \in mux
    <3>1. l \in mux
      <4>1. l \notin mux => Asked(l) = <<call.client>>
        BY <1>3 DEF Asked
      <4>2. ToSet(<<call.client>>) = {call.client}
        BY DEF ToSet
      <4>. QED
        BY <2>1, <4>1, <4>2 DEF Found
    <3>2. c \in ToSet(callbacks[l])
      BY <2>1, <3>1 DEF Found, Asked
    <3>. QED
      BY <3>1, <3>2 DEF Table, Receivers, Core, Typed, InlineTypes
  <2>3. \A d \in Clients \ {c} : queues'[d] = queues[d]
    BY <2>1 DEF Core, Typed, InlineTypes
  <2>4. Queued'
    BY <1>2, <1>3, <1>4, <1>5, <2>1, <2>2, <2>3 DEF Table, Queued
  <2>. QED
    BY <1>4, <2>4, TableKept
<1>. QED
  BY <1>6, <1>7

LEMMA ReservesTyped == \A l : \A c \in ClientsOn(l) : Reserves[c] \in Nat /\ c \in Clients
  BY Assumptions, ClientsFinite DEF Reserves

LEMMA ReservesSum ==
    ASSUME NEW S, IsFiniteSet(S), NEW c \in S,
           \A d \in S : Reserves[d] \in Int /\ Reserves'[d] \in Int,
           \A d \in S \ {c} : Reserves[d] = Reserves'[d]
    PROVE  Sum(Reserves, S) \in Int /\ Sum(Reserves', S) = Sum(Reserves, S) + Reserves'[c] - Reserves[c]
  BY SumChange

\* A client comes or goes: what it reserves of its link, and of no other.
LEMMA ReservesChange ==
    ASSUME Reservations, NEW c \in Clients, NEW l \in Links,
           \A d \in Clients \ {c} : d \in connected' <=> d \in connected
    PROVE  Sum(Reserves', ClientsOn(l)) =
              reserved[l] + (IF LinkOf[c] = l THEN Reserves'[c] - Reserves[c] ELSE 0)
<1>. DEFINE S == ClientsOn(l)
            f == Reserves
            g == Reserves'
<1>1. \A d \in S : f[d] \in Int /\ g[d] \in Int
  BY Assumptions, ClientsFinite DEF Reserves
<1>2. \A d \in S \ {c} : f[d] = g[d]
  BY ClientsFinite DEF Reserves
<1>3. IsFiniteSet(S) /\ (c \in S <=> LinkOf[c] = l)
  BY ClientsFinite DEF ClientsOn
<1>4. reserved[l] = Sum(f, S)
  BY DEF Reservations
<1>. HIDE DEF S, f, g
<1>5. CASE c \in S
  <2>1. Sum(Reserves, S) \in Int /\ Sum(Reserves', S) = Sum(Reserves, S) + Reserves'[c] - Reserves[c]
    <3>1. (\A d \in S : Reserves[d] \in Int /\ Reserves'[d] \in Int) /\ IsFiniteSet(S)
      BY <1>1, <1>3 DEF f, g
    <3>2. \A d \in S \ {c} : Reserves[d] = Reserves'[d]
      BY <1>2 DEF f, g
    <3>. QED
      BY <1>5, <3>1, <3>2, ReservesSum
  <2>2. Sum(g, S) = Sum(f, S) + (g[c] - f[c])
    BY <1>1, <1>5, <2>1 DEF f, g
  <2>. QED
    BY <1>3, <1>4, <1>5, <2>2 DEF S, f, g
<1>6. CASE c \notin S
  <2>1. \A d \in S : f[d] \in Int /\ g[d] \in Int /\ f[d] = g[d]
    BY <1>1, <1>2, <1>6
  <2>2. Sum(f, S) \in Int /\ Sum(g, S) = Sum(f, S)
    BY <1>3, <2>1, SumSame
  <2>3. Sum(g, S) = Sum(f, S) + 0
    BY <2>2
  <2>. QED
    BY <1>3, <1>4, <1>6, <2>3 DEF S, f, g
<1>. QED
  BY <1>5, <1>6

LEMMA DisconnectTable ==
    ASSUME Core, Typed', TurnOfOne', Table, NEW p \in {"release_recv", "release_send"}, Disconnect(p)
    PROVE  Table'
<1>1. /\ me' = me /\ me \in connected /\ user[me] = "closing" /\ Erasing' /\ ~Erasing
      /\ call = Idle /\ connected' = connected \ {me} /\ phase = p
  BY DisconnectCore
<1>2. PICK c \in Clients : c = me /\ LinkOf[c] \in Links
  BY <1>1, Mine DEF Core
<1>3. /\ UNCHANGED <<attached, mux, rcvr, callbacks, alive, requests, user, queues, call>>
      /\ reserved' = [reserved EXCEPT ![LinkOf[c]] = @ - Reserved[c]]
  BY <1>2 DEF Disconnect, table, users
<1>4. RequestOrder'
  BY <1>1, <1>3 DEF Table, RequestOrder
<1>5. Pending' /\ Attached' /\ OneDetach'
  BY <1>1, <1>3 DEF Table, Pending, Attached, OneDetach, ToDetach, ToAttach, ToConnect, Using
<1>6. Reservations'
  <2>1. SUFFICES ASSUME NEW l \in Links
                 PROVE  reserved'[l] = Sum(Reserves', ClientsOn(l)) /\ reserved'[l] <= NumFrames[l]
    BY DEF Reservations
  <2>2. Sum(Reserves', ClientsOn(l)) =
           reserved[l] + (IF LinkOf[c] = l THEN Reserves'[c] - Reserves[c] ELSE 0)
    BY <1>1, <1>2, ReservesChange DEF Table
  <2>3. Reserves[c] = Reserved[c] /\ Reserves'[c] = 0 /\ Reserved[c] \in Nat
    BY <1>1, <1>2, Assumptions DEF Reserves
  <2>4. reserved \in [Links -> Int] /\ reserved[l] <= NumFrames[l] /\ NumFrames[l] \in Int
    BY Assumptions DEF Core, Typed, ThreadTypes, Table, Reservations
  <2>5. CASE LinkOf[c] = l
    <3>1. reserved'[l] = reserved[l] - Reserved[c]
      BY <1>3, <2>4, <2>5
    <3>2. Sum(Reserves', ClientsOn(l)) = reserved[l] + (0 - Reserved[c])
      BY <2>2, <2>3, <2>5
    <3>3. reserved[l] \in Int
      BY <2>4
    <3>. QED
      BY <2>3, <2>4, <3>1, <3>2, <3>3
  <2>6. CASE LinkOf[c] # l
    <3>1. reserved'[l] = reserved[l] /\ reserved[l] \in Int
      BY <1>3, <2>4, <2>6
    <3>2. Sum(Reserves', ClientsOn(l)) = reserved[l] + 0
      BY <2>2, <2>6
    <3>. QED
      BY <2>4, <3>1, <3>2
  <2>. QED
    BY <2>5, <2>6
<1>7. Alive' /\ Attachments'
  BY <1>1, <1>2, <1>3 DEF Table, Alive, Attachments
<1>8. \A l : Stale(l)' = Stale(l)
  BY <1>3 DEF Stale, ToDetach, OthersOn, Using
<1>9. Receivers'
  BY <1>3, <1>8 DEF Table, Receivers
<1>10. LeftBehind' /\ Queued'
  BY <1>1, <1>3 DEF Table, LeftBehind, Queued
<1>. QED
  BY <1>4, <1>5, <1>6, <1>7, <1>9, <1>10 DEF Table

\* Nobody else uses the link of a client that goes and was alone there.
LEMMA Alone ==
    ASSUME Core, Table, NEW c \in Clients, c \in alive, LinkOf[c] \notin mux,
           user[c] = "closing"
    PROVE  OthersOn(c) = {}
<1>1. SUFFICES ASSUME NEW d \in OthersOn(c) PROVE FALSE
  OBVIOUS
<1>2. d \in Clients /\ d # c /\ LinkOf[d] = LinkOf[c] /\ user[d] \notin {"new", "gone"}
  BY DEF OthersOn, Using
<1>3. user[d] \notin {"connecting", "closing"}
  BY <1>2 DEF Core, OneBusy
<1>4. d \in alive
  BY <1>2, <1>3 DEF Core, Typed, PortTypes, Life, Table, Alive
<1>5. rcvr[LinkOf[c]] = c /\ rcvr[LinkOf[c]] = d
  BY <1>2, <1>4, Assumptions DEF Table, Receivers
<1>. QED
  BY <1>2, <1>5

LEMMA EraseTable ==
    ASSUME Core, Typed', TurnOfOne', Table, crashed' = "no",
           NEW p \in {"release_recv", "release_send"}, Erase(p)
    PROVE  Table'
<1>1. Erasing /\ ~Erasing' /\ me \in Clients /\ me \notin connected /\ call = Idle
  BY EraseCore
<1>2. PICK c \in Clients : c = me
  BY <1>1
<1>. DEFINE l == LinkOf[c]
<1>3. /\ UNCHANGED <<requests, user, connected, reserved, rcvr, call>>
      /\ alive' = alive \ {c} /\ attached' = attached \union {l}
      /\ IF l \in mux
         THEN /\ queues' = [queues EXCEPT ![c] = <<>>]
              /\ callbacks' = [callbacks EXCEPT ![l] = Only(@, Clients \ {c})]
              /\ mux' = IF callbacks[l] = <<c>> THEN mux \ {l} ELSE mux
         ELSE UNCHANGED <<queues, callbacks, mux>>
  BY <1>2, DisconnectSteps DEF Erase, port, users
<1>4. c \in alive /\ user[c] \in {"closing", "gone"} /\ c \notin connected /\ l \in Links
  BY <1>1, <1>2, Assumptions DEF Core, Erased, Table, Alive
<1>5. RequestOrder'
  BY <1>3 DEF Table, RequestOrder
<1>6. Pending' /\ Attached' /\ OneDetach'
  <2>1. attached' = attached
    BY <1>3, <1>4 DEF Table, Attachments
  <2>. QED
    BY <1>3, <2>1 DEF Table, Pending, Attached, OneDetach, ToDetach, ToAttach, ToConnect, Using
<1>7. Reservations'
  <2>1. SUFFICES ASSUME NEW k \in Links
                 PROVE  reserved'[k] = Sum(Reserves', ClientsOn(k)) /\ reserved'[k] <= NumFrames[k]
    BY DEF Reservations
  <2>2. Reserves' = Reserves
    BY <1>3 DEF Reserves
  <2>. QED
    BY <1>3, <2>2 DEF Table, Reservations
<1>8. Alive' /\ Attachments'
  BY <1>1, <1>2, <1>3 DEF Table, Alive, Attachments
<1>9. LeftBehind'
  BY <1>1 DEF LeftBehind
<1>10. \A k : (Stale(k)' <=> Stale(k)) /\ (ToDetach(k)' <=> ToDetach(k))
  BY <1>3 DEF Stale, ToDetach, OthersOn, Using
<1>11. \A k \in Links : callbacks[k] \in Seq(Clients)
  BY DEF Core, Typed, InlineTypes
<1>12. ASSUME l \in mux
       PROVE  /\ ToSet(callbacks'[l]) = {d \in alive' : LinkOf[d] = l}
              /\ (callbacks[l] = <<c>> => callbacks'[l] = <<>>)
              /\ rcvr[l] = None /\ ToSet(callbacks[l]) = {d \in alive : LinkOf[d] = l}
  <2>1. callbacks'[l] = Only(callbacks[l], Clients \ {c})
    BY <1>3, <1>4, <1>12 DEF Core, Typed, InlineTypes
  <2>2. /\ ToSet(callbacks'[l]) = ToSet(callbacks[l]) \intersect (Clients \ {c})
        /\ callbacks'[l] \in Seq(Clients)
    <3>. DEFINE s == callbacks[l]
                A == Clients \ {c}
    <3>1. s \in Seq(Clients)
      BY <1>4, <1>11
    <3>2. callbacks'[l] = Only(s, A)
      BY <2>1
    <3>. HIDE DEF s, A
    <3>3. Only(s, A) \in Seq(Clients) /\ ToSet(Only(s, A)) = ToSet(s) \intersect A
      BY <3>1, OnlyType
    <3>. QED
      BY <3>2, <3>3 DEF s, A
  <2>3. rcvr[l] = None /\ ToSet(callbacks[l]) = {d \in alive : LinkOf[d] = l}
    BY <1>4, <1>12 DEF Table, Receivers
  <2>4. ToSet(callbacks'[l]) = {d \in alive' : LinkOf[d] = l}
    <3>1. alive \subseteq Clients
      BY DEF Core, Typed, InlineTypes
    <3>. QED
      BY <1>3, <2>2, <2>3, <3>1
  <2>5. callbacks[l] = <<c>> => callbacks'[l] = <<>>
    <3>1. SUFFICES ASSUME callbacks[l] = <<c>> PROVE callbacks'[l] = <<>>
      OBVIOUS
    <3>2. ToSet(<<c>>) = {c}
      BY DEF ToSet
    <3>3. ToSet(callbacks'[l]) = {}
      BY <2>2, <3>1, <3>2
    <3>. DEFINE s == callbacks'[l]
    <3>4. s \in Seq(Clients) /\ ToSet(s) = {}
      BY <2>2, <3>3
    <3>. HIDE DEF s
    <3>5. s = <<>>
      <4>1. s # <<>> => 1 \in DOMAIN s
        BY <3>4
      <4>. QED
        BY <3>4, <4>1 DEF ToSet
    <3>. QED
      BY <3>5 DEF s
  <2>. QED
    BY <2>3, <2>4, <2>5
<1>13. Receivers'
  <2>1. SUFFICES ASSUME NEW k \in Links
                 PROVE  IF k \in mux'
                        THEN rcvr'[k] = None /\ ToSet(callbacks'[k]) = {d \in alive' : LinkOf[d] = k}
                        ELSE /\ callbacks'[k] = <<>>
                             /\ \A d \in alive' : LinkOf[d] = k => rcvr'[k] = d
                             /\ rcvr'[k] # None =>
                                   LinkOf[rcvr'[k]] = k /\ (rcvr'[k] \in alive' \/ Stale(k)')
    BY DEF Receivers
  <2>2. IF k \in mux
        THEN rcvr[k] = None /\ ToSet(callbacks[k]) = {d \in alive : LinkOf[d] = k}
        ELSE /\ callbacks[k] = <<>>
             /\ \A d \in alive : LinkOf[d] = k => rcvr[k] = d
             /\ rcvr[k] # None => LinkOf[rcvr[k]] = k /\ (rcvr[k] \in alive \/ Stale(k))
    BY DEF Table, Receivers
  <2>3. CASE k # l
    <3>1. /\ (k \in mux' <=> k \in mux) /\ callbacks'[k] = callbacks[k] /\ rcvr' = rcvr
          /\ \A d : LinkOf[d] = k => (d \in alive' <=> d \in alive)
      BY <1>3, <2>3 DEF Core, Typed, InlineTypes
    <3>. QED
      BY <1>10, <2>2, <3>1
  <2>4. CASE k = l /\ l \in mux /\ callbacks[l] # <<c>>
    <3>1. mux' = mux
      BY <1>3, <2>4
    <3>. QED
      BY <1>3, <1>12, <2>4, <3>1
  <2>5. CASE k = l /\ l \in mux /\ callbacks[l] = <<c>>
    <3>1. l \notin mux' /\ callbacks'[l] = <<>> /\ rcvr'[l] = None
      BY <1>3, <1>12, <2>5
    <3>2. {d \in alive' : LinkOf[d] = l} = {}
      <4>1. ToSet(callbacks'[l]) = {}
        BY <3>1 DEF ToSet
      <4>. QED
        BY <1>12, <2>5, <4>1
    <3>. QED
      BY <2>5, <3>1, <3>2
  <2>6. CASE k = l /\ l \notin mux
    <3>1. rcvr[l] = c /\ \A d \in alive : LinkOf[d] = l => d = c
      BY <1>4, <2>2, <2>6
    <3>2. Stale(l)
      <4>1. CASE user[c] = "gone"
        BY <1>1, <1>2, <2>6, <4>1 DEF Table, LeftBehind, Stale
      <4>2. CASE user[c] = "closing"
        BY <1>4, <2>6, <4>2, Alone DEF Stale
      <4>. QED
        BY <1>4, <4>1, <4>2
    <3>. QED
      BY <1>3, <1>10, <2>2, <2>6, <3>1, <3>2
  <2>. QED
    BY <2>3, <2>4, <2>5, <2>6
<1>14. Queued'
  <2>1. SUFFICES ASSUME NEW d \in Clients, queues'[d] # <<>>
                 PROVE  d \in alive' /\ LinkOf[d] \in mux'
    BY <1>1, <1>3 DEF Queued, Idle
  <2>2. d # c /\ queues[d] # <<>>
    BY <1>3, <1>4, <2>1 DEF Core, Typed, InlineTypes, Table, Queued
  <2>3. d \in alive /\ LinkOf[d] \in mux
    BY <2>2 DEF Table, Queued
  <2>4. d \in alive'
    BY <1>3, <2>2, <2>3
  <2>5. LinkOf[d] \in mux'
    <3>1. SUFFICES ASSUME l \in mux, callbacks[l] = <<c>>, LinkOf[d] = l PROVE FALSE
      BY <1>3, <2>3
    <3>2. ToSet(<<c>>) = {c}
      BY DEF ToSet
    <3>. QED
      BY <1>12, <2>2, <2>3, <3>1, <3>2
  <2>. QED
    BY <2>4, <2>5
<1>. QED
  BY <1>5, <1>6, <1>7, <1>8, <1>9, <1>13, <1>14 DEF Table

-----------------------------------------------------------------------------
(* Requests and the lives of clients *)

LEMMA TailRequests ==
    ASSUME Typed, requests # <<>>, requests' = Tail(requests)
    PROVE  /\ DOMAIN requests' = 1 .. Len(requests) - 1 /\ Len(requests') = Len(requests) - 1
           /\ Len(requests) \in Nat \ {0} /\ DOMAIN requests = 1 .. Len(requests)
           /\ \A i \in DOMAIN requests' : requests'[i] = requests[i + 1] /\ i + 1 \in DOMAIN requests
           /\ requests[1] = Head(requests) /\ 1 \in DOMAIN requests
           /\ \A i \in DOMAIN requests : i = 1 \/ (i - 1 \in DOMAIN requests' /\ requests'[i - 1] = requests[i])
<1>. DEFINE q == requests
<1>1. q \in Seq(Requests) /\ q # <<>>
  BY DEF Typed, ThreadTypes
<1>. HIDE DEF q
<1>2. /\ Tail(q) \in Seq(Requests) /\ Len(Tail(q)) = Len(q) - 1 /\ Len(q) \in Nat \ {0}
      /\ DOMAIN q = 1 .. Len(q) /\ DOMAIN Tail(q) = 1 .. Len(q) - 1
      /\ \A i \in 1 .. Len(q) - 1 : Tail(q)[i] = q[i + 1]
      /\ q[1] = Head(q)
  BY <1>1
<1>3. \A i \in DOMAIN Tail(q) : Tail(q)[i] = q[i + 1] /\ i + 1 \in DOMAIN q
  BY <1>2
<1>4. \A i \in DOMAIN q : i = 1 \/ (i - 1 \in DOMAIN Tail(q) /\ Tail(q)[i - 1] = q[i])
  <2>1. SUFFICES ASSUME NEW i \in 1 .. Len(q), i # 1
                 PROVE  i - 1 \in DOMAIN Tail(q) /\ Tail(q)[i - 1] = q[i]
    BY <1>2
  <2>2. i - 1 \in 1 .. Len(q) - 1 /\ (i - 1) + 1 = i
    BY <1>2, <2>1
  <2>3. Tail(q)[i - 1] = q[(i - 1) + 1]
    BY <1>2, <2>2
  <2>. QED
    BY <1>2, <2>2, <2>3
<1>5. 1 \in DOMAIN q
  BY <1>2
<1>. QED
  BY <1>2, <1>3, <1>4, <1>5 DEF q

\* The thread has taken the first request.
LEMMA RequestsLeft ==
    ASSUME Typed, requests # <<>>, requests' = Tail(requests)
    PROVE  \A l : /\ ToDetach(l)' => ToDetach(l)
                  /\ ToAttach(l)' => ToAttach(l)
                  /\ ToConnect(l)' => ToConnect(l)
                  /\ ToDetach(l) => ToDetach(l)' \/ Head(requests) = <<"detach", l>>
                  /\ ToAttach(l) => ToAttach(l)' \/ Head(requests) = <<"attach", l>>
<1>1. /\ \A i \in DOMAIN requests' : requests'[i] = requests[i + 1] /\ i + 1 \in DOMAIN requests
      /\ \A i \in DOMAIN requests : i = 1 \/ (i - 1 \in DOMAIN requests' /\ requests'[i - 1] = requests[i])
      /\ requests[1] = Head(requests)
  BY TailRequests
<1>2. \A r : (\E i \in DOMAIN requests' : requests'[i] = r) => \E i \in DOMAIN requests : requests[i] = r
  BY <1>1
<1>3. \A r : (\E i \in DOMAIN requests : requests[i] = r) =>
                (\E i \in DOMAIN requests' : requests'[i] = r) \/ Head(requests) = r
  BY <1>1
<1>. QED
  BY <1>2, <1>3 DEF ToDetach, ToAttach, ToConnect

LEMMA RequestOrderTail ==
    ASSUME Typed, RequestOrder, requests # <<>>, requests' = Tail(requests), user' = user,
           connected' = connected \/ Head(requests)[1] = "connect"
    PROVE  RequestOrder'
<1>1. /\ DOMAIN requests' = 1 .. Len(requests) - 1 /\ Len(requests') = Len(requests) - 1
      /\ Len(requests) \in Nat \ {0} /\ DOMAIN requests = 1 .. Len(requests)
      /\ \A i \in DOMAIN requests' : requests'[i] = requests[i + 1] /\ i + 1 \in DOMAIN requests
      /\ requests[1] = Head(requests) /\ 1 \in DOMAIN requests
  BY TailRequests
<1>2. CASE Head(requests)[1] = "connect"
  <2>1. Len(requests) = 1
    BY <1>1, <1>2 DEF RequestOrder
  <2>2. DOMAIN requests' = {}
    BY <1>1, <2>1
  <2>. QED
    BY <2>2 DEF RequestOrder
<1>3. CASE connected' = connected
  <2>1. SUFFICES ASSUME NEW i \in DOMAIN requests'
                 PROVE  /\ requests'[i][1] = "connect" =>
                              /\ i = Len(requests')
                              /\ user[requests'[i][2]] = "connecting" /\ requests'[i][2] \notin connected
                        /\ requests'[i][1] = "attach" =>
                              /\ i + 1 = Len(requests')
                              /\ \E c \in Clients : requests'[i + 1] = <<"connect", c>> /\ LinkOf[c] = requests'[i][2]
    BY <1>3 DEF RequestOrder
  <2>2. requests'[i] = requests[i + 1] /\ i + 1 \in DOMAIN requests /\ i \in Nat /\ i < Len(requests)
    BY <1>1
  <2>3. CASE requests'[i][1] = "connect"
    <3>1. i + 1 = Len(requests) /\ user[requests'[i][2]] = "connecting" /\ requests'[i][2] \notin connected
      BY <2>2, <2>3 DEF RequestOrder
    <3>2. i = Len(requests')
      BY <1>1, <2>2, <3>1
    <3>. QED
      BY <2>3, <3>1, <3>2
  <2>4. CASE requests'[i][1] = "attach"
    <3>1. /\ (i + 1) + 1 = Len(requests)
          /\ \E c \in Clients : requests[(i + 1) + 1] = <<"connect", c>> /\ LinkOf[c] = requests'[i][2]
      BY <2>2, <2>4 DEF RequestOrder
    <3>2. i + 1 = Len(requests') /\ i + 1 \in DOMAIN requests'
      BY <1>1, <2>2, <3>1
    <3>3. requests'[i + 1] = requests[(i + 1) + 1]
      BY <1>1, <3>2
    <3>. QED
      BY <2>4, <3>1, <3>2, <3>3
  <2>. QED
    BY <2>3, <2>4
<1>. QED
  BY <1>2, <1>3

\* A thread that serves a request has nothing half done.
LEMMA AtRequest ==
    ASSUME Core, Core', Table, Request
    PROVE  /\ phase = "request" /\ ~Erasing /\ ~Erasing' /\ call = Idle /\ call' = Idle
           /\ UNCHANGED <<user, queues, call>> /\ alive = connected
           /\ \A c \in connected : user[c] \in {"connecting", "up", "closing"} /\ c \in Using
<1>1. phase = "request" /\ ~Erasing /\ user' = user /\ call = Idle
  BY NoCall DEF Request, Erasing, users, Core
<1>2. UNCHANGED <<queues, call>>
  BY DEF Request, inline, Attach, AttachRecvLink, Detach, DetachRecvLink, MakeClient,
     ConnectReceiver, Crash
<1>3. ~Erasing'
  BY Turns DEF Request, Core
<1>4. alive = connected
  BY <1>1 DEF Table, Alive, Core, Typed, InlineTypes, PortTypes
<1>5. \A c \in connected : user[c] \in {"connecting", "up", "closing"} /\ c \in Using
  BY DEF Core, Life, Using, Typed, PortTypes
<1>. QED
  BY <1>1, <1>2, <1>3, <1>4, <1>5

LEMMA AttachTable ==
    ASSUME Core, Core', Table, Request, requests # <<>>, requests' = Tail(requests), crashed' = "no",
           NEW l \in Links, Head(requests) = <<"attach", l>>, Attach(l)
    PROVE  Table'
<1>1. /\ ~Erasing' /\ ~Erasing /\ call' = Idle /\ UNCHANGED <<user, queues>>
      /\ UNCHANGED <<connected, reserved, mux, rcvr, callbacks, alive>>
      /\ attached' = attached \union {l}
  BY AtRequest DEF Attach, Crash, AttachRecvLink
<1>2. PICK c \in Clients : requests[2] = <<"connect", c>> /\ LinkOf[c] = l /\ Len(requests) = 2
  <2>1. requests[1] = <<"attach", l>> /\ 1 \in DOMAIN requests
    BY TailRequests DEF Core
  <2>2. requests[1][1] = "attach" /\ requests[1][2] = l
    BY <2>1
  <2>3. PICK i : i = 1 /\ i \in DOMAIN requests /\ requests[i][1] = "attach" /\ requests[i][2] = l
    BY <2>1, <2>2
  <2>4. /\ i + 1 = Len(requests)
        /\ \E c \in Clients : requests[i + 1] = <<"connect", c>> /\ LinkOf[c] = requests[i][2]
    BY <2>3 DEF Table, RequestOrder
  <2>. QED
    BY <2>3, <2>4
<1>3. \A i \in DOMAIN requests' : requests'[i] = <<"connect", c>>
  <2>1. DOMAIN requests' = 1 .. 1 /\ \A i \in DOMAIN requests' : requests'[i] = requests[i + 1]
    BY <1>2, TailRequests DEF Core
  <2>. QED
    BY <1>2, <2>1
<1>4. RequestOrder'
  BY <1>1, RequestOrderTail DEF Core, Table
<1>5. \A k : /\ ~ToDetach(k)' /\ ~ToAttach(k)' /\ ~ToDetach(k)
             /\ \A d : ToConnect(d)' => d = c
  <2>1. \A k : /\ ~ToDetach(k)' /\ ~ToAttach(k)' /\ \A d : ToConnect(d)' => d = c
    BY <1>3 DEF ToDetach, ToAttach, ToConnect
  <2>2. \A k : ToDetach(k) => ToDetach(k)' \/ Head(requests) = <<"detach", k>>
    BY RequestsLeft DEF Core
  <2>3. \A k : ~ToDetach(k)
    BY <2>1, <2>2
  <2>. QED
    BY <2>1, <2>3
<1>6. Pending' /\ Attached' /\ OneDetach'
  <2>1. Pending'
    BY <1>1, <1>2, <1>5 DEF Pending
  <2>2. c \in Using
    <3>1. 2 \in DOMAIN requests /\ requests[2][1] = "connect" /\ requests[2][2] = c
      BY <1>2, TailRequests DEF Core
    <3>2. user[c] = "connecting"
      BY <3>1 DEF Table, RequestOrder
    <3>. QED
      BY <3>2 DEF Using
  <2>3. ASSUME NEW k \in attached' PROVE \E d \in Using' : LinkOf[d] = k
    <3>1. Using' = Using
      BY <1>1 DEF Using
    <3>2. CASE k = l
      BY <1>2, <2>2, <3>1, <3>2
    <3>3. CASE k \in attached
      BY <1>5, <3>1, <3>3 DEF Table, Attached
    <3>. QED
      BY <1>1, <2>3, <3>2, <3>3
  <2>4. Attached'
    BY <1>1, <1>5, <2>3 DEF Table, Attached
  <2>5. \A i \in DOMAIN requests' : requests'[i][1] # "detach"
    BY <1>3
  <2>. QED
    BY <2>1, <2>4, <2>5 DEF OneDetach
<1>7. Reservations'
  <2>1. SUFFICES ASSUME NEW k \in Links
                 PROVE  reserved'[k] = Sum(Reserves', ClientsOn(k)) /\ reserved'[k] <= NumFrames[k]
    BY DEF Reservations
  <2>2. Reserves' = Reserves
    BY <1>1 DEF Reserves
  <2>. QED
    BY <1>1, <2>2 DEF Table, Reservations
<1>8. Alive' /\ Attachments'
  BY <1>1 DEF Table, Alive, Attachments
<1>9. \A k : Stale(k)' <=> Stale(k)
  BY <1>1, <1>5 DEF Stale, OthersOn, Using
<1>10. Receivers'
  BY <1>1, <1>9 DEF Table, Receivers
<1>11. LeftBehind' /\ Queued'
  BY <1>1 DEF LeftBehind, Queued, Table, Idle
<1>. QED
  BY <1>4, <1>6, <1>7, <1>8, <1>10, <1>11 DEF Table

LEMMA DetachTable ==
    ASSUME Core, Core', Table, Request, requests # <<>>, requests' = Tail(requests), crashed' = "no",
           NEW l \in Links, Head(requests) = <<"detach", l>>, Detach(l)
    PROVE  Table'
<1>1. /\ ~Erasing' /\ ~Erasing /\ call' = Idle /\ UNCHANGED <<user, queues>> /\ alive = connected
      /\ UNCHANGED <<connected, alive>> /\ reserved' = [reserved EXCEPT ![l] = 0]
      /\ attached' = attached \ {l} /\ mux' = mux \ {l}
      /\ rcvr' = [rcvr EXCEPT ![l] = None] /\ callbacks' = [callbacks EXCEPT ![l] = <<>>]
      /\ \A c \in connected : c \in Using /\ c \in Clients
  <2>1. l \in attached
    BY DEF Detach, DetachRecvLink, Crash
  <2>. QED
    BY <2>1, AtRequest DEF Detach, DetachRecvLink, Core, Typed, PortTypes
<1>2. ToDetach(l)
  BY TailRequests DEF Core, ToDetach
<1>3. \A c \in connected : LinkOf[c] # l
  BY <1>1, <1>2 DEF Table, Pending
<1>4. RequestOrder'
  BY <1>1, RequestOrderTail DEF Core, Table
<1>5. \A k : /\ ToDetach(k)' => ToDetach(k)
             /\ ToAttach(k)' => ToAttach(k)
             /\ ToConnect(k)' => ToConnect(k)
             /\ ToAttach(k) => ToAttach(k)'
             /\ k # l => (ToDetach(k) => ToDetach(k)')
  <2>1. Head(requests)[1] = "detach" /\ Head(requests)[2] = l
    OBVIOUS
  <2>2. \A k : /\ ToDetach(k)' => ToDetach(k)
               /\ ToAttach(k)' => ToAttach(k)
               /\ ToConnect(k)' => ToConnect(k)
               /\ ToDetach(k) => ToDetach(k)' \/ Head(requests) = <<"detach", k>>
               /\ ToAttach(k) => ToAttach(k)' \/ Head(requests) = <<"attach", k>>
    BY RequestsLeft DEF Core
  <2>3. \A k : (Head(requests) # <<"attach", k>>) /\ (Head(requests) = <<"detach", k>> => k = l)
    BY <2>1
  <2>. QED
    BY <2>2, <2>3
<1>6. Pending'
  <2>1. ASSUME NEW k \in Links, ToDetach(k)', NEW c \in Using', LinkOf[c] = k
        PROVE  c \notin connected' /\ ToAttach(k)'
    <3>1. c \in Using
      BY <1>1, <2>1 DEF Using
    <3>. QED
      BY <1>1, <1>5, <2>1, <3>1 DEF Table, Pending
  <2>2. \A k \in Links : ToAttach(k)' => \A c \in connected' : LinkOf[c] # k
    BY <1>1, <1>5 DEF Table, Pending
  <2>3. ASSUME NEW c \in Clients, ToConnect(c)'
        PROVE  ToAttach(LinkOf[c])' \/ (LinkOf[c] \in attached' /\ ~ToDetach(LinkOf[c])')
    <3>1. ToAttach(LinkOf[c]) \/ (LinkOf[c] \in attached /\ ~ToDetach(LinkOf[c]))
      BY <1>5, <2>3 DEF Table, Pending
    <3>. QED
      BY <1>1, <1>2, <1>5, <3>1
  <2>. QED
    BY <2>1, <2>2, <2>3 DEF Pending
<1>7. Reservations'
  <2>1. SUFFICES ASSUME NEW k \in Links
                 PROVE  reserved'[k] = Sum(Reserves', ClientsOn(k)) /\ reserved'[k] <= NumFrames[k]
    BY DEF Reservations
  <2>2. Reserves' = Reserves
    BY <1>1 DEF Reserves
  <2>3. CASE k # l
    BY <1>1, <2>2, <2>3 DEF Table, Reservations, Core, Typed, ThreadTypes
  <2>4. CASE k = l
    <3>1. reserved'[l] = 0 /\ 0 <= NumFrames[l]
      BY <1>1, Assumptions DEF Core, Typed, ThreadTypes
    <3>2. \A c \in ClientsOn(l) : Reserves[c] = 0
      BY <1>3 DEF ClientsOn, Reserves
    <3>3. Sum(Reserves, ClientsOn(l)) = 0
      BY <3>2, ClientsFinite, SumZero
    <3>. QED
      BY <2>2, <2>4, <3>1, <3>3
  <2>. QED
    BY <2>3, <2>4
<1>8. Alive' /\ Attachments'
  BY <1>1, <1>3 DEF Table, Alive, Attachments
<1>9. \A k : k # l => (Stale(k) => Stale(k)')
  BY <1>1, <1>5 DEF Stale, OthersOn, Using
<1>10. Receivers'
  <2>1. SUFFICES ASSUME NEW k \in Links
                 PROVE  IF k \in mux'
                        THEN rcvr'[k] = None /\ ToSet(callbacks'[k]) = {d \in alive' : LinkOf[d] = k}
                        ELSE /\ callbacks'[k] = <<>>
                             /\ \A d \in alive' : LinkOf[d] = k => rcvr'[k] = d
                             /\ rcvr'[k] # None =>
                                   LinkOf[rcvr'[k]] = k /\ (rcvr'[k] \in alive' \/ Stale(k)')
    BY DEF Receivers
  <2>2. CASE k # l
    <3>1. (k \in mux' <=> k \in mux) /\ callbacks'[k] = callbacks[k] /\ rcvr'[k] = rcvr[k]
      BY <1>1, <2>2 DEF Core, Typed, InlineTypes
    <3>. QED
      BY <1>1, <1>9, <2>2, <3>1 DEF Table, Receivers
  <2>3. CASE k = l
    <3>1. k \notin mux' /\ callbacks'[k] = <<>> /\ rcvr'[k] = None
      BY <1>1, <2>3 DEF Core, Typed, InlineTypes
    <3>. QED
      BY <1>1, <1>3, <2>3, <3>1
  <2>. QED
    BY <2>2, <2>3
<1>11. LeftBehind'
  BY <1>1 DEF LeftBehind
<1>12. Queued'
  BY <1>1, <1>3 DEF Queued, Table, Idle
<1>13. OneDetach'
  <2>1. SUFFICES ASSUME NEW i \in DOMAIN requests', NEW j \in DOMAIN requests',
                        requests'[i][1] = "detach", requests'[i] = requests'[j]
                 PROVE  i = j
    BY DEF OneDetach
  <2>2. /\ i + 1 \in DOMAIN requests /\ requests[i + 1] = requests'[i]
        /\ j + 1 \in DOMAIN requests /\ requests[j + 1] = requests'[j]
        /\ i \in Int /\ j \in Int
    BY <2>1, TailRequests DEF Core
  <2>3. i + 1 = j + 1
    BY <2>1, <2>2 DEF Table, OneDetach
  <2>. QED
    BY <2>2, <2>3
<1>14. Attached'
  <2>1. Using' = Using
    BY <1>1 DEF Using
  <2>2. ~ToDetach(l)'
    <3>1. SUFFICES ASSUME NEW i \in DOMAIN requests', requests'[i] = <<"detach", l>> PROVE FALSE
      BY DEF ToDetach
    <3>2. /\ i + 1 \in DOMAIN requests /\ requests[i + 1] = <<"detach", l>>
          /\ 1 \in DOMAIN requests /\ requests[1] = <<"detach", l>> /\ i \in Nat \ {0}
      <4>1. /\ \A j \in DOMAIN requests' : requests'[j] = requests[j + 1] /\ j + 1 \in DOMAIN requests
            /\ DOMAIN requests' = 1 .. Len(requests) - 1 /\ Len(requests) \in Nat \ {0}
            /\ requests[1] = Head(requests) /\ 1 \in DOMAIN requests
        BY TailRequests DEF Core
      <4>2. i \in Nat \ {0}
        BY <3>1, <4>1
      <4>. QED
        BY <3>1, <4>1, <4>2
    <3>3. <<"detach", l>>[1] = "detach"
      OBVIOUS
    <3>4. i + 1 = 1
      BY <3>2, <3>3 DEF Table, OneDetach
    <3>. QED
      BY <3>2, <3>4
  <2>3. \A k \in Links : ToDetach(k)' => k \in attached'
    BY <1>1, <1>5, <2>2 DEF Table, Attached
  <2>4. \A k \in attached' : ToDetach(k)' \/ (~ToAttach(k)' /\ \E d \in Using' : LinkOf[d] = k)
    BY <1>1, <1>5, <2>1 DEF Table, Attached
  <2>5. ASSUME NEW c \in Clients, user[c] \in {"up", "closing"} PROVE LinkOf[c] \in attached'
    <3>1. LinkOf[c] # l
      <4>1. SUFFICES ASSUME LinkOf[c] = l PROVE FALSE
        OBVIOUS
      <4>2. c \notin connected /\ ToAttach(l)
        BY <1>2, <2>5, <4>1 DEF Table, Pending, Using
      <4>3. user[c] = "closing"
        BY <2>5, <4>2 DEF Core, Life
      <4>4. PICK i \in DOMAIN requests : requests[i] = <<"attach", l>>
        BY <4>2 DEF ToAttach
      <4>5. requests[i][1] = "attach"
        BY <4>4
      <4>6. PICK d \in Clients : i + 1 = Len(requests) /\ requests[i + 1] = <<"connect", d>>
        BY <4>5 DEF Table, RequestOrder
      <4>7. i + 1 \in DOMAIN requests
        BY <4>6, TailRequests DEF Core
      <4>8. requests[i + 1][1] = "connect" /\ requests[i + 1][2] = d
        BY <4>6
      <4>9. user[d] = "connecting"
        BY <4>7, <4>8 DEF Table, RequestOrder
      <4>. QED
        BY <4>3, <4>9 DEF Core, OneBusy
    <3>. QED
      BY <1>1, <2>5, <3>1 DEF Table, Attached
  <2>. QED
    BY <1>1, <2>3, <2>4, <2>5 DEF Attached
<1>. QED
  BY <1>4, <1>6, <1>7, <1>8, <1>10, <1>11, <1>12, <1>13, <1>14 DEF Table

LEMMA MakeClientTable ==
    ASSUME Core, Core', Table, Request, requests # <<>>, requests' = Tail(requests), crashed' = "no",
           NEW c \in Clients, Head(requests) = <<"connect", c>>, MakeClient(c)
    PROVE  Table'
<1>. DEFINE l == LinkOf[c]
<1>0. l \in Links /\ None \notin Clients
  BY Assumptions
<1>1. /\ ~Erasing' /\ ~Erasing /\ call' = Idle /\ UNCHANGED <<user, queues>> /\ alive = connected
      /\ reserved[l] + Reserved[c] <= NumFrames[l]
      /\ reserved' = [reserved EXCEPT ![l] = @ + Reserved[c]]
      /\ connected' = connected \union {c} /\ ConnectReceiver(c) /\ l \in attached
  <2>1. ~Erasing' /\ ~Erasing /\ call' = Idle /\ UNCHANGED <<user, queues>> /\ alive = connected
    BY AtRequest
  <2>2. ~(reserved[l] + Reserved[c] > NumFrames[l]) /\ l \in attached
    BY DEF MakeClient, ConnectReceiver, Crash
  <2>3. /\ reserved' = [reserved EXCEPT ![l] = @ + Reserved[c]]
        /\ connected' = connected \union {c} /\ ConnectReceiver(c)
    BY <2>2 DEF MakeClient
  <2>4. reserved[l] \in Int /\ Reserved[c] \in Int /\ NumFrames[l] \in Int
    BY <1>0, Assumptions DEF Core, Typed, ThreadTypes
  <2>5. reserved[l] + Reserved[c] <= NumFrames[l]
    BY <2>2, <2>4
  <2>. QED
    BY <2>1, <2>2, <2>3, <2>5
<1>2. requests[1] = <<"connect", c>> /\ 1 \in DOMAIN requests
  BY TailRequests DEF Core
<1>3. Len(requests) = 1 /\ user[c] = "connecting" /\ c \notin connected
  <2>1. requests[1][1] = "connect" /\ requests[1][2] = c
    BY <1>2
  <2>2. PICK i : i = 1 /\ i \in DOMAIN requests /\ requests[i][1] = "connect" /\ requests[i][2] = c
    BY <1>2, <2>1
  <2>. QED
    BY <2>2 DEF Table, RequestOrder
<1>4. DOMAIN requests' = {} /\ DOMAIN requests = 1 .. 1
  <2>1. DOMAIN requests' = 1 .. Len(requests) - 1 /\ DOMAIN requests = 1 .. Len(requests)
    BY TailRequests DEF Core
  <2>. QED
    BY <1>3, <2>1
<1>5. \A k : ~ToDetach(k) /\ ~ToDetach(k)' /\ ~ToAttach(k)' /\ ~ToConnect(k)'
  BY <1>2, <1>4 DEF ToDetach, ToAttach, ToConnect
<1>6. RequestOrder' /\ Pending'
  BY <1>4, <1>5 DEF RequestOrder, Pending
<1>7. Reservations'
  <2>1. SUFFICES ASSUME NEW k \in Links
                 PROVE  reserved'[k] = Sum(Reserves', ClientsOn(k)) /\ reserved'[k] <= NumFrames[k]
    BY DEF Reservations
  <2>2. \A d \in Clients \ {c} : d \in connected' <=> d \in connected
    BY <1>1
  <2>3. Sum(Reserves', ClientsOn(k)) =
           reserved[k] + (IF LinkOf[c] = k THEN Reserves'[c] - Reserves[c] ELSE 0)
    BY <2>2, ReservesChange DEF Table
  <2>4. Reserves[c] = 0 /\ Reserves'[c] = Reserved[c] /\ Reserved[c] \in Nat
    BY <1>1, <1>3, Assumptions DEF Reserves
  <2>5. reserved \in [Links -> Int] /\ reserved[k] <= NumFrames[k] /\ reserved[k] \in Int
    BY DEF Core, Typed, ThreadTypes, Table, Reservations
  <2>6. CASE l = k
    <3>1. reserved'[k] = reserved[k] + Reserved[c]
      BY <1>1, <2>5, <2>6
    <3>2. Sum(Reserves', ClientsOn(k)) = reserved[k] + (Reserved[c] - 0)
      BY <2>3, <2>4, <2>6
    <3>. QED
      BY <1>1, <2>4, <2>5, <2>6, <3>1, <3>2
  <2>7. CASE l # k
    <3>1. reserved'[k] = reserved[k]
      BY <1>1, <2>5, <2>7
    <3>2. Sum(Reserves', ClientsOn(k)) = reserved[k] + 0
      BY <2>3, <2>7
    <3>. QED
      BY <2>5, <3>1, <3>2
  <2>. QED
    BY <2>6, <2>7
<1>8. /\ alive' = alive \union {c} /\ attached' = attached
      /\ IF l \in mux
         THEN callbacks' = [callbacks EXCEPT ![l] = Append(@, c)] /\ mux' = mux /\ rcvr' = rcvr
         ELSE IF rcvr[l] # None
         THEN /\ mux' = mux \union {l} /\ callbacks' = [callbacks EXCEPT ![l] = <<rcvr[l], c>>]
              /\ rcvr' = [rcvr EXCEPT ![l] = None]
         ELSE rcvr' = [rcvr EXCEPT ![l] = c] /\ mux' = mux /\ callbacks' = callbacks
  BY <1>1 DEF ConnectReceiver
<1>9. Alive' /\ Attachments'
  BY <1>1, <1>8 DEF Table, Alive, Attachments
<1>10. \A k : ~Stale(k)
  BY <1>3, <1>5 DEF Stale, Core, OneBusy
<1>11. Receivers'
  <2>1. SUFFICES ASSUME NEW k \in Links
                 PROVE  IF k \in mux'
                        THEN rcvr'[k] = None /\ ToSet(callbacks'[k]) = {d \in alive' : LinkOf[d] = k}
                        ELSE /\ callbacks'[k] = <<>>
                             /\ \A d \in alive' : LinkOf[d] = k => rcvr'[k] = d
                             /\ rcvr'[k] # None =>
                                   LinkOf[rcvr'[k]] = k /\ (rcvr'[k] \in alive' \/ Stale(k)')
    BY DEF Receivers
  <2>2. IF k \in mux
        THEN rcvr[k] = None /\ ToSet(callbacks[k]) = {d \in alive : LinkOf[d] = k}
        ELSE /\ callbacks[k] = <<>>
             /\ \A d \in alive : LinkOf[d] = k => rcvr[k] = d
             /\ rcvr[k] # None => LinkOf[rcvr[k]] = k /\ rcvr[k] \in alive
    BY <1>10 DEF Table, Receivers
  <2>3. /\ rcvr \in [Links -> Clients \union {None}] /\ callbacks \in [Links -> Seq(Clients)]
        /\ alive \subseteq Clients
    BY DEF Core, Typed, InlineTypes
  <2>4. CASE k # l
    <3>1. /\ (k \in mux' <=> k \in mux) /\ callbacks'[k] = callbacks[k] /\ rcvr'[k] = rcvr[k]
          /\ \A d : LinkOf[d] = k => (d \in alive' <=> d \in alive)
      BY <1>8, <2>3, <2>4
    <3>. QED
      BY <2>2, <3>1
  <2>5. CASE k = l /\ l \in mux
    <3>1. k \in mux' /\ rcvr'[k] = None /\ callbacks'[k] = Append(callbacks[k], c)
      BY <1>8, <2>2, <2>3, <2>5
    <3>2. ToSet(callbacks'[k]) = ToSet(callbacks[k]) \union {c}
      <4>. DEFINE s == callbacks[k]
      <4>1. s \in Seq(Clients)
        BY <2>3
      <4>. HIDE DEF s
      <4>2. /\ DOMAIN Append(s, c) = 1 .. Len(s) + 1 /\ DOMAIN s = 1 .. Len(s) /\ Len(s) \in Nat
            /\ Append(s, c)[Len(s) + 1] = c /\ \A i \in 1 .. Len(s) : Append(s, c)[i] = s[i]
        BY <4>1
      <4>3. 1 .. Len(s) + 1 = 1 .. Len(s) \union {Len(s) + 1}
        BY <4>2
      <4>4. ToSet(Append(s, c)) = ToSet(s) \union {c}
        BY <4>2, <4>3 DEF ToSet
      <4>. QED
        BY <3>1, <4>4 DEF s
    <3>. QED
      BY <1>8, <2>2, <2>5, <3>1, <3>2
  <2>6. CASE k = l /\ l \notin mux /\ rcvr[l] # None
    <3>. DEFINE r == rcvr[l]
    <3>1. k \in mux' /\ rcvr'[k] = None /\ callbacks'[k] = <<r, c>>
      BY <1>8, <2>3, <2>6
    <3>2. ToSet(<<r, c>>) = {r, c}
      BY DEF ToSet
    <3>3. LinkOf[r] = k /\ r \in alive /\ \A d \in alive : LinkOf[d] = k => d = r
      BY <2>2, <2>6
    <3>4. {d \in alive' : LinkOf[d] = k} = {r, c}
      BY <1>8, <2>6, <3>3
    <3>. QED
      BY <3>1, <3>2, <3>4
  <2>7. CASE k = l /\ l \notin mux /\ rcvr[l] = None
    <3>1. k \notin mux' /\ rcvr'[k] = c /\ callbacks'[k] = <<>>
      BY <1>8, <2>2, <2>3, <2>7
    <3>2. \A d \in alive' : LinkOf[d] = k => d = c
      BY <1>0, <1>8, <2>2, <2>3, <2>7
    <3>. QED
      BY <1>8, <2>7, <3>1, <3>2
  <2>. QED
    BY <2>4, <2>5, <2>6, <2>7
<1>12. LeftBehind'
  BY <1>1 DEF LeftBehind
<1>13. Queued'
  <2>1. mux \subseteq mux' /\ alive \subseteq alive'
    BY <1>8
  <2>. QED
    BY <1>1, <2>1 DEF Queued, Table, Idle
<1>14. Attached' /\ OneDetach'
  <2>1. Using' = Using /\ UNCHANGED <<user, attached>>
    BY <1>1, <1>8 DEF Using
  <2>. QED
    BY <1>4, <1>5, <2>1 DEF Table, Attached, OneDetach
<1>. QED
  BY <1>6, <1>7, <1>9, <1>11, <1>12, <1>13, <1>14 DEF Table

LEMMA RequestTable ==
    ASSUME Core, Core', Table, crashed' = "no", Request PROVE Table'
<1>1. CASE requests = <<>>
  <2>1. /\ UNCHANGED <<requests, connected, reserved, table, queues, user>> /\ ~Erasing /\ ~Erasing'
        /\ call' = Idle
    BY <1>1, AtRequest DEF Request, inline
  <2>2. Queued'
    BY <2>1 DEF Queued, Table, table, Idle
  <2>. QED
    BY <2>1, <2>2, TableKept
<1>2. CASE requests # <<>>
  <2>. DEFINE op == Head(requests)[1]
              whose == Head(requests)[2]
  <2>1. /\ requests' = Tail(requests)
        /\ \/ op = "attach" /\ Attach(whose)
           \/ op = "detach" /\ Detach(whose)
           \/ op = "connect" /\ MakeClient(whose)
    BY <1>2 DEF Request
  <2>2. /\ Head(requests) = <<op, whose>>
        /\ op = "connect" => whose \in Clients
        /\ op \in {"attach", "detach"} => whose \in Links
    BY <1>2, RequestParts DEF Core
  <2>. HIDE DEF op, whose
  <2>. QED
    BY <1>2, <2>1, <2>2, AttachTable, DetachTable, MakeClientTable
<1>. QED
  BY <1>1, <1>2

-----------------------------------------------------------------------------
(* What users do to the requests *)

\* The parts of the table that do not depend on requests and lives.
LEMMA UserParts ==
    ASSUME Core, Typed', TurnOfOne', Table, NEW c \in Clients, User(c)
    PROVE  /\ Reservations' /\ Alive' /\ Attachments' /\ Queued'
           /\ UNCHANGED <<connected, reserved, attached, mux, rcvr, callbacks, alive, queues, call>>
           /\ me' = me /\ (Erasing' <=> Erasing)
<1>1. /\ UNCHANGED <<connected, reserved, table, queues, call>>
      /\ me' = me /\ (Erasing' <=> Erasing)
  BY UserCore DEF User, Connect, Connected, Take, Give, Close, Closed, inline, port, thread
<1>2. UNCHANGED <<attached, mux, rcvr, callbacks, alive>>
  BY <1>1 DEF table
<1>3. Reservations'
  <2>1. SUFFICES ASSUME NEW k \in Links
                 PROVE  reserved'[k] = Sum(Reserves', ClientsOn(k)) /\ reserved'[k] <= NumFrames[k]
    BY DEF Reservations
  <2>2. Reserves' = Reserves
    BY <1>1 DEF Reserves
  <2>. QED
    BY <1>1, <2>2 DEF Table, Reservations
<1>4. Alive' /\ Attachments' /\ Queued'
  BY <1>1, <1>2 DEF Table, Alive, Attachments, Queued
<1>. QED
  BY <1>1, <1>2, <1>3, <1>4

\* A client goes on from one wait, or into the other.
LEMMA WaitTable ==
    ASSUME Core, Typed', TurnOfOne', Table, NEW c \in Clients, Connected(c) \/ Close(c)
    PROVE  Table'
<1>1. /\ Reservations' /\ Alive' /\ Attachments' /\ Queued'
      /\ UNCHANGED <<connected, reserved, attached, mux, rcvr, callbacks, alive, queues, call>>
      /\ me' = me /\ (Erasing' <=> Erasing)
  BY UserParts DEF User
<1>2. /\ requests' = requests /\ user'[c] # "gone"
      /\ user[c] \in {"connecting", "up"} /\ user'[c] \in {"up", "closing"}
      /\ (user[c] = "connecting" => c \in connected)
      /\ \A d \in Clients \ {c} : user'[d] = user[d]
  BY DEF Connected, Close, Core, Typed, PortTypes
<1>3. Using' = Using
  BY <1>2 DEF Using
<1>4. \A k : (ToDetach(k)' <=> ToDetach(k)) /\ (ToAttach(k)' <=> ToAttach(k))
             /\ (ToConnect(k)' <=> ToConnect(k))
  BY <1>2 DEF ToDetach, ToAttach, ToConnect
<1>5. RequestOrder'
  <2>1. SUFFICES ASSUME NEW i \in DOMAIN requests, requests[i][1] = "connect"
                 PROVE  user'[requests[i][2]] = "connecting"
    BY <1>1, <1>2 DEF Table, RequestOrder
  <2>2. user[requests[i][2]] = "connecting" /\ requests[i][2] \notin connected
    BY <2>1 DEF Table, RequestOrder
  <2>3. requests[i] \in Requests
    BY DEF Core, Typed, ThreadTypes
  <2>4. requests[i][2] \in Clients
    BY <2>1, <2>3 DEF Requests
  <2>. QED
    BY <1>2, <2>2, <2>4
<1>6. Pending' /\ Attached' /\ OneDetach'
  <2>1. LinkOf[c] \in attached
    <3>1. user[c] = "up" \/ c \in alive
      BY <1>2 DEF Table, Alive
    <3>. QED
      BY <3>1 DEF Table, Attached, Attachments
  <2>. QED
    BY <1>1, <1>2, <1>3, <1>4, <2>1 DEF Table, Pending, Attached, OneDetach
<1>7. \A k : Stale(k) => Stale(k)'
  <2>1. \A d : OthersOn(d)' = OthersOn(d)
    BY <1>3 DEF OthersOn
  <2>. QED
    BY <1>2, <1>4, <2>1 DEF Stale
<1>8. Receivers'
  BY <1>1, <1>7 DEF Table, Receivers
<1>9. LeftBehind'
  <2>1. SUFFICES ASSUME Erasing, user'[me] = "gone", LinkOf[me] \notin mux
                 PROVE  ToDetach(LinkOf[me])
    BY <1>1, <1>4 DEF LeftBehind
  <2>2. me \in Clients
    BY <2>1, Mine DEF Erasing, Core
  <2>. QED
    BY <1>2, <2>1, <2>2 DEF Table, LeftBehind
<1>. QED
  BY <1>1, <1>5, <1>6, <1>8, <1>9 DEF Table

\* When nobody is being made, only detaches are left.
LEMMA DetachesOnly ==
    ASSUME Core, Table, \A d \in Clients : user[d] # "connecting"
    PROVE  /\ \A i \in DOMAIN requests : requests[i][1] = "detach"
           /\ \A k : ~ToAttach(k) /\ ~ToConnect(k)
           /\ \A k \in Links : ToDetach(k) => \A d \in Using : LinkOf[d] # k
<1>1. \A i \in DOMAIN requests : requests[i] \in Requests
  BY DEF Core, Typed, ThreadTypes
<1>2. \A i \in DOMAIN requests : requests[i][1] # "connect"
  <2>1. SUFFICES ASSUME NEW i \in DOMAIN requests, requests[i][1] = "connect" PROVE FALSE
    OBVIOUS
  <2>2. requests[i][2] \in Clients
    BY <1>1, <2>1 DEF Requests
  <2>. QED
    BY <2>1, <2>2 DEF Table, RequestOrder
<1>3. \A i \in DOMAIN requests : requests[i][1] # "attach"
  <2>1. SUFFICES ASSUME NEW i \in DOMAIN requests, requests[i][1] = "attach" PROVE FALSE
    OBVIOUS
  <2>2. PICK d \in Clients : i + 1 = Len(requests) /\ requests[i + 1] = <<"connect", d>>
    BY <2>1 DEF Table, RequestOrder
  <2>3. i + 1 \in DOMAIN requests
    <3>. DEFINE q == requests
    <3>1. q \in Seq(Requests) /\ i \in DOMAIN q /\ i + 1 = Len(q)
      BY <2>2 DEF Core, Typed, ThreadTypes
    <3>. HIDE DEF q
    <3>2. i + 1 \in DOMAIN q
      BY <3>1
    <3>. QED
      BY <3>2 DEF q
  <2>. QED
    BY <1>2, <2>2, <2>3
<1>4. \A i \in DOMAIN requests : requests[i][1] = "detach"
  BY <1>1, <1>2, <1>3 DEF Requests
<1>5. \A k : ~ToAttach(k) /\ ~ToConnect(k)
  <2>1. SUFFICES ASSUME NEW k, NEW i \in DOMAIN requests,
                        requests[i] = <<"attach", k>> \/ requests[i] = <<"connect", k>>
                 PROVE  FALSE
    BY DEF ToAttach, ToConnect
  <2>2. requests[i][1] = "attach" \/ requests[i][1] = "connect"
    BY <2>1
  <2>. QED
    BY <1>4, <2>2
<1>6. \A k \in Links : ToDetach(k) => \A d \in Using : LinkOf[d] # k
  BY <1>5 DEF Table, Pending
<1>. QED
  BY <1>4, <1>5, <1>6

LEMMA ConnectRequests ==
    ASSUME Typed, NEW c \in Clients, Connect(c)
    PROVE  LET alone == OthersOn(c) = {}
               n == Len(requests)
           IN /\ n \in Nat /\ DOMAIN requests = 1 .. n
              /\ DOMAIN requests' = 1 .. (IF alone THEN n + 2 ELSE n + 1)
              /\ Len(requests') = (IF alone THEN n + 2 ELSE n + 1)
              /\ \A i \in 1 .. n : requests'[i] = requests[i]
              /\ alone => requests'[n + 1] = <<"attach", LinkOf[c]>>
                          /\ requests'[n + 2] = <<"connect", c>>
              /\ ~alone => requests'[n + 1] = <<"connect", c>>
<1>. DEFINE q == requests
            a == <<"attach", LinkOf[c]>>
            b == <<"connect", c>>
<1>1. q \in Seq(Requests) /\ a \in Requests /\ b \in Requests
  BY Assumptions DEF Typed, ThreadTypes, Requests
<1>2. /\ OthersOn(c) = {} => requests' = q \o <<a>> \o <<b>>
      /\ OthersOn(c) # {} => requests' = q \o <<>> \o <<b>>
  BY DEF Connect
<1>. HIDE DEF q, a, b
<1>3. Len(q) \in Nat /\ DOMAIN q = 1 .. Len(q)
  BY <1>1
<1>4. CASE OthersOn(c) = {}
  <2>. DEFINE r == q \o <<a>> \o <<b>>
  <2>1. /\ DOMAIN r = 1 .. Len(q) + 2 /\ Len(r) = Len(q) + 2
        /\ \A i \in 1 .. Len(q) : r[i] = q[i]
        /\ r[Len(q) + 1] = a /\ r[Len(q) + 2] = b
    BY <1>1
  <2>. QED
    BY <1>2, <1>3, <1>4, <2>1 DEF q, a, b
<1>5. CASE OthersOn(c) # {}
  <2>. DEFINE r == q \o <<>> \o <<b>>
  <2>1. /\ DOMAIN r = 1 .. Len(q) + 1 /\ Len(r) = Len(q) + 1
        /\ \A i \in 1 .. Len(q) : r[i] = q[i] /\ r[Len(q) + 1] = b
    BY <1>1
  <2>2. r[Len(q) + 1] = b
    BY <1>1
  <2>. QED
    BY <1>2, <1>3, <1>5, <2>1, <2>2 DEF q, a, b
<1>. QED
  BY <1>4, <1>5

LEMMA ConnectTable ==
    ASSUME Core, Typed', TurnOfOne', Table, NEW c \in Clients, Connect(c)
    PROVE  Table'
<1>. DEFINE l == LinkOf[c]
            alone == OthersOn(c) = {}
            n == Len(requests)
<1>1. /\ Reservations' /\ Alive' /\ Attachments' /\ Queued'
      /\ UNCHANGED <<connected, reserved, attached, mux, rcvr, callbacks, alive, queues, call>>
      /\ me' = me /\ (Erasing' <=> Erasing)
  BY UserParts DEF User
<1>2. /\ user[c] = "new" /\ user'[c] = "connecting" /\ l \in Links
      /\ \A d \in Clients \ {c} : user'[d] = user[d]
      /\ \A d \in Clients : user[d] \notin {"connecting", "closing"}
  BY Assumptions DEF Connect, Busy, Core, Typed, PortTypes
<1>3. /\ \A i \in DOMAIN requests : requests[i][1] = "detach"
      /\ \A k : ~ToAttach(k) /\ ~ToConnect(k)
      /\ \A k \in Links : ToDetach(k) => \A d \in Using : LinkOf[d] # k
  BY <1>2, DetachesOnly
<1>4. /\ n \in Nat /\ DOMAIN requests = 1 .. n
      /\ DOMAIN requests' = 1 .. (IF alone THEN n + 2 ELSE n + 1)
      /\ Len(requests') = (IF alone THEN n + 2 ELSE n + 1)
      /\ \A i \in 1 .. n : requests'[i] = requests[i]
      /\ alone => requests'[n + 1] = <<"attach", l>> /\ requests'[n + 2] = <<"connect", c>>
      /\ ~alone => requests'[n + 1] = <<"connect", c>>
  BY ConnectRequests DEF Core
<1>5. c \notin connected
  BY <1>2 DEF Core, Life
<1>. HIDE DEF n, alone, l
<1>6. \A i \in DOMAIN requests' :
         \/ i \in DOMAIN requests /\ requests'[i] = requests[i] /\ requests'[i][1] = "detach"
         \/ alone /\ i = n + 1 /\ requests'[i] = <<"attach", l>>
         \/ i = Len(requests') /\ requests'[i] = <<"connect", c>>
  BY <1>3, <1>4
<1>7. RequestOrder'
  <2>1. SUFFICES ASSUME NEW i \in DOMAIN requests'
                 PROVE  /\ requests'[i][1] = "connect" =>
                              /\ i = Len(requests')
                              /\ user'[requests'[i][2]] = "connecting" /\ requests'[i][2] \notin connected'
                        /\ requests'[i][1] = "attach" =>
                              /\ i + 1 = Len(requests')
                              /\ \E d \in Clients : requests'[i + 1] = <<"connect", d>> /\ LinkOf[d] = requests'[i][2]
    BY DEF RequestOrder
  <2>2. CASE requests'[i][1] = "detach"
    BY <2>2
  <2>3. CASE alone /\ i = n + 1 /\ requests'[i] = <<"attach", l>>
    <3>1. i + 1 = n + 2 /\ Len(requests') = n + 2
      BY <1>4, <2>3
    <3>2. requests'[i + 1] = <<"connect", c>> /\ LinkOf[c] = requests'[i][2]
      BY <1>4, <2>3, <3>1 DEF l
    <3>. QED
      BY <2>3, <3>1, <3>2
  <2>4. CASE i = Len(requests') /\ requests'[i] = <<"connect", c>>
    BY <1>1, <1>2, <1>5, <2>4
  <2>. QED
    BY <1>6, <2>2, <2>3, <2>4
<1>8. \A k : ToDetach(k)' <=> ToDetach(k)
  <2>1. \A i \in DOMAIN requests : i \in DOMAIN requests' /\ requests'[i] = requests[i]
    BY <1>4
  <2>2. \A k, i : i \in DOMAIN requests' /\ requests'[i] = <<"detach", k>> =>
                     i \in DOMAIN requests /\ requests[i] = <<"detach", k>>
    BY <1>6
  <2>. QED
    BY <2>1, <2>2 DEF ToDetach
<1>9. \A k : ToAttach(k)' => alone /\ k = l
  <2>1. \A k, i : i \in DOMAIN requests' /\ requests'[i] = <<"attach", k>> => alone /\ k = l
    BY <1>6
  <2>. QED
    BY <2>1 DEF ToAttach
<1>10. alone => ToAttach(l)'
  <2>1. alone => n + 1 \in DOMAIN requests' /\ requests'[n + 1] = <<"attach", l>>
    BY <1>4
  <2>. QED
    BY <2>1 DEF ToAttach
<1>11. \A d : ToConnect(d)' => d = c
  <2>1. \A d, i : i \in DOMAIN requests' /\ requests'[i] = <<"connect", d>> => d = c
    BY <1>6
  <2>. QED
    BY <2>1 DEF ToConnect
<1>12. Using' = Using \union {c} /\ c \notin Using
  BY <1>2 DEF Using
<1>13. OthersOn(c) = {d \in Using : LinkOf[d] = l}
  BY <1>12 DEF OthersOn, l
<1>14. Pending'
  <2>1. ASSUME NEW k \in Links, ToDetach(k)', NEW d \in Using', LinkOf[d] = k
        PROVE  d \notin connected' /\ ToAttach(k)'
    <3>1. \A e \in Using : LinkOf[e] # k
      BY <1>3, <1>8, <2>1
    <3>2. d = c /\ k = l
      BY <1>12, <2>1, <3>1 DEF l
    <3>3. alone
      BY <1>13, <3>1, <3>2 DEF alone
    <3>. QED
      BY <1>1, <1>5, <1>10, <3>2, <3>3
  <2>2. ASSUME NEW k \in Links, ToAttach(k)', NEW d \in connected', LinkOf[d] = k PROVE FALSE
    <3>1. alone /\ k = l
      BY <1>9, <2>2
    <3>2. d \in Using
      BY <1>1, <2>2 DEF Core, Life, Using, Typed, PortTypes
    <3>. QED
      BY <1>13, <2>2, <3>1, <3>2 DEF alone
  <2>3. ASSUME ~alone PROVE l \in attached' /\ ~ToDetach(l)'
    <3>1. PICK d \in Using : LinkOf[d] = l
      BY <1>13, <2>3 DEF alone
    <3>2. user[d] = "up" /\ d \in Clients
      BY <1>2, <3>1 DEF Using, Core, Typed, PortTypes
    <3>3. d \in alive
      BY <3>2 DEF Core, Life, Table, Alive
    <3>4. l \in attached
      BY <3>1, <3>3 DEF Table, Attachments
    <3>. QED
      BY <1>1, <1>2, <1>3, <1>8, <3>1, <3>4
  <2>4. \A d \in Clients : ToConnect(d)' =>
           ToAttach(LinkOf[d])' \/ (LinkOf[d] \in attached' /\ ~ToDetach(LinkOf[d])')
    BY <1>10, <1>11, <2>3 DEF l
  <2>. QED
    BY <2>1, <2>2, <2>4 DEF Pending
<1>15. \A k : Stale(k) => Stale(k)'
  <2>1. \A k : Stale(k) => ToDetach(k)
    BY <1>2 DEF Stale
  <2>. QED
    BY <1>8, <2>1 DEF Stale
<1>16. Receivers'
  BY <1>1, <1>15 DEF Table, Receivers
<1>17. LeftBehind'
  <2>1. SUFFICES ASSUME Erasing, user'[me] = "gone", LinkOf[me] \notin mux
                 PROVE  ToDetach(LinkOf[me])
    BY <1>1, <1>8 DEF LeftBehind
  <2>2. me \in Clients
    BY <2>1, Mine DEF Erasing, Core
  <2>. QED
    BY <1>2, <2>1, <2>2 DEF Table, LeftBehind
<1>18. Attached'
  <2>1. ASSUME NEW k \in attached, ~ToDetach(k)
        PROVE  ~ToAttach(k)' /\ \E d \in Using' : LinkOf[d] = k
    <3>1. PICK d \in Using : LinkOf[d] = k
      BY <2>1 DEF Table, Attached
    <3>2. k = l => ~alone
      BY <1>13, <3>1 DEF alone
    <3>. QED
      BY <1>9, <1>12, <3>1, <3>2
  <2>. QED
    BY <1>1, <1>2, <1>8, <2>1 DEF Table, Attached
<1>19. OneDetach'
  <2>1. \A i \in DOMAIN requests' : requests'[i][1] = "detach" =>
                                     i \in DOMAIN requests /\ requests'[i] = requests[i]
    BY <1>6
  <2>. QED
    BY <2>1 DEF Table, OneDetach
<1>. QED
  BY <1>1, <1>7, <1>14, <1>16, <1>17, <1>18, <1>19 DEF Table

LEMMA ClosedTable ==
    ASSUME Core, Typed', TurnOfOne', Table, NEW c \in Clients, Closed(c)
    PROVE  Table'
<1>. DEFINE l == LinkOf[c]
            alone == OthersOn(c) = {}
<1>1. /\ Reservations' /\ Alive' /\ Attachments' /\ Queued'
      /\ UNCHANGED <<connected, reserved, attached, mux, rcvr, callbacks, alive, queues, call>>
      /\ me' = me /\ (Erasing' <=> Erasing)
  BY UserParts DEF User
<1>2. /\ user[c] = "closing" /\ user'[c] = "gone" /\ l \in Links /\ c \notin connected
      /\ \A d \in Clients \ {c} : user'[d] = user[d]
      /\ \A d \in Clients : user[d] \in {"connecting", "closing"} => d = c
  BY Assumptions DEF Closed, Core, OneBusy, Typed, PortTypes
<1>3. /\ \A i \in DOMAIN requests : requests[i][1] = "detach"
      /\ \A k : ~ToAttach(k) /\ ~ToConnect(k)
      /\ \A k \in Links : ToDetach(k) => \A d \in Using : LinkOf[d] # k
  BY <1>2, DetachesOnly
<1>4. /\ \A i \in DOMAIN requests' : \/ i \in DOMAIN requests /\ requests'[i] = requests[i]
                                     \/ alone /\ requests'[i] = <<"detach", l>>
      /\ \A i \in DOMAIN requests : i \in DOMAIN requests' /\ requests'[i] = requests[i]
      /\ alone => \E i \in DOMAIN requests' : requests'[i] = <<"detach", l>>
      /\ \A i, j \in DOMAIN requests' : i = j \/ i \in DOMAIN requests \/ j \in DOMAIN requests
  <2>. DEFINE q == requests
              a == <<"detach", l>>
  <2>1. q \in Seq(Requests) /\ a \in Requests
    BY <1>2 DEF Core, Typed, ThreadTypes, Requests
  <2>2. requests' = IF alone THEN Append(q, a) ELSE q
    BY DEF Closed, Detaches
  <2>. HIDE DEF q, a
  <2>3. /\ DOMAIN Append(q, a) = 1 .. Len(q) + 1 /\ DOMAIN q = 1 .. Len(q) /\ Len(q) \in Nat
        /\ \A i \in 1 .. Len(q) : Append(q, a)[i] = q[i]
        /\ Append(q, a)[Len(q) + 1] = a
    BY <2>1
  <2>4. /\ \A i \in DOMAIN Append(q, a) : (i \in DOMAIN q /\ Append(q, a)[i] = q[i]) \/ Append(q, a)[i] = a
        /\ \A i \in DOMAIN q : i \in DOMAIN Append(q, a) /\ Append(q, a)[i] = q[i]
        /\ Len(q) + 1 \in DOMAIN Append(q, a)
        /\ \A i \in DOMAIN Append(q, a) : i = Len(q) + 1 \/ i \in DOMAIN q
    BY <2>3
  <2>. QED
    BY <2>2, <2>3, <2>4 DEF q, a
<1>. HIDE DEF alone, l
<1>5. \A i \in DOMAIN requests' : requests'[i][1] = "detach"
  BY <1>3, <1>4
<1>6. RequestOrder'
  BY <1>5 DEF RequestOrder
<1>7. \A k : /\ ~ToAttach(k)' /\ ~ToConnect(k)'
             /\ ToDetach(k)' => ToDetach(k) \/ (alone /\ k = l)
             /\ ToDetach(k) => ToDetach(k)'
  <2>1. \A k, i : i \in DOMAIN requests' =>
           requests'[i] # <<"attach", k>> /\ requests'[i] # <<"connect", k>>
    BY <1>5
  <2>2. \A k : ~ToAttach(k)' /\ ~ToConnect(k)'
    BY <2>1 DEF ToAttach, ToConnect
  <2>3. \A k : ToDetach(k)' => ToDetach(k) \/ (alone /\ k = l)
    <3>1. SUFFICES ASSUME NEW k, NEW i \in DOMAIN requests', requests'[i] = <<"detach", k>>,
                          ~(\E j \in DOMAIN requests : requests[j] = <<"detach", k>>)
                   PROVE  alone /\ k = l
      BY DEF ToDetach
    <3>2. alone /\ requests'[i] = <<"detach", l>>
      BY <1>4, <3>1
    <3>. QED
      BY <3>1, <3>2
  <2>4. \A k : ToDetach(k) => ToDetach(k)'
    BY <1>4 DEF ToDetach
  <2>. QED
    BY <2>2, <2>3, <2>4
<1>8. alone => ToDetach(l)'
  BY <1>4 DEF ToDetach
<1>9. Using' = Using \ {c} /\ OthersOn(c) = {d \in Using \ {c} : LinkOf[d] = l}
  BY <1>2 DEF Using, OthersOn, l
<1>10. Pending'
  <2>1. ASSUME NEW k \in Links, ToDetach(k)', NEW d \in Using', LinkOf[d] = k PROVE FALSE
    BY <1>3, <1>7, <1>9, <2>1 DEF alone
  <2>. QED
    BY <1>7, <2>1 DEF Pending
<1>11. \A k : Stale(k) => Stale(k)'
  <2>1. SUFFICES ASSUME NEW k, Stale(k) PROVE ToDetach(k)'
    BY DEF Stale
  <2>2. CASE ToDetach(k)
    BY <1>7, <2>2
  <2>3. CASE \E d \in Clients : user[d] = "closing" /\ LinkOf[d] = k /\ OthersOn(d) = {}
    <3>1. LinkOf[c] = k /\ OthersOn(c) = {}
      BY <1>2, <2>3
    <3>. QED
      BY <1>8, <3>1 DEF alone, l
  <2>. QED
    BY <2>1, <2>2, <2>3 DEF Stale
<1>12. Receivers'
  BY <1>1, <1>11 DEF Table, Receivers
<1>13. LeftBehind'
  <2>1. SUFFICES ASSUME Erasing, user'[me] = "gone", LinkOf[me] \notin mux
                 PROVE  ToDetach(LinkOf[me])'
    BY <1>1 DEF LeftBehind
  <2>2. PICK m \in Clients : m = me
    BY <2>1, Mine DEF Erasing, Core
  <2>3. CASE m # c
    <3>1. user[me] = "gone"
      BY <1>2, <2>1, <2>2, <2>3
    <3>2. ToDetach(LinkOf[me])
      BY <2>1, <3>1 DEF Table, LeftBehind
    <3>3. ToDetach(LinkOf[m]) /\ LinkOf[m]' = LinkOf[m]
      BY <2>2, <3>2
    <3>. QED
      BY <1>1, <1>7, <2>2, <3>3
  <2>4. CASE m = c
    <3>1. c \in alive
      BY <2>1, <2>2, <2>4 DEF Table, Alive
    <3>2. LinkOf[c] \notin mux
      BY <2>1, <2>2, <2>4
    <3>3. alone
      BY <1>2, <3>1, <3>2, Alone DEF alone
    <3>. QED
      BY <1>1, <1>8, <2>2, <2>4, <3>3 DEF l
  <2>. QED
    BY <2>3, <2>4
<1>14. Attached'
  <2>1. ASSUME NEW k \in attached, ~ToDetach(k)' PROVE \E d \in Using' : LinkOf[d] = k
    <3>1. PICK d \in Using : LinkOf[d] = k
      BY <1>7, <2>1 DEF Table, Attached
    <3>2. CASE d = c
      <4>1. k = l /\ ~alone
        BY <1>8, <2>1, <3>1, <3>2 DEF l
      <4>. QED
        BY <1>9, <4>1 DEF alone
    <3>. QED
      BY <1>9, <3>1, <3>2
  <2>2. l \in attached
    BY <1>2 DEF Table, Attached, l
  <2>. QED
    BY <1>1, <1>2, <1>7, <2>1, <2>2 DEF Table, Attached
<1>15. OneDetach'
  <2>1. ~ToDetach(l) \/ ~alone
    <3>1. c \in Using /\ LinkOf[c] = l
      BY <1>2 DEF Using, l
    <3>. QED
      BY <1>2, <1>3, <3>1
  <2>2. SUFFICES ASSUME NEW i \in DOMAIN requests', NEW j \in DOMAIN requests',
                        requests'[i][1] = "detach", requests'[i] = requests'[j], i # j
                 PROVE  FALSE
    BY DEF OneDetach
  <2>3. CASE i \in DOMAIN requests /\ j \in DOMAIN requests
    BY <1>4, <2>2, <2>3 DEF Table, OneDetach
  <2>4. CASE i \notin DOMAIN requests \/ j \notin DOMAIN requests
    <3>1. alone /\ requests'[i] = <<"detach", l>> /\ requests'[j] = <<"detach", l>>
      BY <1>4, <2>2, <2>4
    <3>2. i \in DOMAIN requests \/ j \in DOMAIN requests
      BY <1>4, <2>2
    <3>3. ToDetach(l)
      BY <1>4, <3>1, <3>2 DEF ToDetach
    <3>. QED
      BY <2>1, <3>1, <3>3
  <2>. QED
    BY <2>3, <2>4
<1>. QED
  BY <1>1, <1>6, <1>10, <1>12, <1>13, <1>14, <1>15 DEF Table

LEMMA UserTable ==
    ASSUME Core, Typed', TurnOfOne', Table, NEW c \in Clients, User(c) PROVE Table'
<1>1. CASE Take(c) \/ Give(c)
  <2>1. UNCHANGED <<requests, user, connected, reserved, table, queues, call, alive, mux>>
    BY <1>1 DEF Take, Give, inline, port, thread, table
  <2>2. me' = me /\ (Erasing' <=> Erasing)
    BY UserCore
  <2>3. Queued'
    BY <2>1 DEF Queued, Table
  <2>. QED
    BY <2>1, <2>2, <2>3, TableKept
<1>. QED
  BY <1>1, WaitTable, ConnectTable, ClosedTable DEF User

LEMMA LinkTable ==
    ASSUME Table, NEW c, Arrive(c) \/ Answer(c) PROVE Table'
<1>1. UNCHANGED <<requests, user, connected, reserved, table, queues, call, alive, mux, phase, turn, clients>>
  BY DEF Arrive, Answer, port, thread, users, table
<1>2. me' = me /\ (Erasing' <=> Erasing) /\ Queued'
  BY <1>1 DEF me, Erasing, Queued, Table
<1>. QED
  BY <1>1, <1>2, TableKept

LEMMA TableInit == Init => Table
<1>1. SUFFICES ASSUME Init PROVE Table
  OBVIOUS
<1>2. /\ requests = <<>> /\ connected = {} /\ alive = {} /\ attached = {} /\ mux = {}
      /\ reserved = [l \in Links |-> 0] /\ rcvr = [l \in Links |-> None]
      /\ callbacks = [l \in Links |-> <<>>] /\ queues = [c \in Clients |-> <<>>]
      /\ call = Idle /\ phase = "request"
  <2>1. /\ requests = <<>> /\ connected = {} /\ reserved = [l \in Links |-> 0]
        /\ phase = "request" /\ InlineInit
    BY <1>1 DEF Init
  <2>2. /\ alive = {} /\ attached = {} /\ mux = {} /\ rcvr = [l \in Links |-> None]
        /\ callbacks = [l \in Links |-> <<>>] /\ queues = [c \in Clients |-> <<>>]
        /\ call = Idle
    BY <2>1 DEF InlineInit
  <2>. QED
    BY <2>1, <2>2
<1>3. RequestOrder /\ Pending /\ Attached /\ OneDetach
  <2>1. DOMAIN requests = {} /\ user = [c \in Clients |-> "new"]
    BY <1>1, <1>2 DEF Init
  <2>. QED
    BY <1>2, <2>1 DEF RequestOrder, Pending, Attached, OneDetach, ToDetach, ToAttach, ToConnect
<1>4. Reservations
  <2>1. SUFFICES ASSUME NEW l \in Links
                 PROVE  reserved[l] = Sum(Reserves, ClientsOn(l)) /\ reserved[l] <= NumFrames[l]
    BY DEF Reservations
  <2>2. \A c \in ClientsOn(l) : Reserves[c] = 0
    BY <1>2, ClientsFinite DEF Reserves
  <2>3. Sum(Reserves, ClientsOn(l)) = 0
    BY <2>2, ClientsFinite, SumZero
  <2>. QED
    BY <1>2, <2>3, Assumptions
<1>5. Alive /\ Attachments /\ Receivers /\ LeftBehind /\ Queued
  BY <1>2 DEF Alive, Attachments, Receivers, LeftBehind, Queued, Erasing, Idle
<1>. QED
  BY <1>3, <1>4, <1>5 DEF Table

-----------------------------------------------------------------------------
(* The invariant *)

\* The accounts do not depend on the table, and outlive an exception.
ServiceInv == Core /\ Accounts /\ (crashed = "no" => Table)

LEMMA ServiceInitKeeps == Init => ServiceInv
<1>1. SUFFICES ASSUME Init PROVE ServiceInv
  OBVIOUS
<1>2. /\ phase = "request" /\ clients = [recv |-> <<>>, send |-> <<>>] /\ call = Idle
      /\ user = [c \in Clients |-> "new"] /\ held = [c \in Clients |-> 0] /\ connected = {}
      /\ from_q = [c \in Clients |-> <<>>] /\ to_q = [c \in Clients |-> <<>>]
  BY <1>1 DEF Init, InlineInit
<1>3. Typed /\ TurnOfOne /\ Accounts /\ Table
  BY <1>1, TypesInit, AccountsInit, TableInit
<1>4. Listed /\ Erased
  <2>1. \A k \in {"recv", "send"} : clients[k] = <<>>
    BY <1>2
  <2>. QED
    BY <1>2, <2>1 DEF Listed, Erased, Erasing
<1>5. Calling /\ OneBusy
  BY <1>2 DEF Calling, OneBusy, Idle
<1>6. \A c \in Clients : Life(c)
  BY <1>2 DEF Life
<1>. QED
  BY <1>3, <1>4, <1>5, <1>6 DEF ServiceInv, Core

\* A step of the thread is one of a thread that has not crashed.
LEMMA ThreadRuns ==
    ASSUME ServiceInv, Thread
    PROVE  crashed = "no" /\ Table
BY DEF ServiceInv, Thread, GetRecvBuff, GotRecvBuff, ReleaseRecvBuffs, Disconnect, Erase,
   GetSendBuff, AwaitDest, ReleaseSendBuff, NoSend, Turn, Request

LEMMA ThreadKeeps ==
    ASSUME ServiceInv, Typed', TurnOfOne', Thread PROVE ServiceInv'
<1>1. Core /\ Accounts /\ Table /\ crashed = "no" /\ RequestOrder /\ Reservations /\ Typed
  BY ThreadRuns DEF ServiceInv, Table, Core
<1>2. CASE GetRecvBuff \/ GotRecvBuff \/ ReleaseRecvBuffs
  BY <1>1, <1>2, ReceiveCore, ReceiveAccounts, ReceiveTable, ReleaseAccounts DEF ServiceInv
<1>3. CASE GetSendBuff \/ AwaitDest \/ ReleaseSendBuff \/ NoSend
  BY <1>1, <1>3, SendCore, SendAccounts, SendTable, ReleaseAccounts DEF ServiceInv
<1>4. CASE \E p \in {"release_recv", "release_send"} : Disconnect(p) \/ Erase(p)
  BY <1>1, <1>4, DisconnectCore, DisconnectAccounts, DisconnectTable, EraseCore, EraseAccounts,
     EraseTable DEF ServiceInv
<1>5. CASE Request
  BY <1>1, <1>5, RequestCore, RequestAccounts, RequestTable DEF ServiceInv
<1>6. CASE InlineStep /\ UNCHANGED <<port, thread, requests, users>>
  BY <1>1, <1>6, InlineStepCore, LoopAccounts, LoopTable DEF ServiceInv
<1>. QED
  BY <1>2, <1>3, <1>4, <1>5, <1>6 DEF Thread

LEMMA ServiceNextKeeps ==
    ASSUME ServiceInv, [Next]_vars PROVE ServiceInv'
<1>1. Typed' /\ TurnOfOne' /\ Core /\ Accounts
  BY TypesNext DEF ServiceInv, Core
<1>2. CASE Thread
  BY <1>1, <1>2, ThreadKeeps
<1>3. ASSUME NEW c \in Clients, User(c) PROVE ServiceInv'
  <2>1. crashed' = crashed
    BY <1>3 DEF User, Connect, Connected, Take, Give, Close, Closed, inline
  <2>. QED
    BY <1>1, <1>3, <2>1, UserCore, UserAccounts, UserTable DEF ServiceInv
<1>4. ASSUME NEW c \in Clients, (c \in RecvClients /\ Arrive(c)) \/ (c \in SendClients /\ Answer(c))
      PROVE  ServiceInv'
  <2>1. crashed' = crashed
    BY <1>4 DEF Arrive, Answer
  <2>. QED
    BY <1>1, <1>4, <2>1, LinkCore, LinkAccounts, LinkTable DEF ServiceInv
<1>5. CASE UNCHANGED vars
  <2>1. /\ UNCHANGED <<net, free, table, queues, updates, call, crashed>>
        /\ UNCHANGED <<from_q, to_q, connected, in_use, clients, reserved, phase, turn, requests,
                       user, held, accepted, last>>
    BY <1>5 DEF vars, inline, port, thread, users
  <2>2. me' = me /\ (Erasing' <=> Erasing)
    BY <2>1 DEF me, Erasing
  <2>3. Core'
    BY <1>1, <2>1, <2>2 DEF Core, Listed, Erased, Calling, OneBusy, Life, MayGet, FrameNext
  <2>4. Accounts'
    <3>1. \A d \in Clients : Same(d)
      BY <2>1 DEF Same, GivenBack, InCall, PacketsOf
    <3>. QED
      BY <1>1, <2>1, <3>1, AccountsSame DEF Core
  <2>5. Table => Table'
    <3>1. UNCHANGED <<alive, mux>>
      BY <2>1 DEF table
    <3>2. Table => Queued'
      BY <2>1, <3>1 DEF Table, Queued
    <3>. QED
      BY <2>1, <2>2, <3>2, TableKept
  <2>. QED
    BY <2>1, <2>3, <2>4, <2>5 DEF ServiceInv
<1>. QED
  BY <1>2, <1>3, <1>4, <1>5, Assumptions DEF Next

\* The thread of the offload service (_do_work_polling), the clients in their own
\* threads and the inline service agree on who is connected, on every frame, and on
\* the table of receivers, whatever the order in which clients come, receive, send
\* and go.
THEOREM ServiceInvariance == Spec => []ServiceInv
<1>1. Init => ServiceInv
  BY ServiceInitKeeps
<1>2. ServiceInv /\ [Next]_vars => ServiceInv'
  BY ServiceNextKeeps
<1>. QED
  BY <1>1, <1>2, PTL DEF Spec

-----------------------------------------------------------------------------
(* What it implies *)

\* A queue to the thread holds no more than the frames in it and a disconnect.
LEMMA ToQueueBound ==
    ASSUME NEW q \in Seq(Nat), \A i \in DOMAIN q : q[i] = DISCONNECT => i = Len(q)
    PROVE  Len(q) <= Len(Back(q)) + 1
<1>1. CASE q = <<>>
  <2>1. Back(q) \in Seq(Nat) /\ Len(q) = 0
    BY <1>1, BackFacts
  <2>. QED
    BY <2>1
<1>2. CASE q # <<>>
  <2>. DEFINE n == Len(q)
              s == SubSeq(q, 1, n - 1)
              x == q[n]
  <2>1. /\ n \in Nat \ {0} /\ s \in Seq(Nat) /\ Len(s) = n - 1 /\ x \in Nat
        /\ \A i \in 1 .. n - 1 : s[i] = q[i] /\ i \in DOMAIN q /\ i # n
    <3>1. n \in Nat \ {0} /\ DOMAIN q = 1 .. n
      BY <1>2
    <3>2. x \in Nat /\ n - 1 \in Nat /\ n - 1 <= n
      BY <3>1
    <3>3. s \in Seq(Nat) /\ Len(s) = n - 1 /\ \A i \in 1 .. n - 1 : s[i] = q[i]
      BY <3>1, <3>2
    <3>4. \A i \in 1 .. n - 1 : i \in DOMAIN q /\ i # n
      <4>. HIDE DEF n
      <4>1. \A i \in 1 .. n - 1 : i \in 1 .. n /\ i # n
        BY <3>1
      <4>. QED
        BY <3>1, <4>1
    <3>. QED
      BY <3>1, <3>2, <3>3, <3>4
  <2>2. q = Append(s, x)
    <3>1. Append(s, x) \in Seq(Nat) /\ Len(Append(s, x)) = n
      BY <2>1
    <3>2. \A i \in 1 .. n : Append(s, x)[i] = q[i]
      BY <2>1
    <3>. QED
      BY <3>1, <3>2
  <2>3. \A i \in 1 .. Len(s) : s[i] \in Nat \ {DISCONNECT}
    BY <2>1
  <2>. HIDE DEF n, s, x
  <2>4. Back(s) = s
    <3>1. Only(s, Nat \ {DISCONNECT}) = s
      BY <2>1, <2>3, OnlyAll
    <3>. QED
      BY <3>1 DEF Back
  <2>5. Back(q) = s \/ Back(q) = Append(s, x)
    <3>1. s \in Seq(Nat) /\ x \in Nat
      BY <2>1
    <3>2. Back(Append(s, x)) = IF x = DISCONNECT THEN Back(s) ELSE Append(Back(s), x)
      BY <3>1, BackFacts
    <3>. QED
      BY <2>2, <2>4, <3>2
  <2>6. Len(Append(s, x)) = Len(s) + 1 /\ Len(s) \in Nat
    BY <2>1
  <2>7. Len(Back(q)) = Len(s) \/ Len(Back(q)) = Len(s) + 1
    BY <2>5, <2>6
  <2>8. n = Len(s) + 1
    BY <2>1
  <2>. QED
    BY <2>6, <2>7, <2>8 DEF n
<1>. QED
  BY <1>1, <1>2

LEMMA InvImpliesQueuesFit == ServiceInv => QueuesFit
<1>1. SUFFICES ASSUME ServiceInv, NEW c \in Clients
               PROVE  /\ Len(from_q[c]) <= NumPortFrames(c)
                      /\ Len(to_q[c]) <= NumPortFrames(c) + 1
                      /\ Len(queues[c]) <= NumFrames[LinkOf[c]]
  BY DEF QueuesFit
<1>2. /\ Typed /\ Life(c) /\ Counted(c) /\ Room(c) /\ Unserved(c) /\ Admitted(c)
  BY <1>1 DEF ServiceInv, Core, Accounts
<1>3. /\ from_q[c] \in Seq(Nat) /\ to_q[c] \in Seq(Nat) /\ queues[c] \in Seq(Nat)
      /\ GivenBack(c) \in Seq(Nat) /\ held[c] \in Nat /\ FramesOut(c) \in Nat
      /\ InCall(c) \in Seq(Nat) /\ PacketsOf(c) \in Seq(Nat) /\ FramesOf(c) \in Nat
  BY <1>2, TypedPieces
<1>4. NumPortFrames(c) \in Nat /\ NumFrames[LinkOf[c]] \in Nat /\ Reserved[c] \in Nat
  BY Assumptions
<1>. DEFINE f == Len(from_q[c])
            g == Len(GivenBack(c))
            q == Len(queues[c])
            t == Len(to_q[c])
            i == Len(InCall(c))
            p == Len(PacketsOf(c))
            h == held[c]
            n == NumPortFrames(c)
<1>5. f \in Nat /\ g \in Nat /\ q \in Nat /\ t \in Nat /\ i \in Nat /\ p \in Nat /\ h \in Nat /\ n \in Nat
  <2>1. f \in Nat /\ g \in Nat /\ q \in Nat /\ t \in Nat
    BY <1>3
  <2>2. i \in Nat /\ p \in Nat
    BY <1>3
  <2>. QED
    BY <1>3, <1>4, <2>1, <2>2
<1>6. FramesOut(c) = f + h + g /\ FramesOut(c) <= n
  BY <1>2 DEF Counted, FramesOut
<1>7. t <= g + 1
  <2>1. \A j \in DOMAIN to_q[c] : to_q[c][j] = DISCONNECT => j = Len(to_q[c])
    BY <1>2 DEF Life
  <2>2. GivenBack(c) = Back(to_q[c])
    BY DEF GivenBack, Back
  <2>. QED
    BY <1>3, <2>1, <2>2, ToQueueBound
<1>8. q <= NumFrames[LinkOf[c]]
  <2>1. CASE c \in SendClients
    <3>1. queues[c] = <<>>
      BY <1>2, <2>1, Assumptions DEF Room
    <3>. QED
      BY <1>4, <3>1
  <2>2. CASE c \in RecvClients /\ user[c] \in {"new", "connecting"}
    <3>1. queues[c] = <<>>
      BY <1>2, <2>2 DEF Unserved
    <3>. QED
      BY <1>4, <3>1
  <2>3. CASE c \in RecvClients /\ user[c] \in {"up", "closing", "gone"}
    <3>1. p + FramesOf(c) <= Reserved[c] /\ Reserved[c] <= NumFrames[LinkOf[c]]
      BY <1>2, <2>3 DEF Room, Admitted
    <3>2. FramesOf(c) = q + i + FramesOut(c)
      BY <2>3 DEF FramesOf
    <3>. HIDE DEF p, q, i
    <3>3. q <= Reserved[c]
      BY <1>3, <1>4, <1>5, <3>1, <3>2
    <3>4. q <= NumFrames[LinkOf[c]]
      BY <1>4, <1>5, <3>1, <3>3
    <3>. QED
      BY <3>4 DEF q
  <2>. QED
    BY <1>2, <2>1, <2>2, <2>3 DEF Typed, PortTypes, Clients
<1>. HIDE DEF f, g, h, t, n
<1>9. f <= n /\ t <= n + 1
  BY <1>5, <1>6, <1>7
<1>. QED
  BY <1>8, <1>9 DEF f, t, n, q

\* The queues between a client and the thread (client_port_impl_t), which push does
\* not check and whose oldest entry would be overwritten, have room for what is
\* pushed: all frames the client may use and the disconnect that follows them.
THEOREM QueuesNeverOverflow == Spec => []QueuesFit
  BY ServiceInvariance, InvImpliesQueuesFit, PTL

LEMMA InvImpliesFramesAccounted == ServiceInv => FramesAccounted
<1>1. SUFFICES ASSUME ServiceInv PROVE FramesAccounted
  OBVIOUS
<1>2. Typed /\ Pools /\ \A c \in Clients : in_use[c] = FramesOut(c)
  BY <1>1 DEF ServiceInv, Core, Accounts, Counted
<1>3. ToSet(clients.recv) \union ToSet(clients.send) \subseteq Clients
  <2>1. clients.recv \in Seq(RecvClients) /\ clients.send \in Seq(SendClients)
    BY <1>2 DEF Typed, ThreadTypes
  <2>2. ToSet(clients.recv) \subseteq RecvClients /\ ToSet(clients.send) \subseteq SendClients
    BY <2>1 DEF ToSet
  <2>. QED
    BY <2>2, Assumptions
<1>. QED
  BY <1>2, <1>3 DEF FramesAccounted, Pools

\* No frame of a receive link is lost or given twice (recv_link_base,
\* inline_recv_mux, _disconnect_recv_client): each is free, with the inline service
\* or in one of the places of one client, also while clients disconnect.
THEOREM FramesAreAccounted == Spec => []FramesAccounted
  BY ServiceInvariance, InvImpliesFramesAccounted, PTL

-----------------------------------------------------------------------------
(* What could be undefined *)

\* The links have the frames that their clients reserve of them, as make_recv_client
\* and make_send_client check when the client is made.
EnoughFrames == \A l \in Links : Sum(Reserved, ClientsOn(l)) <= NumFrames[l]

\* Receivers and senders do not receive from the same link.
LinksApart == \A c \in RecvClients, d \in SendClients : LinkOf[c] # LinkOf[d]

\* The first client of a link finds nothing reserved of it.
LEMMA AttachDefined ==
    ASSUME Core, Table, Request, requests # <<>>, crashed = "no",
           NEW l \in Links, Head(requests) = <<"attach", l>>, Attach(l)
    PROVE  crashed' = "no"
<1>1. ToAttach(l)
  <2>1. requests \in Seq(Requests) /\ requests # <<>>
    BY DEF Core, Typed, ThreadTypes
  <2>2. 1 \in DOMAIN requests /\ requests[1] = Head(requests)
    BY <2>1
  <2>. QED
    BY <2>2 DEF ToAttach
<1>2. \A c \in ClientsOn(l) : Reserves[c] = 0
  BY <1>1 DEF Table, Pending, ClientsOn, Reserves
<1>3. reserved[l] = 0
  BY <1>2, ClientsFinite, SumZero DEF Table, Reservations
<1>4. l \notin attached
  <2>1. \A k : ~ToDetach(k)
    <3>0. /\ 1 \in DOMAIN requests /\ requests[1] = <<"attach", l>>
          /\ Len(requests) \in Nat /\ DOMAIN requests = 1 .. Len(requests)
      <4>1. requests' = Tail(requests) /\ Typed
        BY DEF Core, Request
      <4>. QED
        BY <4>1, TailRequests
    <3>1. PICK i : i = 1 /\ i \in DOMAIN requests /\ requests[i] = <<"attach", l>>
      BY <3>0
    <3>2. requests[i][1] = "attach"
      BY <3>1
    <3>3. PICK c \in Clients : Len(requests) = 2 /\ requests[2] = <<"connect", c>>
      <4>1. i + 1 = Len(requests) /\ \E c \in Clients : requests[i + 1] = <<"connect", c>>
        BY <3>1, <3>2 DEF Table, RequestOrder
      <4>2. i + 1 = 2
        BY <3>1
      <4>. QED
        BY <4>1, <4>2, Zenon
    <3>4. DOMAIN requests = 1 .. 2
      BY <3>0, <3>3
    <3>5. \A j \in 1 .. 2 : j = 1 \/ j = 2
      OBVIOUS
    <3>6. \A j \in DOMAIN requests : requests[j][1] # "detach"
      BY <3>1, <3>2, <3>3, <3>4, <3>5
    <3>. QED
      BY <3>6 DEF ToDetach
  <2>. QED
    BY <1>1, <2>1 DEF Table, Attached
<1>. QED
  BY <1>3, <1>4 DEF Attach, AttachRecvLink

\* A link that is detached is attached.
LEMMA DetachDefined ==
    ASSUME Core, Table, Request, requests # <<>>, crashed = "no",
           NEW l \in Links, Head(requests) = <<"detach", l>>, Detach(l)
    PROVE  crashed' = "no"
<1>1. ToDetach(l)
  BY TailRequests DEF Core, Request, ToDetach
<1>. QED
  BY <1>1 DEF Table, Attached, Detach, DetachRecvLink

\* What a link's connected clients and one more reserve.
LEMMA OneMoreReserves ==
    ASSUME EnoughFrames, Reservations, NEW c \in Clients, c \notin connected
    PROVE  /\ reserved[LinkOf[c]] \in Int
           /\ reserved[LinkOf[c]] + Reserved[c] <= NumFrames[LinkOf[c]]
<1>. DEFINE S == ClientsOn(LinkOf[c])
            f == Reserves
            g == [d \in Clients |-> IF d = c THEN Reserved[c] ELSE Reserves[d]]
            r == Reserved
<1>1. LinkOf[c] \in Links /\ c \in S /\ IsFiniteSet(S) /\ S \subseteq Clients
  BY Assumptions, ClientsFinite DEF ClientsOn
<1>2. reserved[LinkOf[c]] = Sum(f, S) /\ Sum(r, S) <= NumFrames[LinkOf[c]]
  BY <1>1 DEF Reservations, EnoughFrames
<1>3. /\ \A d \in S : f[d] \in Int /\ g[d] \in Int /\ r[d] \in Int /\ g[d] <= r[d]
      /\ \A d \in S \ {c} : f[d] = g[d]
      /\ f[c] = 0 /\ g[c] = Reserved[c] /\ Reserved[c] \in Int
  <2>1. \A d \in Clients : Reserved[d] \in Nat /\ f[d] \in {0, Reserved[d]}
    BY Assumptions DEF Reserves
  <2>2. f[c] = 0 /\ g[c] = Reserved[c] /\ \A d \in Clients \ {c} : g[d] = f[d]
    BY DEF Reserves
  <2>. HIDE DEF f, g
  <2>3. \A d \in Clients : g[d] \in {0, Reserved[d]}
    BY <2>1, <2>2
  <2>4. \A d \in Clients : f[d] \in Int /\ g[d] \in Int /\ r[d] \in Int /\ g[d] <= r[d]
    BY <2>1, <2>3
  <2>. QED
    BY <1>1, <2>1, <2>2, <2>4
<1>4. NumFrames[LinkOf[c]] \in Int
  BY <1>1, Assumptions
<1>. HIDE DEF S, f, g, r
<1>5. Sum(f, S) \in Int /\ Sum(g, S) \in Int /\ Sum(g, S) = Sum(f, S) + g[c] - f[c]
  <2>1. \A d \in S : f[d] \in Int /\ g[d] \in Int
    BY <1>3
  <2>2. \A d \in S \ {c} : f[d] = g[d]
    BY <1>3
  <2>. QED
    BY <1>1, <2>1, <2>2, SumChange
<1>6. Sum(r, S) \in Int /\ Sum(g, S) <= Sum(r, S)
  <2>1. \A d \in S : g[d] \in Int /\ r[d] \in Int /\ g[d] <= r[d]
    BY <1>3
  <2>. QED
    BY <1>1, <2>1, SumBound
<1>7. Sum(g, S) = Sum(f, S) + Reserved[c]
  BY <1>3, <1>5
<1>. QED
  BY <1>2, <1>3, <1>4, <1>5, <1>6, <1>7

\* A client that is made finds its link attached and frames left to reserve.
LEMMA MakeClientDefined ==
    ASSUME EnoughFrames, Core, Table, Request, requests # <<>>, crashed = "no",
           NEW c \in Clients, Head(requests) = <<"connect", c>>, MakeClient(c)
    PROVE  crashed' = "no"
<1>1. /\ requests[1] = <<"connect", c>> /\ 1 \in DOMAIN requests
  <2>1. requests \in Seq(Requests) /\ requests # <<>>
    BY DEF Core, Typed, ThreadTypes
  <2>. QED
    BY <2>1
<1>2. Len(requests) = 1 /\ c \notin connected
  <2>1. requests[1][1] = "connect" /\ requests[1][2] = c
    BY <1>1
  <2>2. PICK i : i = 1 /\ i \in DOMAIN requests /\ requests[i][1] = "connect" /\ requests[i][2] = c
    BY <1>1, <2>1
  <2>. QED
    BY <2>2 DEF Table, RequestOrder
<1>3. DOMAIN requests = 1 .. 1
  BY <1>2 DEF Core, Typed, ThreadTypes
<1>4. ToConnect(c) /\ ~ToAttach(LinkOf[c])
  <2>1. requests[1] # <<"attach", LinkOf[c]>>
    BY <1>1
  <2>. QED
    BY <1>1, <1>3, <2>1 DEF ToConnect, ToAttach
<1>5. LinkOf[c] \in attached
  BY <1>4 DEF Table, Pending
<1>6. reserved[LinkOf[c]] \in Int /\ reserved[LinkOf[c]] + Reserved[c] <= NumFrames[LinkOf[c]]
  BY <1>2, OneMoreReserves DEF Table
<1>7. ~(reserved[LinkOf[c]] + Reserved[c] > NumFrames[LinkOf[c]])
  <2>1. Reserved[c] \in Int /\ NumFrames[LinkOf[c]] \in Int
    BY Assumptions
  <2>. QED
    BY <1>6, <2>1
<1>. QED
  BY <1>5, <1>7 DEF MakeClient, ConnectReceiver

LEMMA RequestDefined ==
    ASSUME EnoughFrames, Core, Table, crashed = "no", Request PROVE crashed' = "no"
<1>1. CASE requests = <<>>
  BY <1>1 DEF Request, inline
<1>2. CASE requests # <<>>
  <2>. DEFINE op == Head(requests)[1]
              whose == Head(requests)[2]
  <2>1. \/ op = "attach" /\ Attach(whose)
        \/ op = "detach" /\ Detach(whose)
        \/ op = "connect" /\ MakeClient(whose)
    BY <1>2 DEF Request
  <2>2. /\ Head(requests) = <<op, whose>>
        /\ op = "connect" => whose \in Clients
        /\ op \in {"attach", "detach"} => whose \in Links
    BY <1>2, RequestParts DEF Core
  <2>. HIDE DEF op, whose
  <2>. QED
    BY <1>2, <2>1, <2>2, AttachDefined, DetachDefined, MakeClientDefined
<1>. QED
  BY <1>1, <1>2

\* A client has no more frames than it reserves, and the one that a call is made
\* for fewer.
LEMMA FramesReserved ==
    ASSUME Core, Accounts, Table, call.state = "loop", NEW d \in Clients
    PROVE  /\ FramesOf(d) \in Nat /\ FramesOf(d) <= Reserves[d]
           /\ d = call.client => FramesOf(d) < Reserves[d]
<1>0. Typed /\ ~Erasing /\ alive = connected
  BY Caller DEF Core, Table, Alive, Typed, InlineTypes, PortTypes
<1>1. /\ from_q[d] \in Seq(Nat) /\ to_q[d] \in Seq(Nat) /\ queues[d] \in Seq(Nat)
      /\ GivenBack(d) \in Seq(Nat) /\ held[d] \in Nat /\ FramesOut(d) \in Nat
      /\ PacketsOf(d) \in Seq(Nat) /\ FramesOf(d) \in Nat /\ Reserved[d] \in Nat \ {0}
  BY <1>0, TypedPieces, Assumptions
<1>2. InCall(d) = <<>>
  BY DEF InCall
<1>3. Len(<<>>) = 0
  OBVIOUS
<1>4. CASE d \notin connected
  <2>1. from_q[d] = <<>> /\ to_q[d] = <<>> /\ held[d] = 0 /\ queues[d] = <<>>
    BY <1>0, <1>4 DEF Core, Life, Table, Queued
  <2>2. GivenBack(d) = <<>>
    BY <2>1, OnlyEmpty DEF GivenBack
  <2>3. FramesOut(d) = 0
    BY <1>3, <2>1, <2>2 DEF FramesOut
  <2>4. FramesOf(d) = 0
    BY <1>2, <1>3, <2>1, <2>3 DEF FramesOf
  <2>5. Reserves[d] = 0 /\ d # call.client
    BY <1>0, <1>4, Caller DEF Reserves
  <2>. QED
    BY <2>4, <2>5
<1>5. CASE d \in connected /\ d \in SendClients
  <2>1. queues[d] = <<>> /\ d \notin RecvClients
    BY <1>5, Assumptions DEF Accounts, Room
  <2>2. FramesOf(d) = 0
    BY <1>2, <1>3, <2>1 DEF FramesOf
  <2>. QED
    BY <1>1, <1>5, <2>2 DEF Reserves
<1>6. CASE d \in connected /\ d \in RecvClients
  <2>. DEFINE p == Len(PacketsOf(d))
              n == FramesOut(d)
              q == Len(queues[d])
  <2>1. p \in Nat /\ n \in Nat /\ q \in Nat
    BY <1>1
  <2>2. p + FramesOf(d) <= Reserved[d] /\ Reserves[d] = Reserved[d]
    BY <1>6 DEF Accounts, Room, Reserves
  <2>3. FramesOf(d) = q + n
    BY <1>2, <1>3, <1>6, <2>1 DEF FramesOf
  <2>4. d = call.client => n < Reserved[d] /\ q = 0
    <3>1. SUFFICES ASSUME d = call.client PROVE n < Reserved[d] /\ q = 0
      OBVIOUS
    <3>2. d = me /\ ((call.op = "recv" /\ MayGet(me)) \/ phase = "release_send")
      BY <3>1 DEF Core, Calling
    <3>3. phase # "release_send"
      BY <1>0, <1>6, <3>2, Mine, Assumptions DEF Core, Kind
    <3>4. in_use[d] < Reserved[d] /\ call.op = "recv"
      BY <1>6, <3>2, <3>3 DEF MayGet, NumPortFrames
    <3>5. queues[d] = <<>> /\ in_use[d] = n
      BY <3>1, <3>4 DEF Table, Queued, Accounts, Counted
    <3>. QED
      BY <3>4, <3>5, <1>3
  <2>. HIDE DEF p, n, q
  <2>. QED
    BY <1>1, <2>1, <2>2, <2>3, <2>4
<1>. QED
  BY <1>4, <1>5, <1>6 DEF Clients

\* The link whose packets a call reads has a frame for one.
LEMMA FrameLeft ==
    ASSUME Core, Accounts, Table, call.state = "loop"
    PROVE  free[LinkOf[call.client]] # 0
<1>1. PICK c : c = call.client /\ c \in Clients /\ LinkOf[c] \in Links
  BY Caller, Assumptions
<1>. DEFINE l == LinkOf[c]
            S == ClientsOn(l)
<1>2. c \in S /\ IsFiniteSet(S) /\ S \subseteq Clients
  BY <1>1, ClientsFinite DEF ClientsOn
<1>3. /\ free[l] \in Int /\ NumFrames[l] \in Int
      /\ Sum(Reserves, S) <= NumFrames[l] /\ free[l] + Sum(frames, S) = NumFrames[l]
  <2>1. free[l] \in Int /\ NumFrames[l] \in Int
    BY <1>1, Assumptions DEF Core, Typed, InlineTypes
  <2>2. Sum(Reserves, S) <= NumFrames[l]
    BY <1>1 DEF Table, Reservations
  <2>3. free[l] + Sum(frames, S) = NumFrames[l]
    BY <1>1 DEF Accounts, Pools
  <2>. QED
    BY <2>1, <2>2, <2>3
<1>4. \A d \in Clients : /\ frames[d] \in Int /\ Reserves[d] \in Int /\ frames[d] <= Reserves[d]
                         /\ d = c => frames[d] < Reserves[d]
  <2>1. \A d \in Clients : /\ FramesOf(d) \in Nat /\ FramesOf(d) <= Reserves[d]
                           /\ d = c => FramesOf(d) < Reserves[d]
    BY <1>1, FramesReserved
  <2>2. \A d \in Clients : frames[d] = FramesOf(d) /\ Reserves[d] \in Nat
    BY Assumptions DEF frames, Reserves
  <2>. QED
    BY <2>1, <2>2
<1>. HIDE DEF S, l
<1>5. Sum(Reserves, S) \in Int /\ Sum(frames, S) \in Int /\ Sum(frames, S) < Sum(Reserves, S)
  <2>1. \A d \in S : Reserves[d] \in Int /\ frames[d] \in Int /\ frames[d] <= Reserves[d]
    BY <1>2, <1>4
  <2>2. frames[c] < Reserves[c]
    BY <1>1, <1>4
  <2>. QED
    BY <1>2, <2>1, <2>2, SumLess
<1>6. free[l] # 0
  BY <1>3, <1>5
<1>. QED
  BY <1>1, <1>6 DEF l

LEMMA LoopDefined ==
    ASSUME LinksApart, Core, Accounts, Table, crashed = "no", InlineStep PROVE crashed' = "no"
<1>1. PICK l \in Links : LoopTimeout(l) \/ LoopPacket(l)
  BY DEF InlineStep
<1>2. call.state = "loop" /\ LinkOf[call.client] = l
  BY <1>1 DEF LoopTimeout, LoopPacket, Looping
<1>3. free[l] # 0
  BY <1>2, FrameLeft
<1>4. /\ call.client \in Clients /\ call.client \in alive
      /\ l \notin mux => rcvr[l] = call.client
  BY <1>2, Caller
<1>5. CASE LoopTimeout(l)
  BY <1>3, <1>5 DEF LoopTimeout
<1>6. CASE LoopPacket(l)
  <2>. DEFINE c == Head(net[l])[1]
  <2>1. net[l] # <<>> /\ net[l] \in Seq(Clients \X Nat)
    BY <1>6 DEF LoopPacket, Core, Typed, InlineTypes
  <2>2. c \in Clients /\ LinkOf[c] = l
    <3>1. Head(net[l]) = net[l][1] /\ 1 \in DOMAIN net[l] /\ Head(net[l]) \in Clients \X Nat
      BY <2>1
    <3>. QED
      BY <3>1 DEF Accounts, OwnLink
  <2>3. ~AsksTheDead(l, c)
    <3>1. CASE l \in mux
      <4>1. ToSet(callbacks[l]) \subseteq alive
        BY <3>1 DEF Table, Receivers
      <4>2. \A i \in DOMAIN callbacks[l] : callbacks[l][i] \in alive
        BY <4>1 DEF ToSet
      <4>. QED
        BY <3>1, <4>2 DEF AsksTheDead, Asked
    <3>2. CASE l \notin mux
      <4>1. Asked(l) = <<call.client>>
        BY <1>4, <3>2 DEF Asked
      <4>2. \A i \in DOMAIN <<call.client>> : <<call.client>>[i] = call.client
        OBVIOUS
      <4>. QED
        BY <1>4, <4>1, <4>2 DEF AsksTheDead
    <3>. QED
      BY <3>1, <3>2
  <2>4. ~AsksWithout(l, c)
    <3>1. SUFFICES ASSUME call.op = "fc", c \in RecvClients PROVE FALSE
      BY DEF AsksWithout
    <3>2. phase = "release_send" /\ call.client = me
      BY <1>2, <3>1 DEF Core, Calling
    <3>3. me \in SendClients
      BY <3>2, Mine DEF Core, Kind
    <3>. QED
      BY <1>2, <2>2, <3>1, <3>2, <3>3 DEF LinksApart
  <2>. HIDE DEF c
  <2>5. crashed' = crashed
    <3>. USE DEF c
    <3>. QED
      BY <1>3, <1>6, <2>3, <2>4 DEF LoopPacket
  <2>. QED
    BY <2>5
<1>. QED
  BY <1>1, <1>5, <1>6

\* The client that the thread serves or erases is in the inline service's table.
LEMMA MineKnown ==
    ASSUME Core, Table, phase # "request"
    PROVE  LinkOf[me] \in attached /\ HasQueue(me)
<1>1. me \in Clients /\ LinkOf[me] \in Links
  BY Mine DEF Core
<1>2. me \in alive
  BY <1>1, MineLives DEF Table, Alive
<1>3. LinkOf[me] \in attached
  BY <1>2 DEF Table, Attachments
<1>4. LinkOf[me] \in mux => me \in ToSet(callbacks[LinkOf[me]])
  BY <1>1, <1>2 DEF Table, Receivers
<1>. QED
  BY <1>3, <1>4 DEF HasQueue

LEMMA StaysDefined ==
    ASSUME EnoughFrames, LinksApart, ServiceInv, NoUndefined, [Next]_vars PROVE NoUndefined'
<1>1. Core /\ Accounts /\ Table /\ crashed = "no"
  BY DEF ServiceInv, NoUndefined
<1>2. CASE Request
  BY <1>1, <1>2, RequestDefined DEF NoUndefined
<1>3. CASE InlineStep
  BY <1>1, <1>3, LoopDefined DEF NoUndefined
<1>4. CASE ~Request /\ ~InlineStep
  <2>1. crashed' = crashed
    <3>1. CASE Thread
      <4>1. CASE GetRecvBuff
        BY <1>1, <4>1, MineKnown DEF GetRecvBuff, Turn, Recv, inline
      <4>2. CASE AwaitDest
        BY <1>1, <4>2, MineKnown DEF AwaitDest, Turn, RecvFlowCtrl
      <4>3. ASSUME NEW p \in {"release_recv", "release_send"}, Erase(p) PROVE crashed' = crashed
        <5>1. phase # "request" /\ DisconnectReceiver(me)
          BY <4>3 DEF Erase, Turn, EraseIn
        <5>. QED
          BY <1>1, <5>1, MineKnown DEF DisconnectReceiver
      <4>. QED
        BY <1>4, <3>1, <4>1, <4>2, <4>3 DEF Thread, GotRecvBuff, ReleaseRecvBuffs, GetSendBuff,
           ReleaseSendBuff, NoSend, Disconnect, HangUp, inline
    <3>2. CASE \E c \in Clients : User(c)
      BY <3>2 DEF User, Connect, Connected, Take, Give, Close, Closed, inline
    <3>3. CASE (\E c \in RecvClients : Arrive(c)) \/ \E c \in SendClients : Answer(c)
      BY <3>3 DEF Arrive, Answer
    <3>4. CASE UNCHANGED vars
      BY <3>4 DEF vars, inline
    <3>. QED
      BY <3>1, <3>2, <3>3, <3>4 DEF Next
  <2>. QED
    BY <1>1, <2>1 DEF NoUndefined
<1>. QED
  BY <1>2, <1>3, <1>4

\* Nothing undefined happens in the thread and nothing is thrown in it (recv calls
\* only receivers that live, reservations do not run out, a link is attached when
\* it is used and detached once), as long as the links have the frames that are
\* reserved of them and no receiver gets packets from a sender's link.
THEOREM NeverUndefined == ASSUME EnoughFrames, LinksApart PROVE Spec => []NoUndefined
<1>1. Init => NoUndefined
  BY DEF Init, InlineInit, NoUndefined
<1>2. ServiceInv /\ NoUndefined /\ [Next]_vars => NoUndefined'
  BY StaysDefined
<1>. QED
  BY <1>1, <1>2, ServiceInvariance, PTL DEF Spec

-----------------------------------------------------------------------------
(* A receiver's packets on their way: to its user, in the call, in the       *)
(* multiplexer, in the link                                                  *)

Cat(a, b) == a \o b
One(n) == <<n>>
Way(a, b, c, d) == Cat(Cat(Cat(a, b), c), d)

LEMMA CatTyped ==
    ASSUME NEW a \in Seq(Nat), NEW b \in Seq(Nat)
    PROVE  Cat(a, b) \in Seq(Nat)
  BY DEF Cat

LEMMA CatAssociates ==
    ASSUME NEW a \in Seq(Nat), NEW b \in Seq(Nat), NEW c \in Seq(Nat)
    PROVE  Cat(Cat(a, b), c) = Cat(a, Cat(b, c))
<1>. USE DEF Cat
<1>1. Len((a \o b) \o c) = Len(a) + Len(b) + Len(c) /\ Len(a \o (b \o c)) = Len(a) + Len(b) + Len(c)
  OBVIOUS
<1>2. (a \o b) \o c \in Seq(Nat) /\ a \o (b \o c) \in Seq(Nat)
  OBVIOUS
<1>3. \A i \in 1 .. Len(a) + Len(b) + Len(c) : ((a \o b) \o c)[i] = (a \o (b \o c))[i]
  OBVIOUS
<1>. QED
  BY <1>1, <1>2, <1>3

LEMMA CatEmpty == <<>> \in Seq(Nat) /\ \A a \in Seq(Nat) : Cat(a, <<>>) = a /\ Cat(<<>>, a) = a
  BY DEF Cat

LEMMA CatOne ==
    ASSUME NEW a \in Seq(Nat), NEW n \in Nat
    PROVE  Append(a, n) = Cat(a, One(n)) /\ One(n) \in Seq(Nat) /\ Append(a, n) \in Seq(Nat)
  BY DEF Cat, One

LEMMA CatFirst ==
    ASSUME NEW a \in Seq(Nat), a # <<>>
    PROVE  /\ a = Cat(One(Head(a)), Tail(a)) /\ Head(a) \in Nat /\ One(Head(a)) \in Seq(Nat)
           /\ Tail(a) \in Seq(Nat)
  BY DEF Cat, One

LEMMA CatHead ==
    ASSUME NEW a \in Seq(Nat), NEW n \in Nat
    PROVE  Head(Cat(One(n), a)) = n /\ Tail(Cat(One(n), a)) = a /\ Cat(One(n), a) # <<>>
  BY DEF Cat, One

LEMMA CatDrop ==
    ASSUME NEW a \in Seq(Nat), NEW b \in Seq(Nat)
    PROVE  /\ SubSeq(Cat(a, b), Len(a) + 1, Len(Cat(a, b))) = b
           /\ Len(Cat(a, b)) = Len(a) + Len(b)
<1>. DEFINE s == a \o b
            m == Len(a)
            n == Len(b)
            t == SubSeq(s, m + 1, m + n)
<1>1. /\ s \in Seq(Nat) /\ Len(s) = m + n /\ m \in Nat /\ n \in Nat
      /\ \A i \in 1 .. n : s[m + i] = b[i]
  OBVIOUS
<1>. HIDE DEF s, m, n
<1>2. t \in Seq(Nat) /\ Len(t) = n /\ \A i \in 1 .. n : t[i] = s[m + i]
  BY <1>1
<1>. HIDE DEF t
<1>3. \A i \in 1 .. n : t[i] = b[i]
  BY <1>1, <1>2
<1>4. t = b
  <2>1. b \in Seq(Nat) /\ Len(b) = n
    BY DEF n
  <2>. QED
    BY <1>2, <1>3, <2>1
<1>. QED
  BY <1>1, <1>4 DEF s, m, n, t, Cat

\* The steps that leave the way as it is: the call takes a packet from the
\* multiplexer or from the link, it returns, or it gives one to another receiver.
LEMMA WayKept ==
    ASSUME NEW a \in Seq(Nat), NEW c \in Seq(Nat), NEW d \in Seq(Nat), NEW n \in Nat
    PROVE  /\ c # <<>> => Way(a, <<>>, c, d) = Way(a, One(Head(c)), Tail(c), d)
           /\ Way(a, <<>>, <<>>, Cat(One(n), d)) = Way(a, One(n), <<>>, d)
           /\ Way(a, One(n), c, d) = Way(Append(a, n), <<>>, c, d)
           /\ Way(a, <<>>, c, Cat(One(n), d)) = Way(a, <<>>, Append(c, n), d)
<1>1. /\ Append(a, n) = Cat(a, One(n)) /\ Append(c, n) = Cat(c, One(n)) /\ One(n) \in Seq(Nat)
      /\ Cat(a, One(n)) \in Seq(Nat) /\ Cat(a, <<>>) = a /\ Cat(a, c) \in Seq(Nat)
  BY CatOne, CatTyped, CatEmpty
<1>2. ASSUME c # <<>> PROVE Way(a, <<>>, c, d) = Way(a, One(Head(c)), Tail(c), d)
  <2>. DEFINE h == One(Head(c))
              t == Tail(c)
  <2>1. h \in Seq(Nat) /\ t \in Seq(Nat) /\ c = Cat(h, t)
    BY <1>2, CatFirst
  <2>. HIDE DEF h, t
  <2>2. Cat(Cat(a, h), t) = Cat(a, Cat(h, t))
    BY <2>1, CatAssociates
  <2>3. Way(a, <<>>, c, d) = Way(a, h, t, d)
    BY <1>1, <2>1, <2>2 DEF Way
  <2>. QED
    BY <2>3 DEF h, t
<1>3. Way(a, <<>>, <<>>, Cat(One(n), d)) = Way(a, One(n), <<>>, d)
  <2>1. Cat(a, Cat(One(n), d)) = Cat(Cat(a, One(n)), d)
    BY <1>1, CatAssociates
  <2>2. Cat(Cat(a, One(n)), <<>>) = Cat(a, One(n))
    BY <1>1, CatEmpty
  <2>. QED
    BY <1>1, <2>1, <2>2 DEF Way
<1>4. Way(a, One(n), c, d) = Way(Append(a, n), <<>>, c, d)
  <2>1. Cat(Cat(a, One(n)), <<>>) = Cat(a, One(n))
    BY <1>1, CatEmpty
  <2>. QED
    BY <1>1, <2>1 DEF Way
<1>5. Way(a, <<>>, c, Cat(One(n), d)) = Way(a, <<>>, Append(c, n), d)
  <2>1. Cat(Cat(a, c), Cat(One(n), d)) = Cat(Cat(Cat(a, c), One(n)), d)
    BY <1>1, CatAssociates
  <2>2. Cat(Cat(a, c), One(n)) = Cat(a, Cat(c, One(n)))
    BY <1>1, CatAssociates
  <2>. QED
    BY <1>1, <2>1, <2>2 DEF Way
<1>. QED
  BY <1>2, <1>3, <1>4, <1>5

\* A packet enters at the link, and one leaves to the user.
LEMMA WayEnds ==
    ASSUME NEW a \in Seq(Nat), NEW b \in Seq(Nat), NEW c \in Seq(Nat), NEW d \in Seq(Nat),
           NEW n \in Nat
    PROVE  /\ Way(a, b, c, d) \in Seq(Nat)
           /\ Way(a, b, c, Append(d, n)) = Append(Way(a, b, c, d), n)
           /\ a # <<>> => /\ Way(a, b, c, d) # <<>>
                          /\ Head(Way(a, b, c, d)) = Head(a)
                          /\ Tail(Way(a, b, c, d)) = Way(Tail(a), b, c, d)
<1>. DEFINE w == Cat(Cat(a, b), c)
<1>1. w \in Seq(Nat) /\ Cat(w, d) \in Seq(Nat) /\ One(n) \in Seq(Nat)
  <2>1. Cat(a, b) \in Seq(Nat)
    BY CatTyped
  <2>2. w \in Seq(Nat)
    BY <2>1, CatTyped
  <2>. HIDE DEF w
  <2>. QED
    BY <2>2, CatTyped, CatOne
<1>2. Way(a, b, c, Append(d, n)) = Append(Way(a, b, c, d), n)
  <2>. HIDE DEF w
  <2>1. Append(d, n) = Cat(d, One(n)) /\ Append(Cat(w, d), n) = Cat(Cat(w, d), One(n))
    BY <1>1, CatOne
  <2>2. Cat(Cat(w, d), One(n)) = Cat(w, Cat(d, One(n)))
    BY <1>1, CatAssociates
  <2>. QED
    BY <2>1, <2>2 DEF Way, w
<1>3. ASSUME a # <<>>
      PROVE  /\ Way(a, b, c, d) # <<>> /\ Head(Way(a, b, c, d)) = Head(a)
             /\ Tail(Way(a, b, c, d)) = Way(Tail(a), b, c, d)
  <2>. DEFINE h == Head(a)
              t == Tail(a)
  <2>1. h \in Nat /\ t \in Seq(Nat) /\ a = Cat(One(h), t) /\ One(h) \in Seq(Nat)
    BY <1>3, CatFirst
  <2>. HIDE DEF h, t
  <2>2. Cat(a, b) = Cat(One(h), Cat(t, b)) /\ Cat(t, b) \in Seq(Nat)
    BY <2>1, CatAssociates, CatTyped
  <2>3. Cat(Cat(One(h), Cat(t, b)), c) = Cat(One(h), Cat(Cat(t, b), c)) /\ Cat(Cat(t, b), c) \in Seq(Nat)
    BY <2>1, <2>2, CatAssociates, CatTyped
  <2>4. /\ Cat(Cat(One(h), Cat(Cat(t, b), c)), d) = Cat(One(h), Cat(Cat(Cat(t, b), c), d))
        /\ Cat(Cat(Cat(t, b), c), d) \in Seq(Nat)
    BY <2>1, <2>3, CatAssociates, CatTyped
  <2>5. Way(a, b, c, d) = Cat(One(h), Way(t, b, c, d)) /\ Way(t, b, c, d) \in Seq(Nat)
    BY <2>2, <2>3, <2>4 DEF Way
  <2>6. /\ Way(a, b, c, d) # <<>> /\ Head(Way(a, b, c, d)) = h
        /\ Tail(Way(a, b, c, d)) = Way(t, b, c, d)
    <3>. DEFINE u == Way(t, b, c, d)
    <3>1. u \in Seq(Nat) /\ Way(a, b, c, d) = Cat(One(h), u)
      BY <2>5
    <3>. HIDE DEF u
    <3>2. Head(Cat(One(h), u)) = h /\ Tail(Cat(One(h), u)) = u /\ Cat(One(h), u) # <<>>
      BY <2>1, <3>1, CatHead
    <3>. QED
      BY <3>1, <3>2 DEF u
  <2>. QED
    BY <2>6 DEF h, t
<1>. QED
  BY <1>1, <1>2, <1>3 DEF Way

\* What is thrown away is at the front: a disconnect throws away what the user has
\* not taken, then what the multiplexer keeps; a packet in the link finds no receiver.
LEMMA WayDropped ==
    ASSUME NEW a \in Seq(Nat), NEW c \in Seq(Nat), NEW d \in Seq(Nat)
    PROVE  /\ Way(a, <<>>, c, d) = Cat(a, Way(<<>>, <<>>, c, d))
           /\ Way(<<>>, <<>>, c, d) = Cat(c, Way(<<>>, <<>>, <<>>, d))
           /\ Way(<<>>, <<>>, <<>>, d) = d
           /\ Way(<<>>, <<>>, c, d) \in Seq(Nat)
<1>1. /\ Cat(a, <<>>) = a /\ Cat(<<>>, c) = c /\ Cat(<<>>, d) = d /\ Cat(<<>>, <<>>) = <<>>
  BY CatEmpty
<1>2. Cat(Cat(a, c), d) = Cat(a, Cat(c, d)) /\ Cat(c, d) \in Seq(Nat)
  BY CatAssociates, CatTyped
<1>. QED
  BY <1>1, <1>2 DEF Way

-----------------------------------------------------------------------------
(* Each client has a channel of its own *)

Opened == {c \in RecvClients : user[c] = "up"}

LEMMA Channels ==
    \A c \in Clients :
        /\ c \in SendClients => channel[c] = Back(to_q[c]) /\ channel'[c] = Back(to_q'[c])
        /\ c \in RecvClients =>
              /\ channel[c] = Way(from_q[c], InCall(c), queues[c], PacketsOf(c))
              /\ channel'[c] = Way(from_q'[c], InCall(c)', queues'[c], PacketsOf(c)')
  BY Assumptions DEF channel, GivenBack, Back, Way, Cat

\* A client whose channel holds what it held.
Flows(d) ==
    /\ d \in SendClients => to_q'[d] = to_q[d] \/ Back(to_q'[d]) = Back(to_q[d])
    /\ d \in RecvClients => /\ from_q'[d] = from_q[d] /\ InCall(d)' = InCall(d)
                            /\ queues'[d] = queues[d] /\ PacketsOf(d)' = PacketsOf(d)

LEMMA FlowsOn == ASSUME NEW d \in Clients, Flows(d) PROVE channel'[d] = channel[d]
<1>1. CASE d \in SendClients
  BY <1>1, Channels DEF Flows
<1>2. CASE d \in RecvClients
  BY <1>2, Channels DEF Flows
<1>. QED
  BY <1>1, <1>2 DEF Clients

LEMMA ChannelFunction ==
    /\ channel = [d \in Clients |-> channel[d]] /\ channel' = [d \in Clients |-> channel'[d]]
    /\ DOMAIN channel = Clients /\ Opened \subseteq RecvClients /\ Opened' \subseteq RecvClients
  BY DEF channel, Opened

\* Nothing enters or leaves a channel.
LEMMA Quiet ==
    ASSUME \A d \in Clients : channel'[d] = channel[d], UNCHANGED <<accepted, last>>
    PROVE  Promise!Next
<1>1. channel' = channel
  BY ChannelFunction
<1>. QED
  BY <1>1, ChannelFunction DEF Promise!Next, Promise!OpenOrClose, Opened

\* A packet enters a channel, and one leaves it.
LEMMA PacketEnters ==
    ASSUME NEW c \in Clients, \A d \in Clients \ {c} : channel'[d] = channel[d],
           channel'[c] = Append(channel[c], accepted[c] + 1),
           accepted' = [accepted EXCEPT ![c] = @ + 1], UNCHANGED <<last, user>>
    PROVE  Promise!Next
<1>1. channel' = [channel EXCEPT ![c] = Append(@, accepted[c] + 1)]
  BY ChannelFunction
<1>2. Opened' = Opened
  BY DEF Opened
<1>. QED
  BY <1>1, <1>2 DEF Promise!Next, Promise!Accept, Opened, Clients

LEMMA PacketLeaves ==
    ASSUME NEW c \in Clients, \A d \in Clients \ {c} : channel'[d] = channel[d],
           c \in SendClients \/ c \in Opened, channel[c] # <<>>,
           channel'[c] = Tail(channel[c]), last' = [last EXCEPT ![c] = Head(channel[c])],
           UNCHANGED <<accepted, user>>
    PROVE  Promise!Next
<1>1. channel' = [channel EXCEPT ![c] = Tail(@)]
  BY ChannelFunction
<1>2. Opened' = Opened
  BY DEF Opened
<1>. QED
  BY <1>1, <1>2 DEF Promise!Next, Promise!Deliver, Opened, Clients

\* A disconnected receiver loses what its channel begins with, or nothing.
LEMMA PacketsDrop ==
    ASSUME NEW c \in RecvClients, \A d \in Clients \ {c} : channel'[d] = channel[d],
           c \notin Opened, UNCHANGED <<accepted, last, user>>,
           NEW gone \in Seq(Nat), NEW rest \in Seq(Nat),
           channel[c] = Cat(gone, rest), channel'[c] = rest
    PROVE  Promise!Next
<1>1. c \in Clients /\ Opened' = Opened
  BY Assumptions DEF Opened
<1>2. CASE gone = <<>>
  <2>1. channel'[c] = channel[c]
    BY <1>2, CatEmpty
  <2>. QED
    BY <2>1, Quiet
<1>3. CASE gone # <<>>
  <2>. DEFINE n == Len(gone)
  <2>1. n \in Nat \ {0} /\ Len(channel[c]) = n + Len(rest) /\ Len(rest) \in Nat
    BY <1>3, CatDrop
  <2>2. rest = SubSeq(channel[c], n + 1, Len(channel[c]))
    BY CatDrop
  <2>. HIDE DEF n
  <2>3. n \in 1 .. Len(channel[c])
    BY <2>1
  <2>4. channel' = [channel EXCEPT ![c] = SubSeq(@, n + 1, Len(@))]
    BY <1>1, <2>2, ChannelFunction
  <2>. QED
    BY <1>1, <2>3, <2>4 DEF Promise!Next, Promise!Discard, Opened
<1>. QED
  BY <1>2, <1>3

\* Each step of the thread, of a user and of a link is a step of the promise.
LEMMA ReceiveRefines ==
    ASSUME Core, GetRecvBuff \/ GotRecvBuff \/ ReleaseRecvBuffs PROVE Promise!Next
<1>1. /\ Typed /\ TurnOfOne /\ phase \in {"get_recv", "release_recv"}
      /\ UNCHANGED <<net, accepted, last, user>>
      /\ \A d : PacketsOf(d)' = PacketsOf(d)
  <2>1. Recv(me) => net' = net
    BY RecvSteps
  <2>. QED
    BY <2>1 DEF Core, GetRecvBuff, GotRecvBuff, ReleaseRecvBuffs, HangUp, Turn, users, inline, PacketsOf
<1>2. PICK c : c = me /\ c \in Clients /\ c \in RecvClients /\ c \notin SendClients
  BY <1>1, Mine, Assumptions DEF Kind
<1>3. /\ from_q[c] \in Seq(Nat) /\ queues[c] \in Seq(Nat) /\ PacketsOf(c) \in Seq(Nat)
      /\ from_q \in [Clients -> Seq(Nat)] /\ queues \in [Clients -> Seq(Nat)]
      /\ to_q \in [Clients -> Seq(Nat)] /\ call.packet \in Nat
  BY <1>1, <1>2, TypedPieces DEF Typed, PortTypes, InlineTypes
<1>4. CASE \A d \in Clients : Flows(d)
  BY <1>1, <1>4, FlowsOn, Quiet
<1>5. CASE GetRecvBuff /\ ~MayGet(me)
  <2>1. \A d \in Clients : Flows(d)
    BY <1>5 DEF GetRecvBuff, Flows, inline, port, InCall, PacketsOf
  <2>. QED
    BY <1>4, <2>1
<1>6. CASE GetRecvBuff /\ MayGet(me)
  <2>1. /\ UNCHANGED <<from_q, to_q>> /\ \A d \in Clients : InCall(d) = <<>>
        /\ Recv(c) /\ call = Idle
    BY <1>2, <1>6, NotInCall DEF GetRecvBuff, port, Idle
  <2>2. CASE ~HasQueued(c) \/ call' = call
    <3>1. queues' = queues /\ \A d \in Clients : InCall(d)' = <<>>
      <4>1. queues' = queues /\ (call' = Idle \/ call'.state = "loop")
        BY <2>1, <2>2, RecvSteps DEF Idle
      <4>. QED
        BY <4>1, NotInCall
    <3>2. \A d \in Clients : Flows(d)
      BY <1>1, <2>1, <3>1 DEF Flows
    <3>. QED
      BY <1>4, <3>2
  <2>3. CASE HasQueued(c) /\ call' # call
    <3>1. /\ queues' = [queues EXCEPT ![c] = Tail(@)] /\ queues[c] # <<>>
          /\ InCall(c)' = One(Head(queues[c])) /\ \A d \in Clients \ {c} : InCall(d)' = <<>>
      BY <2>1, <2>3, RecvSteps DEF InCall, One, HasQueued
    <3>2. queues'[c] = Tail(queues[c]) /\ \A d \in Clients \ {c} : queues'[d] = queues[d]
      BY <1>2, <1>3, <3>1
    <3>3. \A d \in Clients \ {c} : Flows(d)
      BY <1>1, <2>1, <3>1, <3>2 DEF Flows
    <3>4. channel'[c] = Way(from_q[c], One(Head(queues[c])), Tail(queues[c]), PacketsOf(c))
          /\ channel[c] = Way(from_q[c], <<>>, queues[c], PacketsOf(c))
      BY <1>1, <1>2, <2>1, <3>1, <3>2, Channels
    <3>5. channel'[c] = channel[c]
      <4>1. \A n \in Nat : Way(from_q[c], <<>>, queues[c], PacketsOf(c)) =
                 Way(from_q[c], One(Head(queues[c])), Tail(queues[c]), PacketsOf(c))
        BY <1>3, <3>1, WayKept
      <4>. QED
        BY <3>4, <4>1
    <3>6. \A d \in Clients : channel'[d] = channel[d]
      BY <3>3, <3>5, FlowsOn
    <3>. QED
      BY <1>1, <3>6, Quiet
  <2>. QED
    BY <2>2, <2>3
<1>7. CASE GotRecvBuff
  <2>1. UNCHANGED <<queues, to_q>> /\ \A d \in Clients : InCall(d)' = <<>>
    BY <1>7 DEF GotRecvBuff, HangUp, Idle, InCall
  <2>2. CASE call.state = "done"
    <3>1. call.op = "recv" /\ call.client = c
      BY <1>2, <1>7, <2>2 DEF GotRecvBuff, Turn, Core, Calling
    <3>2. InCall(c) = One(call.packet) /\ \A d \in Clients \ {c} : InCall(d) = <<>>
      BY <2>2, <3>1 DEF InCall, One
    <3>3. from_q'[c] = Append(from_q[c], call.packet)
          /\ \A d \in Clients \ {c} : from_q'[d] = from_q[d]
      BY <1>2, <1>3, <1>7, <2>2 DEF GotRecvBuff
    <3>4. \A d \in Clients \ {c} : Flows(d)
      BY <1>1, <2>1, <3>2, <3>3 DEF Flows
    <3>5. channel'[c] = Way(Append(from_q[c], call.packet), <<>>, queues[c], PacketsOf(c))
          /\ channel[c] = Way(from_q[c], One(call.packet), queues[c], PacketsOf(c))
      BY <1>1, <1>2, <2>1, <3>2, <3>3, Channels
    <3>6. channel'[c] = channel[c]
      <4>1. Way(from_q[c], One(call.packet), queues[c], PacketsOf(c)) =
               Way(Append(from_q[c], call.packet), <<>>, queues[c], PacketsOf(c))
        BY <1>3, WayKept
      <4>. QED
        BY <3>5, <4>1
    <3>7. \A d \in Clients : channel'[d] = channel[d]
      BY <3>4, <3>6, FlowsOn
    <3>. QED
      BY <1>1, <3>7, Quiet
  <2>3. CASE call.state # "done"
    <3>1. from_q' = from_q /\ \A d \in Clients : InCall(d) = <<>>
      BY <1>7, <2>3 DEF GotRecvBuff, InCall
    <3>2. \A d \in Clients : Flows(d)
      BY <1>1, <2>1, <3>1 DEF Flows
    <3>. QED
      BY <1>4, <3>2
  <2>. QED
    BY <2>2, <2>3
<1>8. CASE ReleaseRecvBuffs
  <2>1. UNCHANGED <<from_q, queues, call>> /\ \A d \in Clients \ {c} : to_q'[d] = to_q[d]
    BY <1>2, <1>3, <1>8 DEF ReleaseRecvBuffs, PopTo
  <2>2. \A d \in Clients : Flows(d)
    BY <1>1, <1>2, <2>1 DEF Flows, InCall
  <2>. QED
    BY <1>4, <2>2
<1>. QED
  BY <1>5, <1>6, <1>7, <1>8

LEMMA SendRefines ==
    ASSUME Core, GetSendBuff \/ AwaitDest \/ ReleaseSendBuff \/ NoSend PROVE Promise!Next
<1>1. /\ Typed /\ TurnOfOne /\ phase \in {"get_send", "release_send"}
      /\ UNCHANGED <<net, queues, accepted, user>>
      /\ \A d : PacketsOf(d)' = PacketsOf(d)
  <2>1. AwaitDest => UNCHANGED <<net, queues>>
    BY RecvFlowCtrlSteps DEF AwaitDest
  <2>. QED
    BY <2>1 DEF Core, GetSendBuff, AwaitDest, ReleaseSendBuff, NoSend, HangUp, Turn, users, inline,
       PacketsOf
<1>2. PICK c : c = me /\ c \in Clients /\ c \in SendClients /\ c \notin RecvClients
  BY <1>1, Mine, Assumptions DEF Kind
<1>3. \A d \in Clients : InCall(d) = <<>> /\ InCall(d)' = <<>>
  <2>1. call.op # "recv" \/ call.state # "done"
    BY <1>1 DEF Core, Calling
  <2>2. call' = call \/ call'.state # "done" \/ call'.op # "recv"
    <3>1. AwaitDest => call' = call \/ call'.op = "fc"
      BY RecvFlowCtrlSteps DEF AwaitDest
    <3>. QED
      BY <3>1 DEF GetSendBuff, ReleaseSendBuff, NoSend, HangUp, inline, Idle
  <2>. QED
    BY <2>1, <2>2 DEF InCall
<1>4. /\ to_q[c] \in Seq(Nat) /\ from_q \in [Clients -> Seq(Nat)] /\ to_q \in [Clients -> Seq(Nat)]
  BY <1>1, <1>2 DEF Typed, PortTypes
<1>5. CASE ~ReleaseSendBuff
  <2>1. /\ to_q' = to_q /\ last' = last /\ \A d \in Clients \ {c} : from_q'[d] = from_q[d]
    BY <1>2, <1>4, <1>5 DEF GetSendBuff, AwaitDest, NoSend, port, users
  <2>2. \A d \in Clients : Flows(d)
    BY <1>1, <1>2, <1>3, <2>1 DEF Flows
  <2>. QED
    BY <1>1, <2>1, <2>2, FlowsOn, Quiet
<1>6. CASE ReleaseSendBuff
  <2>1. /\ to_q[c] # <<>> /\ Head(to_q[c]) # DISCONNECT /\ from_q' = from_q
        /\ last' = [last EXCEPT ![c] = Head(to_q[c])]
        /\ to_q'[c] = Tail(to_q[c]) /\ \A d \in Clients \ {c} : to_q'[d] = to_q[d]
    BY <1>2, <1>4, <1>6 DEF ReleaseSendBuff, FrameNext, PopTo
  <2>2. \A d \in Clients \ {c} : Flows(d)
    BY <1>1, <1>3, <2>1 DEF Flows
  <2>3. channel[c] = Back(to_q[c]) /\ channel'[c] = Back(Tail(to_q[c]))
    BY <1>2, <2>1, Channels
  <2>4. /\ channel[c] # <<>> /\ Head(channel[c]) = Head(to_q[c]) /\ channel'[c] = Tail(channel[c])
    BY <1>4, <2>1, <2>3, BackFacts
  <2>5. \A d \in Clients \ {c} : channel'[d] = channel[d]
    BY <2>2, FlowsOn
  <2>. QED
    BY <1>1, <1>2, <2>1, <2>4, <2>5, PacketLeaves
<1>. QED
  BY <1>5, <1>6

\* A disconnect throws away packets of a receiver whose user is in its destructor.
LEMMA DisconnectRefines ==
    ASSUME Core, Typed', TurnOfOne', NEW p \in {"release_recv", "release_send"}, Disconnect(p)
    PROVE  Promise!Next
<1>1. /\ Typed /\ TurnOfOne /\ phase = p /\ call = Idle /\ user[me] = "closing"
      /\ to_q[me] = <<DISCONNECT>> /\ to_q'[me] = <<>> /\ from_q'[me] = <<>>
  BY DisconnectCore DEF Core
<1>2. PICK c : c = me /\ c \in Clients
  BY <1>1, Mine
<1>3. /\ UNCHANGED <<net, queues, call, accepted, last, user>>
      /\ \A d : PacketsOf(d)' = PacketsOf(d)
      /\ \A d \in Clients \ {c} : to_q'[d] = to_q[d] /\ from_q'[d] = from_q[d]
  BY <1>1, <1>2 DEF Disconnect, PopTo, users, PacketsOf, Typed, PortTypes
<1>4. \A d \in Clients : InCall(d) = <<>> /\ InCall(d)' = <<>>
  BY <1>1, <1>3 DEF InCall, Idle
<1>5. \A d \in Clients \ {c} : Flows(d)
  BY <1>3, <1>4 DEF Flows
<1>6. \A d \in Clients \ {c} : channel'[d] = channel[d]
  BY <1>5, FlowsOn
<1>7. CASE c \in SendClients
  <2>1. to_q'[c] = <<>> /\ to_q[c] = <<DISCONNECT>>
    BY <1>1, <1>2
  <2>2. Back(<<>>) = <<>> /\ Back(<<DISCONNECT>>) = <<>>
    <3>1. <<>> \in Seq(Nat)
      OBVIOUS
    <3>. QED
      BY <3>1, BackFacts
  <2>3. channel'[c] = channel[c]
    BY <1>2, <1>7, <2>1, <2>2, Channels
  <2>. QED
    BY <1>3, <1>6, <2>3, Quiet
<1>8. CASE c \in RecvClients
  <2>1. from_q[c] \in Seq(Nat) /\ queues[c] \in Seq(Nat) /\ PacketsOf(c) \in Seq(Nat)
    BY <1>1, <1>2, TypedPieces
  <2>2. /\ from_q'[c] = <<>> /\ c \notin Opened
    BY <1>1, <1>2 DEF Disconnect, Opened, Typed, PortTypes
  <2>. DEFINE rest == Way(<<>>, <<>>, queues[c], PacketsOf(c))
              gone == from_q[c]
  <2>3. channel'[c] = rest /\ channel[c] = Way(gone, <<>>, queues[c], PacketsOf(c))
    BY <1>2, <1>3, <1>4, <1>8, <2>2, Channels
  <2>4. rest \in Seq(Nat) /\ channel[c] = Cat(gone, rest) /\ gone \in Seq(Nat)
    BY <2>1, <2>3, WayDropped
  <2>. HIDE DEF rest, gone
  <2>. QED
    BY <1>3, <1>6, <1>8, <2>2, <2>3, <2>4, PacketsDrop
<1>. QED
  BY <1>2, <1>7, <1>8 DEF Clients

LEMMA EraseRefines ==
    ASSUME Core, Typed', TurnOfOne', NEW p \in {"release_recv", "release_send"}, Erase(p)
    PROVE  Promise!Next
<1>1. /\ Typed /\ TurnOfOne /\ Erasing /\ me \in Clients /\ me \notin connected /\ call = Idle
  BY EraseCore DEF Core
<1>2. PICK c : c = me /\ c \in Clients
  BY <1>1
<1>3. /\ UNCHANGED <<net, call, accepted, last, user, from_q, to_q>>
      /\ \A d : PacketsOf(d)' = PacketsOf(d)
      /\ queues' = queues \/ queues' = [queues EXCEPT ![c] = <<>>]
  <2>1. DisconnectReceiver(c)
    BY <1>2 DEF Erase
  <2>2. UNCHANGED <<net, call>> /\ (queues' = queues \/ queues' = [queues EXCEPT ![c] = <<>>])
    BY <2>1, DisconnectSteps
  <2>. QED
    BY <2>2 DEF Erase, users, port, PacketsOf
<1>4. /\ \A d \in Clients : InCall(d) = <<>> /\ InCall(d)' = <<>>
      /\ \A d \in Clients \ {c} : queues'[d] = queues[d]
  BY <1>1, <1>3 DEF InCall, Idle, Typed, InlineTypes
<1>5. \A d \in Clients \ {c} : channel'[d] = channel[d]
  BY <1>3, <1>4, FlowsOn DEF Flows
<1>6. CASE queues'[c] = queues[c] \/ c \in SendClients
  <2>1. Flows(c)
    BY <1>3, <1>4, <1>6, Assumptions DEF Flows
  <2>2. channel'[c] = channel[c]
    BY <1>2, <2>1, FlowsOn
  <2>. QED
    BY <1>3, <1>5, <2>2, Quiet
<1>7. CASE c \in RecvClients /\ queues'[c] # queues[c]
  <2>1. queues[c] \in Seq(Nat) /\ PacketsOf(c) \in Seq(Nat)
    BY <1>1, <1>2, TypedPieces
  <2>2. queues'[c] = <<>> /\ from_q[c] = <<>> /\ c \notin Opened
    <3>1. queues'[c] = <<>>
      BY <1>2, <1>3, <1>7 DEF Core, Typed, InlineTypes
    <3>2. Life(c) /\ c \notin connected
      BY <1>1, <1>2 DEF Core
    <3>. QED
      BY <3>1, <3>2 DEF Life, Opened
  <2>. DEFINE rest == Way(<<>>, <<>>, <<>>, PacketsOf(c))
              gone == queues[c]
  <2>3. channel'[c] = rest /\ channel[c] = Way(<<>>, <<>>, gone, PacketsOf(c))
    BY <1>2, <1>3, <1>4, <1>7, <2>2, Channels
  <2>4. rest \in Seq(Nat) /\ channel[c] = Cat(gone, rest) /\ gone \in Seq(Nat)
    <3>1. <<>> \in Seq(Nat)
      OBVIOUS
    <3>. QED
      BY <2>1, <2>3, <3>1, WayDropped
  <2>. HIDE DEF rest, gone
  <2>. QED
    BY <1>3, <1>5, <1>7, <2>2, <2>3, <2>4, PacketsDrop
<1>. QED
  BY <1>2, <1>6, <1>7 DEF Clients

\* A packet that the link has goes to the call, to the multiplexer or nowhere.
LEMMA LoopRefines ==
    ASSUME Core, Accounts, Table, InlineStep, UNCHANGED <<port, thread, requests, users>>
    PROVE  Promise!Next
<1>1. /\ Typed /\ UNCHANGED <<from_q, to_q, accepted, last, user>>
  BY DEF Core, port, users
<1>2. PICK l \in Links : LoopTimeout(l) \/ LoopPacket(l)
  BY DEF InlineStep
<1>3. call.state = "loop" /\ LinkOf[call.client] = l /\ \A d \in Clients : InCall(d) = <<>>
  BY <1>2, NotInCall DEF LoopTimeout, LoopPacket, Looping
<1>4. /\ call.client \in Clients /\ call.client \in alive /\ ~Erasing
      /\ l \notin mux => rcvr[l] = call.client
  BY <1>3, Caller
<1>5. CASE UNCHANGED <<net, queues>> /\ \A d \in Clients : InCall(d)' = <<>>
  <2>1. \A d \in Clients : Flows(d)
    BY <1>1, <1>3, <1>5 DEF Flows, PacketsOf
  <2>. QED
    BY <1>1, <2>1, FlowsOn, Quiet
<1>6. CASE LoopTimeout(l)
  <2>1. UNCHANGED <<net, queues>>
    BY <1>6 DEF LoopTimeout, Crash
  <2>2. \A d \in Clients : InCall(d)' = <<>>
    BY <1>3, <1>6, NotInCall DEF LoopTimeout, Crash, Returns, Calls
  <2>. QED
    BY <1>5, <2>1, <2>2
<1>7. CASE LoopPacket(l) /\ \E what : Crash(what)
  <2>1. UNCHANGED <<net, queues, call>>
    BY <1>7 DEF Crash
  <2>2. \A d \in Clients : InCall(d)' = <<>>
    BY <1>3, <2>1 DEF InCall
  <2>. QED
    BY <1>5, <2>1, <2>2
<1>8. CASE LoopPacket(l) /\ ~\E what : Crash(what)
  <2>1. PICK c, n : c = Head(net[l])[1] /\ n = Head(net[l])[2]
    OBVIOUS
  <2>2. /\ Takes(l, c, n)
        /\ \/ c = call.client /\ c \in RecvClients /\ Returns("done", n) /\ queues' = queues
           \/ /\ c \in SendClients /\ queues' = queues
              /\ (call.op = "fc" /\ Returns("done", 0)) \/ UNCHANGED call
           \/ /\ c # call.client /\ c \in RecvClients
              /\ queues' = [queues EXCEPT ![c] = Append(@, n)] /\ UNCHANGED call
           \/ ~Found(l, c) /\ UNCHANGED <<queues, call>>
    BY <1>8, <2>1 DEF LoopPacket, Takes
  <2>3. /\ c \in Clients /\ LinkOf[c] = l /\ n \in Nat
        /\ PacketsOf(c) = Cat(One(n), PacketsOf(c)') /\ PacketsOf(c)' \in Seq(Nat)
        /\ \A d \in Clients \ {c} : PacketsOf(d)' = PacketsOf(d)
    <3>1. OwnLink
      BY DEF Accounts
    <3>. QED
      BY <1>1, <2>2, <3>1, Taken DEF Cat, One
  <2>4. /\ queues \in [Clients -> Seq(Nat)] /\ queues[c] \in Seq(Nat) /\ from_q[c] \in Seq(Nat)
    BY <1>1, <2>3 DEF Typed, InlineTypes, PortTypes
  <2>5. ASSUME c \in RecvClients, queues[c] = <<>>, queues' = queues, InCall(c)' = One(n),
               \A d \in Clients \ {c} : InCall(d)' = <<>>
        PROVE  Promise!Next
    <3>1. /\ channel[c] = Way(from_q[c], <<>>, <<>>, Cat(One(n), PacketsOf(c)'))
          /\ channel'[c] = Way(from_q[c], One(n), <<>>, PacketsOf(c)')
      BY <1>1, <1>3, <2>3, <2>5, Channels
    <3>2. channel'[c] = channel[c]
      <4>1. <<>> \in Seq(Nat)
        OBVIOUS
      <4>. QED
        BY <2>3, <2>4, <3>1, <4>1, WayKept
    <3>3. \A d \in Clients \ {c} : channel'[d] = channel[d]
      BY <1>1, <1>3, <2>3, <2>5, FlowsOn DEF Flows
    <3>. QED
      BY <1>1, <3>2, <3>3, Quiet
  <2>6. CASE c = call.client /\ c \in RecvClients /\ Returns("done", n) /\ queues' = queues
    <3>1. call.op = "recv"
      <4>1. call.op = "recv" \/ (phase = "release_send" /\ call.client = me)
        BY <1>3 DEF Core, Calling
      <4>2. phase = "release_send" => me \in SendClients
        BY Mine DEF Core, Kind
      <4>. QED
        BY <2>3, <2>6, <4>1, <4>2, Assumptions
    <3>2. queues[c] = <<>>
      BY <1>3, <2>6, <3>1 DEF Table, Queued
    <3>3. InCall(c)' = One(n) /\ \A d \in Clients \ {c} : InCall(d)' = <<>>
      BY <2>6, <3>1 DEF Returns, Calls, InCall, One
    <3>. QED
      BY <2>5, <2>6, <3>2, <3>3
  <2>7. CASE /\ c \in SendClients /\ queues' = queues
             /\ (call.op = "fc" /\ Returns("done", 0)) \/ UNCHANGED call
    <3>1. \A d \in Clients : InCall(d)' = <<>>
      BY <1>3, <2>7, NotInCall DEF Returns, Calls, InCall
    <3>2. \A d \in Clients : Flows(d)
      BY <1>1, <1>3, <2>3, <2>7, <3>1, Assumptions DEF Flows
    <3>. QED
      BY <1>1, <3>2, FlowsOn, Quiet
  <2>8. CASE /\ c # call.client /\ c \in RecvClients
             /\ queues' = [queues EXCEPT ![c] = Append(@, n)] /\ UNCHANGED call
    <3>1. /\ queues'[c] = Append(queues[c], n) /\ \A d \in Clients \ {c} : queues'[d] = queues[d]
          /\ \A d \in Clients : InCall(d)' = <<>>
      BY <1>3, <2>3, <2>4, <2>8 DEF InCall
    <3>2. /\ channel[c] = Way(from_q[c], <<>>, queues[c], Cat(One(n), PacketsOf(c)'))
          /\ channel'[c] = Way(from_q[c], <<>>, Append(queues[c], n), PacketsOf(c)')
      BY <1>1, <1>3, <2>3, <2>8, <3>1, Channels
    <3>3. channel'[c] = channel[c]
      BY <2>3, <2>4, <3>2, WayKept
    <3>4. \A d \in Clients \ {c} : channel'[d] = channel[d]
      BY <1>1, <1>3, <2>3, <3>1, FlowsOn DEF Flows
    <3>. QED
      BY <1>1, <3>3, <3>4, Quiet
  <2>9. CASE ~Found(l, c) /\ UNCHANGED <<queues, call>>
    <3>1. \A d \in Clients : InCall(d)' = <<>>
      BY <1>3, <2>9 DEF InCall
    <3>2. \A d \in Clients \ {c} : channel'[d] = channel[d]
      BY <1>1, <1>3, <2>3, <2>9, <3>1, FlowsOn DEF Flows
    <3>3. CASE c \in SendClients
      <4>1. channel'[c] = channel[c]
        BY <1>1, <2>3, <3>3, Channels
      <4>. QED
        BY <1>1, <3>2, <4>1, Quiet
    <3>4. CASE c \in RecvClients
      <4>1. c \notin alive
        <5>1. CASE l \in mux
          <6>1. c \notin ToSet(callbacks[l])
            BY <2>9, <5>1 DEF Found, Asked
          <6>. QED
            BY <2>3, <5>1, <6>1 DEF Table, Receivers
        <5>2. CASE l \notin mux
          <6>1. Asked(l) = <<call.client>> /\ ToSet(<<call.client>>) = {call.client}
            BY <1>4, <5>2 DEF Asked, ToSet
          <6>2. c # call.client
            BY <2>9, <6>1 DEF Found
          <6>3. c \in alive => rcvr[l] = c
            BY <2>3, <5>2 DEF Table, Receivers
          <6>. QED
            BY <1>4, <5>2, <6>2, <6>3
        <5>. QED
          BY <5>1, <5>2
      <4>2. c \notin connected /\ queues[c] = <<>>
        BY <2>3, <4>1 DEF Table, Alive, Queued
      <4>3. from_q[c] = <<>> /\ c \notin Opened
        BY <2>3, <4>2 DEF Core, Life, Opened
      <4>. DEFINE gone == One(n)
                  rest == PacketsOf(c)'
      <4>4. gone \in Seq(Nat) /\ rest \in Seq(Nat)
        BY <2>3 DEF One
      <4>5. channel[c] = Way(<<>>, <<>>, <<>>, Cat(gone, rest)) /\ channel'[c] = Way(<<>>, <<>>, <<>>, rest)
        BY <1>1, <1>3, <2>3, <2>9, <3>1, <3>4, <4>2, <4>3, Channels
      <4>. HIDE DEF gone, rest
      <4>6. channel[c] = Cat(gone, rest) /\ channel'[c] = rest
        <5>1. <<>> \in Seq(Nat) /\ Cat(gone, rest) \in Seq(Nat)
          BY <4>4, CatTyped, CatEmpty
        <5>2. \A d \in Seq(Nat) : Way(<<>>, <<>>, <<>>, d) = d
          BY <5>1, WayDropped
        <5>. QED
          BY <4>4, <4>5, <5>1, <5>2
      <4>. QED
        BY <1>1, <3>2, <3>4, <4>3, <4>4, <4>6, PacketsDrop
    <3>. QED
      BY <2>3, <3>3, <3>4 DEF Clients
  <2>. QED
    BY <2>2, <2>6, <2>7, <2>8, <2>9
<1>. QED
  BY <1>2, <1>6, <1>7, <1>8

LEMMA RequestRefines == ASSUME Core, Request PROVE Promise!Next
<1>1. UNCHANGED <<net, queues, call, from_q, to_q, accepted, last, user>>
  BY DEF Request, inline, users, Attach, AttachRecvLink, Detach, DetachRecvLink, MakeClient,
     ConnectReceiver, Crash
<1>2. \A d \in Clients : Flows(d)
  BY <1>1 DEF Flows, InCall, PacketsOf
<1>. QED
  BY <1>1, <1>2, FlowsOn, Quiet

LEMMA UserRefines == ASSUME Core, NEW c \in Clients, User(c) PROVE Promise!Next
<1>1. /\ UNCHANGED <<net, queues, call>> /\ Typed
      /\ \A d : InCall(d)' = InCall(d) /\ PacketsOf(d)' = PacketsOf(d)
  BY DEF User, Connect, Connected, Take, Give, Close, Closed, inline, InCall, PacketsOf, Core
<1>2. /\ from_q \in [Clients -> Seq(Nat)] /\ to_q \in [Clients -> Seq(Nat)]
      /\ accepted \in [Clients -> Nat]
      /\ from_q[c] \in Seq(Nat) /\ to_q[c] \in Seq(Nat) /\ accepted[c] \in Nat
  BY <1>1 DEF Typed, PortTypes
<1>3. CASE UNCHANGED <<from_q, to_q>>
  <2>1. UNCHANGED <<accepted, last>>
    <3>1. \A d : Append(to_q[c], d) # to_q[c]
      BY <1>2
    <3>2. from_q[c] # <<>> => Tail(from_q[c]) # from_q[c]
      <4>1. from_q[c] # <<>> => Len(Tail(from_q[c])) # Len(from_q[c])
        BY <1>2
      <4>. QED
        BY <4>1
    <3>. QED
      BY <1>2, <1>3, <3>1, <3>2 DEF User, Connect, Connected, Take, Give, Close, Closed
  <2>2. \A d \in Clients : Flows(d)
    BY <1>1, <1>3 DEF Flows
  <2>. QED
    BY <2>1, <2>2, FlowsOn, Quiet
<1>4. CASE Connect(c) \/ Connected(c) \/ Closed(c)
  BY <1>3, <1>4 DEF Connect, Connected, Closed, port
<1>5. CASE Close(c)
  <2>1. /\ from_q' = from_q /\ UNCHANGED <<accepted, last>>
        /\ to_q'[c] = Append(to_q[c], DISCONNECT) /\ \A d \in Clients \ {c} : to_q'[d] = to_q[d]
    BY <1>2, <1>5 DEF Close
  <2>2. Back(to_q'[c]) = Back(to_q[c])
    <3>1. DISCONNECT \in Nat
      BY DEF DISCONNECT
    <3>. QED
      BY <1>2, <2>1, <3>1, BackFacts
  <2>3. \A d \in Clients : Flows(d)
    BY <1>1, <2>1, <2>2 DEF Flows
  <2>. QED
    BY <2>1, <2>3, FlowsOn, Quiet
<1>6. CASE Take(c) /\ c \in SendClients
  <2>1. /\ to_q' = to_q /\ UNCHANGED <<accepted, last>> /\ c \notin RecvClients
        /\ \A d \in Clients \ {c} : from_q'[d] = from_q[d]
    BY <1>2, <1>6, Assumptions DEF Take
  <2>2. \A d \in Clients : Flows(d)
    BY <1>1, <2>1 DEF Flows
  <2>. QED
    BY <2>1, <2>2, FlowsOn, Quiet
<1>7. CASE Take(c) /\ c \in RecvClients
  <2>1. /\ to_q' = to_q /\ UNCHANGED <<accepted, user>> /\ c \in Opened /\ from_q[c] # <<>>
        /\ from_q'[c] = Tail(from_q[c]) /\ \A d \in Clients \ {c} : from_q'[d] = from_q[d]
        /\ last' = [last EXCEPT ![c] = Head(from_q[c])]
    BY <1>2, <1>7 DEF Take, Opened
  <2>2. \A d \in Clients \ {c} : channel'[d] = channel[d]
    BY <1>1, <2>1, FlowsOn DEF Flows
  <2>. DEFINE a == from_q[c]
              b == InCall(c)
              m == queues[c]
              p == PacketsOf(c)
  <2>3. a \in Seq(Nat) /\ b \in Seq(Nat) /\ m \in Seq(Nat) /\ p \in Seq(Nat) /\ a # <<>>
    BY <1>1, <2>1, TypedPieces
  <2>4. channel[c] = Way(a, b, m, p) /\ channel'[c] = Way(Tail(a), b, m, p)
    BY <1>1, <1>7, <2>1, Channels
  <2>5. last' = [last EXCEPT ![c] = Head(a)]
    BY <2>1
  <2>. HIDE DEF a, b, m, p
  <2>6. \A n \in Nat : /\ Way(a, b, m, p) # <<>> /\ Head(Way(a, b, m, p)) = Head(a)
                       /\ Tail(Way(a, b, m, p)) = Way(Tail(a), b, m, p)
    BY <2>3, WayEnds
  <2>7. channel[c] # <<>> /\ Head(channel[c]) = Head(a) /\ Tail(channel[c]) = channel'[c]
    BY <2>4, <2>6
  <2>. QED
    BY <2>1, <2>2, <2>5, <2>7, PacketLeaves
<1>8. CASE Give(c) /\ c \in RecvClients
  <2>1. /\ from_q' = from_q /\ UNCHANGED <<accepted, last>> /\ c \notin SendClients
        /\ \A d \in Clients \ {c} : to_q'[d] = to_q[d]
    BY <1>2, <1>8, Assumptions DEF Give
  <2>2. \A d \in Clients : Flows(d)
    BY <1>1, <2>1 DEF Flows
  <2>. QED
    BY <2>1, <2>2, FlowsOn, Quiet
<1>9. CASE Give(c) /\ c \in SendClients
  <2>1. /\ from_q' = from_q /\ UNCHANGED <<last, user>>
        /\ accepted' = [accepted EXCEPT ![c] = @ + 1] /\ accepted'[c] = accepted[c] + 1
        /\ to_q'[c] = Append(to_q[c], accepted[c] + 1)
        /\ \A d \in Clients \ {c} : to_q'[d] = to_q[d]
    BY <1>2, <1>9 DEF Give
  <2>2. \A d \in Clients \ {c} : channel'[d] = channel[d]
    BY <1>1, <2>1, FlowsOn DEF Flows
  <2>3. Back(to_q'[c]) = Append(Back(to_q[c]), accepted[c] + 1)
    <3>. DEFINE n == accepted[c] + 1
                q == to_q[c]
    <3>1. n \in Nat /\ n # DISCONNECT /\ q \in Seq(Nat) /\ to_q'[c] = Append(q, n)
      BY <1>2, <2>1 DEF DISCONNECT
    <3>. HIDE DEF n, q
    <3>2. Back(Append(q, n)) = Append(Back(q), n)
      BY <3>1, BackFacts
    <3>3. Back(to_q'[c]) = Append(Back(q), n)
      BY <3>1, <3>2
    <3>. QED
      BY <3>3 DEF n, q
  <2>4. channel'[c] = Append(channel[c], accepted[c] + 1)
    BY <1>9, <2>3, Channels
  <2>. QED
    BY <2>1, <2>2, <2>4, PacketEnters
<1>. QED
  BY <1>4, <1>5, <1>6, <1>7, <1>8, <1>9 DEF User, Clients

LEMMA LinkRefines ==
    ASSUME Core, NEW c \in Clients,
           (c \in RecvClients /\ Arrive(c)) \/ (c \in SendClients /\ Answer(c))
    PROVE  Promise!Next
<1>1. /\ Typed /\ UNCHANGED <<queues, call, from_q, to_q, last, user>>
      /\ \A d : InCall(d)' = InCall(d)
  BY DEF Core, Arrive, Answer, port, users, InCall
<1>2. CASE c \in SendClients /\ Answer(c)
  <2>1. \A d \in Clients : PacketsOf(d)' = IF d = c THEN Append(PacketsOf(d), 0) ELSE PacketsOf(d)
    BY <1>1, <1>2, PacketSent DEF Answer
  <2>2. accepted' = accepted /\ c \notin RecvClients
    BY <1>2, Assumptions DEF Answer, users
  <2>3. \A d \in Clients : Flows(d)
    BY <1>1, <2>1, <2>2 DEF Flows
  <2>. QED
    BY <1>1, <2>2, <2>3, FlowsOn, Quiet
<1>3. CASE c \in RecvClients /\ Arrive(c)
  <2>. DEFINE n == accepted[c] + 1
  <2>1. /\ accepted' = [accepted EXCEPT ![c] = @ + 1] /\ accepted'[c] = n /\ n \in Nat
        /\ net' = [net EXCEPT ![LinkOf[c]] = Append(@, <<c, n>>)]
    <3>1. accepted' = [accepted EXCEPT ![c] = @ + 1] /\ accepted'[c] = n /\ n \in Nat
      BY <1>1, <1>3 DEF Arrive, Typed, PortTypes
    <3>. QED
      BY <1>3, <3>1 DEF Arrive
  <2>2. \A d \in Clients : PacketsOf(d)' = IF d = c THEN Append(PacketsOf(d), n) ELSE PacketsOf(d)
    BY <1>1, <2>1, PacketSent
  <2>3. \A d \in Clients \ {c} : channel'[d] = channel[d]
    BY <1>1, <2>2, FlowsOn DEF Flows
  <2>. DEFINE a == from_q[c]
              b == InCall(c)
              m == queues[c]
              p == PacketsOf(c)
  <2>4. a \in Seq(Nat) /\ b \in Seq(Nat) /\ m \in Seq(Nat) /\ p \in Seq(Nat)
    BY <1>1, TypedPieces
  <2>5. channel[c] = Way(a, b, m, p) /\ channel'[c] = Way(a, b, m, Append(p, n))
    BY <1>1, <1>3, <2>2, Channels
  <2>. HIDE DEF a, b, m, p
  <2>6. channel'[c] = Append(channel[c], n)
    BY <2>1, <2>4, <2>5, WayEnds
  <2>. QED
    BY <1>1, <2>1, <2>3, <2>6, PacketEnters
<1>. QED
  BY <1>2, <1>3

LEMMA InitRefines == Init => Promise!Init
<1>1. SUFFICES ASSUME Init PROVE Promise!Init
  OBVIOUS
<1>2. /\ from_q = [c \in Clients |-> <<>>] /\ to_q = [c \in Clients |-> <<>>]
      /\ accepted = [c \in Clients |-> 0] /\ last = [c \in Clients |-> 0]
      /\ user = [c \in Clients |-> "new"] /\ call = Idle
  BY <1>1 DEF Init, InlineInit
<1>3. /\ net = [l \in Links |-> <<>>] /\ queues = [c \in Clients |-> <<>>]
  BY <1>1 DEF Init, InlineInit
<1>4. \A c \in Clients : channel[c] = <<>>
  <2>1. SUFFICES ASSUME NEW c \in Clients PROVE channel[c] = <<>>
    OBVIOUS
  <2>2. Back(<<>>) = <<>> /\ <<>> \in Seq(Nat)
    <3>1. <<>> \in Seq(Nat)
      OBVIOUS
    <3>. QED
      BY <3>1, BackFacts
  <2>3. InCall(c) = <<>> /\ PacketsOf(c) = <<>>
    <3>1. net[LinkOf[c]] = <<>>
      BY <1>3, Assumptions
    <3>2. Only(<<>>, {c} \X Nat) = <<>>
      BY OnlyEmpty
    <3>3. InCall(c) = <<>>
      BY <1>2 DEF InCall, Idle
    <3>. DEFINE own == Only(net[LinkOf[c]], {c} \X Nat)
    <3>4. own = <<>> /\ DOMAIN own = {} /\ <<>> = [i \in {} |-> own[i][2]]
      BY <3>1, <3>2
    <3>5. PacketsOf(c) = [i \in DOMAIN own |-> own[i][2]]
      BY DEF PacketsOf
    <3>. HIDE DEF own
    <3>6. PacketsOf(c) = <<>>
      BY <3>4, <3>5
    <3>. QED
      BY <3>3, <3>6
  <2>4. Way(<<>>, <<>>, <<>>, <<>>) = <<>>
    BY <2>2, WayDropped
  <2>. QED
    BY <1>2, <1>3, <2>2, <2>3, <2>4, Channels DEF Clients
<1>5. channel = [c \in Clients |-> <<>>]
  BY <1>4, ChannelFunction
<1>6. {c \in RecvClients : user[c] = "up"} = {}
  BY <1>2, Assumptions
<1>. QED
  BY <1>2, <1>5, <1>6 DEF Promise!Init, Clients

LEMMA StepRefines ==
    ASSUME ServiceInv, Typed', TurnOfOne', Next PROVE Promise!Next
<1>1. Core /\ Accounts
  BY DEF ServiceInv
<1>2. CASE Thread
  <2>1. Table
    BY <1>2, ThreadRuns
  <2>. QED
    BY <1>1, <1>2, <2>1, ReceiveRefines, SendRefines, DisconnectRefines, EraseRefines, RequestRefines,
       LoopRefines DEF Thread
<1>3. CASE \E c \in Clients : User(c)
  BY <1>1, <1>3, UserRefines
<1>4. CASE (\E c \in RecvClients : Arrive(c)) \/ \E c \in SendClients : Answer(c)
  BY <1>1, <1>4, LinkRefines, Assumptions
<1>. QED
  BY <1>2, <1>3, <1>4 DEF Next

\* Whoever shares a link, a multiplexer or the thread with it: each client of the
\* offload service has a FIFO of its own (get_recv_buff, release_send_buff), from
\* which only the end of the client takes anything away. Every step of the service
\* is a step of PerClientFifo or none.
THEOREM ClientsAreServedInOrder == Spec => DeliversInOrder
<1>1. Init => Promise!Init
  BY InitRefines
<1>2. ServiceInv /\ [Next]_vars => [Promise!Next]_<<channel, accepted, last, Opened>>
  <2>1. SUFFICES ASSUME ServiceInv, [Next]_vars
                 PROVE  Promise!Next \/ UNCHANGED <<channel, accepted, last, Opened>>
    OBVIOUS
  <2>2. CASE Next
    <3>1. Typed' /\ TurnOfOne'
      BY <2>1, TypesNext DEF ServiceInv, Core
    <3>. QED
      BY <2>1, <2>2, <3>1, StepRefines
  <2>3. CASE UNCHANGED vars
    BY <2>3 DEF vars, inline, port, users, channel, Opened, GivenBack, InCall, PacketsOf
  <2>. QED
    BY <2>1, <2>2, <2>3
<1>. QED
  BY <1>1, <1>2, ServiceInvariance, PTL DEF Spec, DeliversInOrder, Promise!Spec, Opened
=============================================================================
