--------------------------- MODULE VpnRoutesProofs ---------------------------
(***************************************************************************)
(* Proofs about VpnRoutes for every number of peers, routes and tasks that *)
(* change routes, and for every number of overlaps and failing commands.   *)
(***************************************************************************)
EXTENDS VpnRoutes, TLAPS

-----------------------------------------------------------------------------
(* Calls and how they begin and go on *)

LEMMA CallFacts ==
  ASSUME NEW x \in Call
  PROVE  /\ x.pc \in {"idle", "update", "remove", "build", "plan", "swap",
                      "kernel", "commit"}
         /\ x = Idle <=> x.pc = "idle"
         /\ x.pc = "update" => x.peer \in Peer /\ x.routes \in SUBSET Route
         /\ x.pc = "remove" => x.listed \in SUBSET Peer /\ x.all \in BOOLEAN
         /\ x.pc = "swap" => x.table \in Table
         /\ x.pc = "kernel" => /\ x.desired \subseteq Route /\ x.stale \subseteq Route
                               /\ x.conflicts \subseteq Route
         /\ x.pc = "commit" => x.desired \subseteq Route /\ x.conflicts \subseteq Route
<1>1. CASE x = Idle
  BY <1>1 DEF Idle
<1>2. CASE x \in [pc : {"update"}, peer : Peer, routes : SUBSET Route]
  BY <1>2 DEF Idle
<1>3. CASE x \in [pc : {"remove"}, listed : SUBSET Peer, all : BOOLEAN]
  BY <1>3 DEF Idle
<1>4. CASE x \in [pc : {"build", "plan"}]
  BY <1>4 DEF Idle
<1>5. CASE x \in [pc : {"swap"}, table : Table]
  BY <1>5 DEF Idle
<1>6. CASE x \in [pc : {"kernel"}, desired : SUBSET Route, stale : SUBSET Route,
                  conflicts : SUBSET Route]
  BY <1>6 DEF Idle
<1>7. CASE x \in [pc : {"commit"}, desired : SUBSET Route, conflicts : SUBSET Route]
  BY <1>7 DEF Idle
<1> QED BY <1>1, <1>2, <1>3, <1>4, <1>5, <1>6, <1>7 DEF Call

LEMMA GotoFacts ==
  ASSUME call \in [Callers -> Call], NEW c \in Callers, NEW next \in Call, Goto(c, next)
  PROVE  /\ call' \in [Callers -> Call]
         /\ \A d \in Callers : call'[d] = IF d = c THEN next ELSE call[d]
BY DEF Goto

\* A call that begins alone leaves the others idle and is not disturbed; one
\* that does not, disturbs every running call.
LEMMA StartFacts ==
  ASSUME TypeOK, NEW c \in Callers, NEW next \in Call, Start(c, next)
  PROVE  /\ call' \in [Callers -> Call]
         /\ \A d \in Callers : call'[d] = IF d = c THEN next ELSE call[d]
         /\ call[c] = Idle
         /\ overlaps' \in Nat /\ disturbed' \subseteq Callers /\ muddled' \in BOOLEAN
         /\ overlaps' = 0 => overlaps = 0 /\ Alone(c)
         /\ \A d \in Callers : call[d] # Idle => d \in disturbed'
         /\ c \notin disturbed' => Alone(c)
         /\ ~muddled' => ~muddled /\ Alone(c) /\ c \notin disturbed'
<1>1. /\ call \in [Callers -> Call] /\ overlaps \in Nat
      /\ disturbed \subseteq Callers /\ muddled \in BOOLEAN
  BY DEF TypeOK
<1>2. call' = [call EXCEPT ![c] = next] /\ call[c] = Idle
  BY DEF Start
<1>3. /\ call' \in [Callers -> Call]
      /\ \A d \in Callers : call'[d] = IF d = c THEN next ELSE call[d]
  BY <1>1, <1>2
<1>4. overlaps' = IF Alone(c) THEN overlaps ELSE overlaps + 1
  BY DEF Start
<1>5. overlaps' \in Nat /\ (overlaps' = 0 => overlaps = 0 /\ Alone(c))
  BY <1>1, <1>4
<1>6. disturbed' = IF Alone(c) THEN disturbed \ {c}
                   ELSE {c} \cup {d \in Callers : call[d] # Idle}
  BY DEF Start
<1>7. muddled' = (muddled \/ ~Alone(c))
  BY DEF Start
<1>8. CASE Alone(c)
  <2>1. \A d \in Callers : call[d] = Idle
    BY <1>2, <1>8 DEF Alone
  <2>2. disturbed' \subseteq Callers /\ c \notin disturbed'
    BY <1>1, <1>6, <1>8
  <2>3. muddled' \in BOOLEAN /\ (~muddled' => ~muddled)
    BY <1>1, <1>7, <1>8, Zenon
  <2> QED BY <1>2, <1>3, <1>5, <1>8, <2>1, <2>2, <2>3
<1>9. CASE ~Alone(c)
  <2>1. \A d \in Callers : call[d] # Idle => d \in disturbed'
    BY <1>6, <1>9
  <2>2. disturbed' \subseteq Callers /\ c \in disturbed'
    BY <1>6, <1>9
  <2>3. muddled' = TRUE
    BY <1>7, <1>9, Zenon
  <2> QED BY <1>2, <1>3, <1>5, <1>9, <2>1, <2>2, <2>3
<1> QED BY <1>8, <1>9

-----------------------------------------------------------------------------
(* Type correctness *)

\* RouteTable::build gives a route to one peer at most.
LEMMA BuiltTyped == Built \in Table
<1>1. Built \subseteq Route \X Peer
  BY DEF Built
<1>2. ASSUME NEW x \in Built, NEW y \in Built, x[1] = y[1]
      PROVE  x = y
  <2>1. x = <<x[1], x[2]>> /\ y = <<y[1], y[2]>>
    BY <1>1
  <2>2. Claims(x[1]) = {x[2]} /\ Claims(y[1]) = {y[2]}
    BY DEF Built
  <2>3. x[2] = y[2]
    BY <1>2, <2>2
  <2> QED BY <1>2, <2>1, <2>3
<1> QED BY <1>1, <1>2 DEF Table

LEMMA SubnetsTyped == \A table \in Table : Subnets(table) \subseteq Route
BY DEF Table, Subnets

LEMMA TypedInit == Init => TypeOK
<1> SUFFICES ASSUME Init PROVE TypeOK
  OBVIOUS
<1>1. {} \in Table
  BY DEF Table
<1>2. call \in [Callers -> Call]
  BY DEF Init, Call
<1>3. fresh \in [Peer -> BOOLEAN] /\ muddled \in BOOLEAN
  BY DEF Init
<1>4. failures \in Nat /\ overlaps \in Nat
  BY DEF Init
<1> QED BY <1>1, <1>2, <1>3, <1>4 DEF Init, TypeOK

LEMMA TypedBegin ==
  ASSUME TypeOK, NEW c \in Callers, Begin(c)
  PROVE  TypeOK'
<1>1. /\ allowed \subseteq Peer /\ registry \subseteq Peer
      /\ routes \in [Peer -> SUBSET Route] /\ fresh \in [Peer -> BOOLEAN]
      /\ router \in Table /\ local \subseteq Route /\ installed \subseteq Route
      /\ conflicted \subseteq Route /\ kernel \subseteq Route /\ failures \in Nat
  BY DEF TypeOK
<1> DEFINE Begun ==
      /\ call' \in [Callers -> Call] /\ overlaps' \in Nat
      /\ disturbed' \subseteq Callers /\ muddled' \in BOOLEAN
<1>2. ASSUME NEW next \in Call, Start(c, next)
      PROVE  Begun
  BY <1>2, StartFacts
<1>3. Rebuild \in Call
  BY DEF Rebuild, Call
<1>4. ASSUME NEW p \in Peer, NEW rs \in SUBSET Route, Announce(c, p, rs)
      PROVE  TypeOK'
  <2>1. [pc |-> "update", peer |-> p, routes |-> rs] \in Call
    BY DEF Call
  <2>2. Begun
    BY <1>2, <1>4, <2>1 DEF Announce
  <2> QED BY <1>1, <1>4, <2>2 DEF Announce, peers, tables, TypeOK
<1>5. ASSUME NEW p \in Peer, NEW rs \in SUBSET Route, Hello(c, p, rs)
      PROVE  TypeOK'
  <2>1. Begun
    BY <1>2, <1>3, <1>5 DEF Hello
  <2>2. routes' \in [Peer -> SUBSET Route]
    BY <1>1, <1>5 DEF Hello
  <2>3. fresh' \in [Peer -> BOOLEAN]
    BY <1>1, <1>5 DEF Hello
  <2> QED BY <1>1, <1>5, <2>1, <2>2, <2>3 DEF Hello, tables, TypeOK
<1>6. ASSUME WatchExpire(c)
      PROVE  TypeOK'
  <2>1. Begun
    BY <1>2, <1>3, <1>6 DEF WatchExpire
  <2>2. routes' \in [Peer -> SUBSET Route]
    BY <1>1, <1>6 DEF WatchExpire
  <2> QED BY <1>1, <1>6, <2>1, <2>2 DEF WatchExpire, tables, TypeOK
<1>7. ASSUME NEW all \in BOOLEAN, NEW listed \in SUBSET Peer, ReplacePolicy(c, all, listed)
      PROVE  TypeOK'
  <2>1. [pc |-> "remove", listed |-> listed, all |-> all] \in Call
    BY DEF Call
  <2>2. Begun
    BY <1>2, <1>7, <2>1 DEF ReplacePolicy
  <2>3. allowed' \subseteq Peer /\ registry' \subseteq Peer
    BY <1>1, <1>7 DEF ReplacePolicy
  <2> QED BY <1>1, <1>7, <2>2, <2>3 DEF ReplacePolicy, tables, TypeOK
<1>8. ASSUME NEW conflicts \in SUBSET Route, Advertise(c, conflicts)
      PROVE  TypeOK'
  <2>1. [pc |-> "plan"] \in Call
    BY DEF Call
  <2>2. Begun
    BY <1>2, <1>8, <2>1 DEF Advertise
  <2> QED BY <1>1, <1>8, <2>2 DEF Advertise, peers, TypeOK
<1> QED BY <1>4, <1>5, <1>6, <1>7, <1>8 DEF Begin

LEMMA TypedStep ==
  ASSUME TypeOK, NEW c \in Callers, Step(c)
  PROVE  TypeOK'
<1>1. /\ allowed \subseteq Peer /\ registry \subseteq Peer
      /\ routes \in [Peer -> SUBSET Route] /\ fresh \in [Peer -> BOOLEAN]
      /\ router \in Table /\ local \subseteq Route /\ installed \subseteq Route
      /\ conflicted \subseteq Route /\ kernel \subseteq Route
      /\ call \in [Callers -> Call]
      /\ disturbed \subseteq Callers
      /\ failures \in Nat /\ overlaps \in Nat
      /\ muddled \in BOOLEAN
  BY DEF TypeOK
<1>2. call[c] \in Call
  BY <1>1
<1>3. Subnets(router) \subseteq Route
  BY <1>1, SubnetsTyped
<1>4. /\ Idle \in Call /\ Rebuild \in Call /\ [pc |-> "plan"] \in Call
      /\ \A t \in Table : [pc |-> "swap", table |-> t] \in Call
      /\ \A ds, ss, cs \in SUBSET Route :
           /\ [pc |-> "kernel", desired |-> ds, stale |-> ss, conflicts |-> cs] \in Call
           /\ [pc |-> "commit", desired |-> ds, conflicts |-> cs] \in Call
  BY DEF Call, Rebuild
<1>5. CASE Update(c)
  <2>1. call[c].peer \in Peer /\ call[c].routes \in SUBSET Route
    BY <1>2, <1>5, CallFacts DEF Update
  <2>2. call' \in [Callers -> Call]
    BY <1>1, <1>4, <1>5, GotoFacts DEF Update
  <2>3. routes' \in [Peer -> SUBSET Route] /\ registry' \subseteq Peer
    BY <1>1, <1>5, <2>1 DEF Update
  <2>4. fresh' \in [Peer -> BOOLEAN]
    BY <1>1, <1>5, <2>1 DEF Update
  <2> QED BY <1>1, <1>5, <2>2, <2>3, <2>4 DEF Update, tables, meets, TypeOK
<1>6. CASE RemovePeers(c)
  <2>1. call' \in [Callers -> Call]
    BY <1>1, <1>4, <1>6, GotoFacts DEF RemovePeers
  <2>2. registry' \subseteq Peer
    BY <1>1, <1>6 DEF RemovePeers
  <2>3. routes' \in [Peer -> SUBSET Route]
    BY <1>1, <1>6 DEF RemovePeers
  <2>4. fresh' \in [Peer -> BOOLEAN]
    BY <1>1, <1>6 DEF RemovePeers
  <2> QED BY <1>1, <1>6, <2>1, <2>2, <2>3, <2>4 DEF RemovePeers, tables, meets, TypeOK
<1>7. CASE Build(c)
  <2>1. call' \in [Callers -> Call]
    BY <1>1, <1>4, <1>7, BuiltTyped, GotoFacts DEF Build
  <2> QED BY <1>1, <1>7, <2>1 DEF Build, peers, tables, meets, TypeOK
<1>8. CASE Swap(c)
  <2>1. router' \in Table
    BY <1>2, <1>8, CallFacts DEF Swap
  <2>2. call' \in [Callers -> Call]
    BY <1>1, <1>4, <1>8, GotoFacts DEF Swap
  <2>3. muddled' \in BOOLEAN
    BY <1>8 DEF Swap
  <2> QED BY <1>1, <1>8, <2>1, <2>2, <2>3 DEF Swap, peers, TypeOK
<1>9. CASE Plan(c)
  <2> DEFINE desired == Subnets(router) \ local
             conflicts == Subnets(router) \cap local
             next == [pc |-> "kernel", desired |-> desired,
                      stale |-> installed \ desired, conflicts |-> conflicts]
  <2>1. desired \in SUBSET Route /\ conflicts \in SUBSET Route
        /\ installed \ desired \in SUBSET Route
    BY <1>1, <1>3
  <2>2. Goto(c, next)
    BY <1>9 DEF Plan
  <2> HIDE DEF desired, conflicts
  <2>3. next \in Call
    BY <1>4, <2>1
  <2>4. call' \in [Callers -> Call]
    BY <1>1, <2>2, <2>3, GotoFacts
  <2> QED BY <1>1, <1>9, <2>4 DEF Plan, peers, tables, meets, TypeOK
<1>10. CASE Install(c)
  <2>1. /\ call[c].desired \in SUBSET Route /\ call[c].stale \in SUBSET Route
        /\ call[c].conflicts \in SUBSET Route
    BY <1>2, <1>10, CallFacts DEF Install
  <2>2. call' \in [Callers -> Call]
    BY <1>1, <1>4, <1>10, <2>1, GotoFacts DEF Install
  <2>3. kernel' \subseteq Route
    BY <1>1, <1>10, <2>1 DEF Install
  <2> QED BY <1>1, <1>10, <2>2, <2>3 DEF Install, peers, meets, TypeOK
<1>11. CASE FailToInstall(c)
  <2>1. call[c].desired \in SUBSET Route
    BY <1>2, <1>11, CallFacts DEF FailToInstall
  <2>2. call' \in [Callers -> Call]
    BY <1>1, <1>4, <1>11, GotoFacts DEF FailToInstall
  <2>3. kernel' \subseteq Route
    BY <1>1, <1>11, <2>1 DEF FailToInstall
  <2>4. failures' \in Nat
    BY <1>1, <1>11 DEF FailToInstall
  <2> QED BY <1>1, <1>11, <2>2, <2>3, <2>4 DEF FailToInstall, peers, meets, TypeOK
<1>12. CASE FailToDelete(c)
  <2>1. call[c].desired \in SUBSET Route /\ call[c].conflicts \in SUBSET Route
    BY <1>2, <1>12, CallFacts DEF FailToDelete
  <2>2. call' \in [Callers -> Call]
    BY <1>1, <1>4, <1>12, <2>1, GotoFacts DEF FailToDelete
  <2>3. kernel' \subseteq Route
    BY <1>1, <1>12, <2>1 DEF FailToDelete
  <2>4. failures' \in Nat
    BY <1>1, <1>12 DEF FailToDelete
  <2> QED BY <1>1, <1>12, <2>2, <2>3, <2>4 DEF FailToDelete, peers, meets, TypeOK
<1>13. CASE Commit(c)
  <2>1. call[c].desired \in SUBSET Route /\ call[c].conflicts \in SUBSET Route
    BY <1>2, <1>13, CallFacts DEF Commit
  <2>2. call' \in [Callers -> Call]
    BY <1>1, <1>4, <1>13, GotoFacts DEF Commit
  <2> QED BY <1>1, <1>13, <2>1, <2>2 DEF Commit, peers, meets, TypeOK
<1> QED BY <1>5, <1>6, <1>7, <1>8, <1>9, <1>10, <1>11, <1>12, <1>13 DEF Step

LEMMA TypedNext == TypeOK /\ [Next]_vars => TypeOK'
<1> SUFFICES ASSUME TypeOK, [Next]_vars PROVE TypeOK'
  OBVIOUS
<1>1. ASSUME NEW c \in Callers, Begin(c) \/ Step(c) PROVE TypeOK'
  BY <1>1, TypedBegin, TypedStep
<1>2. ASSUME NEW conflicts \in SUBSET Route, Refresh(conflicts) PROVE TypeOK'
  BY <1>2 DEF Refresh, peers, meets, TypeOK
<1>3. ASSUME NEW p \in Peer, GraceEnds(p) PROVE TypeOK'
  <2>1. fresh' \in [Peer -> BOOLEAN]
    BY <1>3 DEF GraceEnds, TypeOK
  <2> QED BY <1>3, <2>1 DEF GraceEnds, tables, meets, TypeOK
<1>4. CASE UNCHANGED vars
  BY <1>4 DEF vars, peers, tables, meets, TypeOK
<1> QED BY <1>1, <1>2, <1>3, <1>4 DEF Next

\* The types, among them that no table of the router holds two peers for one
\* route, for any number of concurrent callers.
THEOREM RoutesTyped == Spec => []TypeOK
BY TypedInit, TypedNext, PTL DEF Spec

-----------------------------------------------------------------------------
(* Which calls can be running together *)

\* A running call that nothing has disturbed runs alone, and there is no other
\* kind as long as nothing is muddled.
Meets ==
  \A c \in Callers : call[c] # Idle =>
    /\ c \notin disturbed => Alone(c)
    /\ ~muddled => c \notin disturbed

\* While no calls have overlapped, a running call runs alone.
Apart == overlaps = 0 => \A c \in Callers : call[c] # Idle => Alone(c)

\* c goes on, or ends, without a change to the record of who met whom.
GoesOn(c) ==
  /\ call[c] # Idle
  /\ \E next \in Call : \A d \in Callers : call'[d] = IF d = c THEN next ELSE call[d]
  /\ disturbed' = disturbed /\ overlaps' = overlaps
  /\ muddled' = muddled \/ muddled' = (c \in disturbed)

LEMMA StepGoesOn ==
  ASSUME TypeOK, NEW c \in Callers, Step(c)
  PROVE  GoesOn(c)
<1>1. call \in [Callers -> Call] /\ TypeOK'
  BY TypedStep DEF TypeOK
<1>2. call' \in [Callers -> Call]
  BY <1>1 DEF TypeOK
<1>3. call[c].pc # "idle"
  BY DEF Step, Update, RemovePeers, Build, Swap, Plan, Install, FailToInstall,
         FailToDelete, Commit
<1>4. call[c] # Idle
  BY <1>3 DEF Idle
<1>5. \A d \in Callers \ {c} : call'[d] = call[d]
  BY <1>1 DEF Step, Update, RemovePeers, Build, Swap, Plan, Install, FailToInstall,
              FailToDelete, Commit, Goto
<1>6. \A d \in Callers : call'[d] = IF d = c THEN call'[c] ELSE call[d]
  BY <1>5
<1>7. disturbed' = disturbed /\ overlaps' = overlaps
  BY DEF Step, Update, RemovePeers, Build, Swap, Plan, Install, FailToInstall,
         FailToDelete, Commit, meets
<1>8. muddled' = muddled \/ muddled' = (c \in disturbed)
  BY DEF Step, Update, RemovePeers, Build, Swap, Plan, Install, FailToInstall,
         FailToDelete, Commit, meets
<1> QED BY <1>2, <1>4, <1>6, <1>7, <1>8 DEF GoesOn

LEMMA MeetsInit == Init => Meets /\ Apart
BY DEF Init, Meets, Apart

LEMMA MeetsStart ==
  ASSUME TypeOK, Meets, Apart, NEW c \in Callers, NEW next \in Call, Start(c, next)
  PROVE  Meets' /\ Apart'
<1>1. /\ \A d \in Callers : call'[d] = IF d = c THEN next ELSE call[d]
      /\ overlaps' = 0 => overlaps = 0 /\ Alone(c)
      /\ \A d \in Callers : call[d] # Idle => d \in disturbed'
      /\ c \notin disturbed' => Alone(c)
      /\ ~muddled' => ~muddled /\ Alone(c) /\ c \notin disturbed'
  BY StartFacts
<1>2. Alone(c) => Alone(c)'
  BY <1>1 DEF Alone
<1>3. ASSUME NEW d \in Callers, call'[d] # Idle
      PROVE  /\ d \notin disturbed' => Alone(d)'
             /\ ~muddled' => d \notin disturbed'
  <2>1. CASE d = c
    BY <1>1, <1>2, <2>1
  <2>2. CASE d # c
    <3>1. call[d] # Idle /\ d \in disturbed' /\ ~Alone(c)
      BY <1>1, <1>3, <2>2 DEF Alone
    <3> QED BY <1>1, <3>1
  <2> QED BY <2>1, <2>2
<1>4. ASSUME overlaps' = 0, NEW d \in Callers, call'[d] # Idle
      PROVE  Alone(d)'
  <2>1. d = c
    BY <1>1, <1>4 DEF Alone
  <2> QED BY <1>1, <1>2, <1>4, <2>1
<1> QED BY <1>3, <1>4 DEF Meets, Apart

LEMMA MeetsGoOn ==
  ASSUME Meets, Apart, NEW c \in Callers, GoesOn(c)
  PROVE  Meets' /\ Apart'
<1>1. PICK next \in Call : \A d \in Callers : call'[d] = IF d = c THEN next ELSE call[d]
  BY DEF GoesOn
<1>2. call[c] # Idle /\ disturbed' = disturbed /\ overlaps' = overlaps
  BY DEF GoesOn
<1>3. \A d \in Callers : call'[d] # Idle => call[d] # Idle
  BY <1>1, <1>2
<1>4. ASSUME NEW d \in Callers, call[d] # Idle, Alone(d)
      PROVE  Alone(d)'
  <2>1. d = c
    BY <1>2, <1>4 DEF Alone
  <2> QED BY <1>1, <1>4, <2>1 DEF Alone
<1>5. ASSUME NEW d \in Callers, call[d] # Idle, ~muddled'
      PROVE  d \notin disturbed
  <2>1. CASE muddled' = muddled
    BY <1>5, <2>1 DEF Meets
  <2>2. CASE muddled' = (c \in disturbed)
    <3>1. c \notin disturbed
      BY <1>5, <2>2
    <3>2. Alone(c)
      BY <1>2, <3>1 DEF Meets
    <3>3. d = c
      BY <1>5, <3>2 DEF Alone
    <3> QED BY <3>1, <3>3
  <2> QED BY <2>1, <2>2 DEF GoesOn
<1>6. ASSUME NEW d \in Callers, call'[d] # Idle
      PROVE  /\ d \notin disturbed' => Alone(d)'
             /\ ~muddled' => d \notin disturbed'
  BY <1>2, <1>3, <1>4, <1>5, <1>6 DEF Meets
<1>7. ASSUME overlaps' = 0, NEW d \in Callers, call'[d] # Idle
      PROVE  Alone(d)'
  BY <1>2, <1>3, <1>4, <1>7 DEF Apart
<1> QED BY <1>6, <1>7 DEF Meets, Apart

LEMMA RebuildTyped == Rebuild \in Call /\ [pc |-> "plan"] \in Call /\ Idle \in Call
BY DEF Rebuild, Call

\* Every call begins with Start.
LEMMA BeginStarts ==
  ASSUME NEW c \in Callers, Begin(c)
  PROVE  \E next \in Call : Start(c, next) /\ next.pc # "idle"
<1>1. ASSUME NEW p \in Peer, NEW rs \in SUBSET Route, Announce(c, p, rs)
      PROVE  \E next \in Call : Start(c, next) /\ next.pc # "idle"
  <2>1. [pc |-> "update", peer |-> p, routes |-> rs] \in Call
    BY DEF Call
  <2> QED BY <1>1, <2>1 DEF Announce
<1>2. ASSUME NEW all \in BOOLEAN, NEW listed \in SUBSET Peer, ReplacePolicy(c, all, listed)
      PROVE  \E next \in Call : Start(c, next) /\ next.pc # "idle"
  <2>1. [pc |-> "remove", listed |-> listed, all |-> all] \in Call
    BY DEF Call
  <2> QED BY <1>2, <2>1 DEF ReplacePolicy
<1>3. Rebuild.pc # "idle" /\ [pc |-> "plan"].pc # "idle"
  BY DEF Rebuild
<1> QED BY <1>1, <1>2, <1>3, RebuildTyped DEF Begin, Hello, WatchExpire, Advertise

LEMMA MeetsNext == TypeOK /\ Meets /\ Apart /\ [Next]_vars => Meets' /\ Apart'
<1> SUFFICES ASSUME TypeOK, Meets, Apart, [Next]_vars PROVE Meets' /\ Apart'
  OBVIOUS
<1>1. ASSUME NEW c \in Callers, Begin(c) PROVE Meets' /\ Apart'
  BY <1>1, BeginStarts, MeetsStart
<1>2. ASSUME NEW c \in Callers, Step(c) PROVE Meets' /\ Apart'
  BY <1>2, StepGoesOn, MeetsGoOn
<1>3. ASSUME UNCHANGED <<call, meets>> PROVE Meets' /\ Apart'
  BY <1>3 DEF meets, Meets, Apart, Alone
<1> QED BY <1>1, <1>2, <1>3 DEF Next, Refresh, GraceEnds, vars

-----------------------------------------------------------------------------
(* The router follows the peers. *)

\* The table gives routes only to registered peers that announced them last and
\* have no rival.
Follows(table) ==
  \A x \in table :
    /\ x[2] \in registry /\ x[1] \in routes[x[2]]
    /\ Claims(x[1]) \subseteq {x[2]}

\* The table an undisturbed rebuild is about to swap in follows the peers, and
\* so does the router's unless something is muddled or a rebuild is to come.
RouterInv ==
  /\ \A c \in Callers \ disturbed : call[c].pc = "swap" => Follows(call[c].table)
  /\ ~muddled /\ (\A c \in Callers :
                    call[c].pc \notin {"update", "remove", "build", "swap"})
       => Follows(router)

\* The registry holds only allowed peers except while a policy is taking
\* effect; the peer of an announce under way has been allowed.
PolicyInv ==
  overlaps = 0 =>
    /\ \A c \in Callers : call[c].pc = "update" => call[c].peer \in allowed
    /\ \A c \in Callers : call[c].pc = "remove" =>
         allowed = IF call[c].all THEN Peer ELSE call[c].listed
    /\ (\A c \in Callers : call[c].pc # "remove") => registry \subseteq allowed

LEMMA BuiltFollows == Follows(Built)
<1> SUFFICES ASSUME NEW x \in Built
             PROVE  /\ x[2] \in registry /\ x[1] \in routes[x[2]]
                    /\ Claims(x[1]) \subseteq {x[2]}
  BY DEF Follows
<1>1. Claims(x[1]) = {x[2]}
  BY DEF Built
<1> QED BY <1>1 DEF Claims

LEMMA RouterInit == Init => RouterInv /\ PolicyInv
<1> SUFFICES ASSUME Init PROVE RouterInv /\ PolicyInv
  OBVIOUS
<1>1. \A c \in Callers : call[c].pc = "idle"
  BY DEF Init, Idle
<1>2. router = {} /\ registry \subseteq allowed
  BY DEF Init
<1> QED BY <1>1, <1>2 DEF RouterInv, PolicyInv, Follows

\* A call that begins goes to a rebuild, or leaves the peers as they are.
LEMMA RouterBegin ==
  ASSUME TypeOK, Meets, RouterInv, NEW c \in Callers, Begin(c)
  PROVE  RouterInv'
<1>1. call \in [Callers -> Call] /\ router' = router
  BY DEF TypeOK, Begin, Announce, Hello, WatchExpire, ReplacePolicy, Advertise, tables
<1>2. PICK next \in Call : Start(c, next) /\ next.pc # "idle"
  BY BeginStarts
<1>3. /\ \A d \in Callers : call'[d] = IF d = c THEN next ELSE call[d]
      /\ \A d \in Callers : call[d] # Idle => d \in disturbed'
      /\ call[c] = Idle
      /\ ~muddled' => ~muddled /\ Alone(c)
  BY <1>2, StartFacts
<1>4. next.pc # "swap"
  <2>1. call'[c] = next
    BY <1>3
  <2>2. call'[c].pc # "swap"
    BY <1>1 DEF Begin, Announce, Hello, WatchExpire, ReplacePolicy, Advertise,
                Start, Rebuild
  <2> QED BY <2>1, <2>2
<1>5. \A d \in Callers \ disturbed' : call'[d].pc # "swap"
  <2>1. Idle.pc # "swap"
    BY DEF Idle
  <2> QED BY <1>3, <1>4, <2>1
<1>6. ASSUME ~muddled', \A d \in Callers :
                          call'[d].pc \notin {"update", "remove", "build", "swap"}
      PROVE  Follows(router)'
  <2>1. \A d \in Callers : call[d].pc = "idle"
    BY <1>3, <1>6 DEF Alone, Idle
  <2>2. Follows(router)
    BY <1>3, <1>6, <2>1 DEF RouterInv
  <2>3. call'[c].pc \notin {"update", "remove", "build"}
    BY <1>6
  <2>4. UNCHANGED peers
    BY <1>1, <2>3 DEF Begin, Announce, Hello, WatchExpire, ReplacePolicy, Advertise,
                      Start, Rebuild
  <2> QED BY <1>1, <2>2, <2>4 DEF Follows, Claims, peers
<1> QED BY <1>5, <1>6 DEF RouterInv

\* A step of a call keeps its word: what an undisturbed rebuild swaps in has
\* been built from the peers as they still are.
LEMMA RouterStep ==
  ASSUME TypeOK, Meets, RouterInv, NEW c \in Callers, Step(c)
  PROVE  RouterInv'
<1>1. call \in [Callers -> Call] /\ call[c] # Idle /\ disturbed' = disturbed
  BY StepGoesOn DEF TypeOK, GoesOn
<1>2. \A d \in Callers : call[d] = Idle => call[d].pc = "idle"
  BY DEF Idle
<1>3. ASSUME NEW d \in Callers \ disturbed, call[d] # Idle
      PROVE  d = c
  BY <1>1, <1>3 DEF Meets, Alone
<1>4. ASSUME NEW next \in Call, Goto(c, next), next.pc \in {"update", "remove", "build"}
      PROVE  RouterInv'
  <2>1. \A d \in Callers : call'[d] = IF d = c THEN next ELSE call[d]
    BY <1>1, <1>4, GotoFacts
  <2>2. \A d \in Callers \ disturbed : call'[d].pc # "swap"
    BY <1>2, <1>3, <1>4, <2>1
  <2> QED BY <1>1, <1>4, <2>1, <2>2 DEF RouterInv
<1>5. ASSUME NEW next \in Call, Goto(c, next), next.pc \notin {"swap"},
             call[c].pc \in {"plan", "kernel", "commit"},
             UNCHANGED <<peers, router, muddled>>
      PROVE  RouterInv'
  <2>1. \A d \in Callers : call'[d] = IF d = c THEN next ELSE call[d]
    BY <1>1, <1>5, GotoFacts
  <2>2. \A d \in Callers \ disturbed : call'[d].pc # "swap"
    BY <1>2, <1>3, <1>5, <2>1
  <2>3. ASSUME ~muddled', \A d \in Callers :
                            call'[d].pc \notin {"update", "remove", "build", "swap"}
        PROVE  Follows(router)'
    <3>1. \A d \in Callers : call[d].pc \notin {"update", "remove", "build", "swap"}
      BY <1>5, <2>1, <2>3
    <3>2. Follows(router)
      BY <1>5, <2>3, <3>1 DEF RouterInv
    <3> QED BY <1>5, <3>2 DEF Follows, Claims, peers
  <2> QED BY <1>1, <2>2, <2>3 DEF RouterInv
<1>6. CASE Update(c) \/ RemovePeers(c)
  BY <1>4, <1>6, RebuildTyped DEF Update, RemovePeers, Rebuild
<1>7. CASE Build(c)
  <2> DEFINE next == [pc |-> "swap", table |-> Built]
  <2>1. next \in Call /\ Goto(c, next)
    BY <1>7, BuiltTyped DEF Call, Build
  <2>2. \A d \in Callers : call'[d] = IF d = c THEN next ELSE call[d]
    BY <1>1, <2>1, GotoFacts
  <2>3. UNCHANGED peers
    BY <1>7 DEF Build
  <2>4. \A d \in Callers \ disturbed : call'[d].pc = "swap" => call'[d].table = Built
    BY <1>2, <1>3, <2>2
  <2>5. Follows(Built)'
    BY <2>3, BuiltFollows DEF Follows, Claims, Built, peers
  <2>6. Built' = Built
    BY <2>3 DEF Built, Claims, peers
  <2>7. ASSUME NEW d \in Callers \ disturbed', call'[d].pc = "swap"
        PROVE  Follows(call[d].table)'
    BY <1>1, <2>4, <2>5, <2>6, <2>7 DEF Follows, Claims
  <2>8. call'[c].pc = "swap"
    BY <2>2
  <2> QED BY <2>7, <2>8 DEF RouterInv
<1>8. CASE Swap(c)
  <2>1. \A d \in Callers : call'[d] = IF d = c THEN [pc |-> "plan"] ELSE call[d]
    BY <1>1, <1>8, RebuildTyped, GotoFacts DEF Swap
  <2>2. \A d \in Callers \ disturbed : call'[d].pc # "swap"
    BY <1>2, <1>3, <2>1
  <2>3. /\ router' = call[c].table /\ muddled' = (c \in disturbed)
        /\ UNCHANGED peers /\ call[c].pc = "swap"
    BY <1>8 DEF Swap
  <2>4. ~muddled' => Follows(router)'
    <3>1. ASSUME c \notin disturbed PROVE Follows(call[c].table)
      BY <2>3, <3>1 DEF RouterInv
    <3> QED BY <2>3, <3>1 DEF Follows, Claims, peers
  <2> QED BY <1>1, <2>2, <2>4 DEF RouterInv
<1>9. CASE Plan(c)
  <2>1. PICK next : Goto(c, next) /\ next.pc = "kernel"
    BY <1>9 DEF Plan
  <2>2. next \in Call
    <3>1. call' \in [Callers -> Call]
      BY TypedStep DEF TypeOK
    <3>2. call'[c] = next
      BY <1>1, <2>1 DEF Goto
    <3> QED BY <3>1, <3>2
  <2> QED BY <1>5, <1>9, <2>1, <2>2 DEF Plan, tables, meets
<1>10. CASE Install(c) \/ FailToDelete(c)
  <2>1. PICK next : Goto(c, next) /\ next.pc = "commit"
    BY <1>10 DEF Install, FailToDelete
  <2>2. next \in Call
    <3>1. call' \in [Callers -> Call]
      BY TypedStep DEF TypeOK
    <3>2. call'[c] = next
      BY <1>1, <2>1 DEF Goto
    <3> QED BY <3>1, <3>2
  <2> QED BY <1>5, <1>10, <2>1, <2>2 DEF Install, FailToDelete, meets
<1>11. CASE FailToInstall(c) \/ Commit(c)
  <2>1. Goto(c, Idle) /\ Idle.pc # "swap"
    BY <1>11 DEF FailToInstall, Commit, Idle
  <2> QED BY <1>5, <1>11, <2>1, RebuildTyped DEF FailToInstall, Commit, meets
<1> QED BY <1>6, <1>7, <1>8, <1>9, <1>10, <1>11 DEF Step

LEMMA RouterNext == TypeOK /\ Meets /\ RouterInv /\ [Next]_vars => RouterInv'
<1> SUFFICES ASSUME TypeOK, Meets, RouterInv, [Next]_vars PROVE RouterInv'
  OBVIOUS
<1>1. ASSUME NEW c \in Callers, Begin(c) \/ Step(c) PROVE RouterInv'
  BY <1>1, RouterBegin, RouterStep
<1>2. ASSUME UNCHANGED <<registry, routes, router, call, meets>>,
             \A p \in Peer : fresh'[p] => fresh[p]
      PROVE  RouterInv'
  <2>1. \A r : Claims(r)' \subseteq Claims(r)
    BY <1>2 DEF Claims, TypeOK
  <2> QED BY <1>2, <2>1 DEF RouterInv, Follows, meets
<1>3. ASSUME NEW conflicts \in SUBSET Route, Refresh(conflicts) PROVE RouterInv'
  BY <1>2, <1>3 DEF Refresh, peers
<1>4. ASSUME NEW p \in Peer, GraceEnds(p) PROVE RouterInv'
  <2>1. \A q \in Peer : fresh'[q] => fresh[q]
    BY <1>4 DEF GraceEnds, TypeOK
  <2> QED BY <1>2, <1>4, <2>1 DEF GraceEnds, tables
<1>5. CASE UNCHANGED vars
  BY <1>2, <1>5 DEF vars, peers, tables
<1> QED BY <1>1, <1>3, <1>4, <1>5 DEF Next

\* What a call that begins while no calls overlap finds: all others are idle.
LEMMA BeginsAlone ==
  ASSUME TypeOK, NEW c \in Callers, NEW next \in Call, Start(c, next), overlaps' = 0
  PROVE  /\ overlaps = 0
         /\ \A d \in Callers : call[d].pc = "idle"
         /\ \A d \in Callers : call'[d] = IF d = c THEN next ELSE Idle
<1>1. /\ \A d \in Callers : call'[d] = IF d = c THEN next ELSE call[d]
      /\ call[c] = Idle /\ overlaps = 0 /\ Alone(c)
  BY StartFacts
<1>2. \A d \in Callers : call[d] = Idle
  BY <1>1 DEF Alone
<1> QED BY <1>1, <1>2 DEF Idle

\* A step of a call while no calls overlap leaves the others idle.
LEMMA StepsAlone ==
  ASSUME TypeOK, Apart, NEW c \in Callers, Step(c), overlaps' = 0
  PROVE  /\ overlaps = 0
         /\ \A d \in Callers \ {c} : call[d].pc = "idle" /\ call'[d].pc = "idle"
<1>1. call[c] # Idle /\ overlaps' = overlaps
  BY StepGoesOn DEF GoesOn
<1>2. \A d \in Callers \ {c} : call[d] = Idle
  BY <1>1 DEF Apart, Alone
<1>3. \A d \in Callers \ {c} : call'[d] = call[d]
  BY StepGoesOn DEF GoesOn
<1> QED BY <1>1, <1>2, <1>3 DEF Idle

LEMMA PolicyBegin ==
  ASSUME TypeOK, PolicyInv, NEW c \in Callers, Begin(c)
  PROVE  PolicyInv'
<1> SUFFICES ASSUME overlaps' = 0 PROVE PolicyInv'
  BY DEF PolicyInv
<1>1. registry \subseteq Peer
  BY DEF TypeOK
<1>2. ASSUME NEW next \in Call, Start(c, next), next.pc \notin {"update", "remove"},
             UNCHANGED <<allowed, registry>>
      PROVE  PolicyInv'
  <2>1. /\ overlaps = 0 /\ \A d \in Callers : call[d].pc = "idle"
        /\ \A d \in Callers : call'[d] = IF d = c THEN next ELSE Idle
    BY <1>2, BeginsAlone
  <2>2. registry \subseteq allowed
    BY <2>1 DEF PolicyInv
  <2> QED BY <1>2, <2>1, <2>2 DEF PolicyInv, Idle
<1>3. ASSUME NEW p \in Peer, NEW rs \in SUBSET Route, Announce(c, p, rs)
      PROVE  PolicyInv'
  <2> DEFINE next == [pc |-> "update", peer |-> p, routes |-> rs]
  <2>1. next \in Call /\ Start(c, next) /\ p \in allowed /\ UNCHANGED peers
    BY <1>3 DEF Call, Announce
  <2>2. /\ overlaps = 0 /\ \A d \in Callers : call[d].pc = "idle"
        /\ \A d \in Callers : call'[d] = IF d = c THEN next ELSE Idle
    BY <2>1, BeginsAlone
  <2>3. registry \subseteq allowed
    BY <2>2 DEF PolicyInv
  <2> QED BY <2>1, <2>2, <2>3 DEF PolicyInv, Idle, peers
<1>4. ASSUME NEW all \in BOOLEAN, NEW listed \in SUBSET Peer, ReplacePolicy(c, all, listed)
      PROVE  PolicyInv'
  <2> DEFINE next == [pc |-> "remove", listed |-> listed, all |-> all]
  <2>1. next \in Call /\ Start(c, next)
    BY <1>4 DEF Call, ReplacePolicy
  <2>2. \A d \in Callers : call'[d] = IF d = c THEN next ELSE Idle
    BY <2>1, BeginsAlone
  <2>3. allowed' = IF all THEN Peer ELSE listed
    BY <1>4 DEF ReplacePolicy
  <2>4. \A d \in Callers : call'[d].pc = "remove" => d = c
    BY <2>2 DEF Idle
  <2>5. call'[c] = next
    BY <2>2
  <2>6. \A d \in Callers : call'[d].pc # "update"
    BY <2>2 DEF Idle
  <2> QED BY <2>3, <2>4, <2>5, <2>6 DEF PolicyInv
<1>5. ASSUME NEW p \in Peer, NEW rs \in SUBSET Route, Hello(c, p, rs)
      PROVE  PolicyInv'
  BY <1>2, <1>5, RebuildTyped DEF Hello, Rebuild
<1>6. ASSUME WatchExpire(c) PROVE PolicyInv'
  BY <1>2, <1>6, RebuildTyped DEF WatchExpire, Rebuild
<1>7. ASSUME NEW conflicts \in SUBSET Route, Advertise(c, conflicts)
      PROVE  PolicyInv'
  BY <1>2, <1>7, RebuildTyped DEF Advertise, peers
<1> QED BY <1>3, <1>4, <1>5, <1>6, <1>7 DEF Begin

LEMMA PolicyStep ==
  ASSUME TypeOK, Apart, PolicyInv, NEW c \in Callers, Step(c)
  PROVE  PolicyInv'
<1> SUFFICES ASSUME overlaps' = 0 PROVE PolicyInv'
  BY DEF PolicyInv
<1>1. call \in [Callers -> Call] /\ registry \subseteq Peer
  BY DEF TypeOK
<1>2. /\ overlaps = 0
      /\ \A d \in Callers \ {c} : call[d].pc = "idle" /\ call'[d].pc = "idle"
  BY StepsAlone
<1>3. call'[c].pc \notin {"update", "remove"}
  BY <1>1 DEF Step, Update, RemovePeers, Build, Swap, Plan, Install, FailToInstall,
              FailToDelete, Commit, Goto, Rebuild, Idle
<1>4. registry' \subseteq allowed'
  <2>1. CASE Update(c)
    <3>1. call[c].peer \in allowed /\ registry \subseteq allowed
      BY <1>2, <2>1 DEF PolicyInv, Update
    <3> QED BY <2>1, <3>1 DEF Update
  <2>2. CASE RemovePeers(c)
    <3>1. allowed = IF call[c].all THEN Peer ELSE call[c].listed
      BY <1>2, <2>2 DEF PolicyInv, RemovePeers
    <3> QED BY <1>1, <2>2, <3>1 DEF RemovePeers
  <2>3. CASE ~Update(c) /\ ~RemovePeers(c)
    <3>1. call[c].pc # "remove" /\ UNCHANGED peers
      BY <2>3 DEF Step, Build, Swap, Plan, Install, FailToInstall, FailToDelete, Commit
    <3>2. registry \subseteq allowed
      BY <1>2, <3>1 DEF PolicyInv
    <3> QED BY <3>1, <3>2 DEF peers
  <2> QED BY <2>1, <2>2, <2>3
<1> QED BY <1>2, <1>3, <1>4 DEF PolicyInv

LEMMA PolicyNext == TypeOK /\ Apart /\ PolicyInv /\ [Next]_vars => PolicyInv'
<1> SUFFICES ASSUME TypeOK, Apart, PolicyInv, [Next]_vars PROVE PolicyInv'
  OBVIOUS
<1>1. ASSUME NEW c \in Callers, Begin(c) \/ Step(c) PROVE PolicyInv'
  BY <1>1, PolicyBegin, PolicyStep
<1>2. ASSUME UNCHANGED <<allowed, registry, call, overlaps>> PROVE PolicyInv'
  BY <1>2 DEF PolicyInv
<1> QED BY <1>1, <1>2 DEF Next, Refresh, GraceEnds, vars, peers, meets

\* After an undisturbed rebuild the router sends only to registered peers, only
\* for routes they announced last and to none that has a rival; and while no
\* calls overlap, the registry holds only peers the policy allows.
THEOREM RouterHasFollowed == Spec => []RouterFollowsPeers
<1> DEFINE Inv == TypeOK /\ Meets /\ Apart /\ RouterInv /\ PolicyInv
<1>1. Init => Inv
  BY TypedInit, MeetsInit, RouterInit
<1>2. Inv /\ [Next]_vars => Inv'
  BY TypedNext, MeetsNext, RouterNext, PolicyNext
<1>3. Inv => RouterFollowsPeers
  <2> SUFFICES ASSUME Inv, Quiet PROVE RouterFollowsPeers
    BY DEF RouterFollowsPeers
  <2>1. \A c \in Callers : call[c].pc = "idle"
    BY DEF Quiet, Idle
  <2>2. ~muddled => Follows(router)
    BY <2>1 DEF RouterInv
  <2>3. overlaps = 0 => registry \subseteq allowed
    BY <2>1 DEF PolicyInv
  <2> QED BY <2>2, <2>3 DEF RouterFollowsPeers, Follows
<1> HIDE DEF Inv
<1> QED BY <1>1, <1>2, <1>3, PTL DEF Spec

-----------------------------------------------------------------------------
(* The kernel follows the router. *)

\* As long as no command has failed and no calls have overlapped: the kernel
\* holds what the runtime believes it installed, except between changing it and
\* committing the plan; that is the router's routes without the conflicting
\* ones, except between a swap and the commit; and a plan is what its call
\* would compute again.
KernelInv ==
  failures = 0 /\ overlaps = 0 =>
    /\ (\A c \in Callers : call[c].pc # "commit") => kernel = installed
    /\ (\A c \in Callers : call[c].pc \notin {"plan", "kernel", "commit"})
         => installed = Subnets(router) \ conflicted
    /\ \A c \in Callers : call[c].pc \in {"kernel", "commit"} =>
         call[c].desired = Subnets(router) \ call[c].conflicts
    /\ \A c \in Callers : call[c].pc = "kernel" =>
         call[c].stale = installed \ call[c].desired
    /\ \A c \in Callers : call[c].pc = "commit" => kernel = call[c].desired

LEMMA KernelInit == Init => KernelInv
<1> SUFFICES ASSUME Init PROVE KernelInv
  OBVIOUS
<1>1. \A c \in Callers : call[c].pc = "idle"
  BY DEF Init, Idle
<1>2. kernel = installed /\ installed = Subnets(router) \ conflicted
  BY DEF Init, Subnets
<1> QED BY <1>1, <1>2 DEF KernelInv

LEMMA KernelBegin ==
  ASSUME TypeOK, KernelInv, NEW c \in Callers, Begin(c)
  PROVE  KernelInv'
<1> SUFFICES ASSUME failures' = 0, overlaps' = 0 PROVE KernelInv'
  BY DEF KernelInv
<1>1. UNCHANGED <<router, installed, conflicted, kernel, failures>>
  BY DEF Begin, Announce, Hello, WatchExpire, ReplacePolicy, Advertise, tables
<1>2. PICK next \in Call : Start(c, next) /\ next.pc # "idle"
  BY BeginStarts
<1>3. /\ overlaps = 0 /\ \A d \in Callers : call[d].pc = "idle"
      /\ \A d \in Callers : call'[d] = IF d = c THEN next ELSE Idle
  BY <1>2, BeginsAlone
<1>4. kernel = installed /\ installed = Subnets(router) \ conflicted
  BY <1>1, <1>3 DEF KernelInv
<1>5. call \in [Callers -> Call]
  BY DEF TypeOK
<1>6. call'[c].pc \notin {"kernel", "commit"}
  BY <1>5 DEF Begin, Announce, Hello, WatchExpire, ReplacePolicy, Advertise,
              Start, Rebuild
<1>7. \A d \in Callers : call'[d].pc \notin {"kernel", "commit"}
  BY <1>3, <1>6 DEF Idle
<1> QED BY <1>1, <1>4, <1>7 DEF KernelInv, Subnets

LEMMA KernelStep ==
  ASSUME TypeOK, Apart, KernelInv, NEW c \in Callers, Step(c)
  PROVE  KernelInv'
<1> SUFFICES ASSUME failures' = 0, overlaps' = 0 PROVE KernelInv'
  BY DEF KernelInv
<1>1. call \in [Callers -> Call] /\ failures \in Nat
  BY DEF TypeOK
<1>2. /\ overlaps = 0
      /\ \A d \in Callers \ {c} : call[d].pc = "idle" /\ call'[d].pc = "idle"
  BY StepsAlone
<1>3. failures = 0
  BY <1>1 DEF Step, Update, RemovePeers, Build, Swap, Plan, Install, FailToInstall,
              FailToDelete, Commit
<1>4. CASE Update(c) \/ RemovePeers(c) \/ Build(c)
  <2>1. UNCHANGED tables /\ call[c].pc \in {"update", "remove", "build"}
    BY <1>4 DEF Update, RemovePeers, Build
  <2>2. call'[c].pc \notin {"plan", "kernel", "commit"}
    BY <1>1, <1>4 DEF Update, RemovePeers, Build, Goto, Rebuild
  <2>3. kernel = installed /\ installed = Subnets(router) \ conflicted
    BY <1>2, <1>3, <2>1 DEF KernelInv
  <2> QED BY <1>2, <2>1, <2>2, <2>3 DEF KernelInv, tables, Subnets
<1>5. CASE Swap(c)
  <2>1. UNCHANGED <<installed, conflicted, kernel>> /\ call[c].pc = "swap"
    BY <1>5 DEF Swap
  <2>2. call'[c].pc = "plan"
    BY <1>1, <1>5 DEF Swap, Goto
  <2>3. kernel = installed
    BY <1>2, <1>3, <2>1 DEF KernelInv
  <2> QED BY <1>2, <2>1, <2>2, <2>3 DEF KernelInv
<1>6. CASE Plan(c)
  <2>1. UNCHANGED tables /\ call[c].pc = "plan"
    BY <1>6 DEF Plan
  <2>2. call'[c] = [pc |-> "kernel", desired |-> Subnets(router) \ local,
                    stale |-> installed \ (Subnets(router) \ local),
                    conflicts |-> Subnets(router) \cap local]
    BY <1>1, <1>6 DEF Plan, Goto
  <2>3. /\ call'[c].pc = "kernel" /\ call'[c].desired = Subnets(router) \ local
        /\ call'[c].stale = installed \ (Subnets(router) \ local)
        /\ call'[c].conflicts = Subnets(router) \cap local
    BY <2>2
  <2>4. Subnets(router) \ local = Subnets(router) \ (Subnets(router) \cap local)
    OBVIOUS
  <2>5. kernel = installed
    BY <1>2, <1>3, <2>1 DEF KernelInv
  <2> QED BY <1>2, <2>1, <2>3, <2>4, <2>5 DEF KernelInv, tables, Subnets
<1>7. CASE Install(c)
  <2>1. UNCHANGED <<router, installed, conflicted>> /\ call[c].pc = "kernel"
    BY <1>7 DEF Install
  <2>2. call'[c] = [pc |-> "commit", desired |-> call[c].desired,
                    conflicts |-> call[c].conflicts]
    BY <1>1, <1>7 DEF Install, Goto
  <2>3. /\ kernel = installed /\ call[c].stale = installed \ call[c].desired
        /\ call[c].desired = Subnets(router) \ call[c].conflicts
    BY <1>2, <1>3, <2>1 DEF KernelInv
  <2>4. kernel' = call[c].desired
    BY <1>7, <2>3 DEF Install
  <2>5. /\ call'[c].pc = "commit" /\ call'[c].desired = call[c].desired
        /\ call'[c].conflicts = call[c].conflicts
    BY <2>2
  <2> QED BY <1>2, <2>1, <2>3, <2>4, <2>5 DEF KernelInv, Subnets
<1>8. CASE FailToInstall(c) \/ FailToDelete(c)
  BY <1>1, <1>8 DEF FailToInstall, FailToDelete
<1>9. CASE Commit(c)
  <2>1. /\ installed' = call[c].desired /\ conflicted' = call[c].conflicts
        /\ UNCHANGED <<router, kernel>> /\ call[c].pc = "commit"
    BY <1>9 DEF Commit
  <2>2. call'[c].pc = "idle"
    BY <1>1, <1>9 DEF Commit, Goto, Idle
  <2>3. /\ kernel = call[c].desired
        /\ call[c].desired = Subnets(router) \ call[c].conflicts
    BY <1>2, <1>3, <2>1 DEF KernelInv
  <2> QED BY <1>2, <2>1, <2>2, <2>3 DEF KernelInv, Subnets
<1> QED BY <1>4, <1>5, <1>6, <1>7, <1>8, <1>9 DEF Step

LEMMA KernelNext == TypeOK /\ Apart /\ KernelInv /\ [Next]_vars => KernelInv'
<1> SUFFICES ASSUME TypeOK, Apart, KernelInv, [Next]_vars PROVE KernelInv'
  OBVIOUS
<1>1. ASSUME NEW c \in Callers, Begin(c) \/ Step(c) PROVE KernelInv'
  BY <1>1, KernelBegin, KernelStep
<1>2. ASSUME UNCHANGED <<router, installed, conflicted, kernel, call, failures, overlaps>>
      PROVE  KernelInv'
  BY <1>2 DEF KernelInv, Subnets
<1> QED BY <1>1, <1>2 DEF Next, Refresh, GraceEnds, vars, tables, meets

\* Once no call is running, and as long as no kernel command has failed and no
\* calls have overlapped, the kernel, the runtime's record of it and the router
\* agree on the routes.
THEOREM KernelHasFollowed == Spec => []KernelFollowsRouter
<1> DEFINE Inv == TypeOK /\ Meets /\ Apart /\ KernelInv
<1>1. Init => Inv
  BY TypedInit, MeetsInit, KernelInit
<1>2. Inv /\ [Next]_vars => Inv'
  BY TypedNext, MeetsNext, KernelNext
<1>3. Inv => KernelFollowsRouter
  <2> SUFFICES ASSUME Inv, Quiet PROVE KernelFollowsRouter
    BY DEF KernelFollowsRouter
  <2>1. \A c \in Callers : call[c].pc = "idle"
    BY DEF Quiet, Idle
  <2> QED BY <2>1 DEF KernelInv, KernelFollowsRouter
<1> HIDE DEF Inv
<1> QED BY <1>1, <1>2, <1>3, PTL DEF Spec

-----------------------------------------------------------------------------
(* Routes of our own tunnel address *)

Foreign(rs) == rs \cap OwnRoutes = {}

\* The tables hold none, and no call carries one to them: not the tables built
\* from what peers announced a while ago, nor the plans made of them.
ForeignInv ==
  /\ Foreign(Subnets(router)) /\ Foreign(installed) /\ Foreign(kernel)
  /\ \A c \in Callers :
       /\ call[c].pc = "swap" => Foreign(Subnets(call[c].table))
       /\ call[c].pc \in {"kernel", "commit"} => Foreign(call[c].desired)

\* No route that contains our own tunnel address is in the router or the kernel.
OwnAddressStaysLocal == Foreign(Subnets(router)) /\ Foreign(kernel)

LEMMA ForeignInit == Init => ForeignInv
BY DEF Init, ForeignInv, Foreign, Subnets, Idle

LEMMA ForeignBegin ==
  ASSUME TypeOK, ForeignInv, NEW c \in Callers, Begin(c)
  PROVE  ForeignInv'
<1>1. UNCHANGED <<router, installed, kernel>>
  BY DEF Begin, Announce, Hello, WatchExpire, ReplacePolicy, Advertise, tables
<1>2. call \in [Callers -> Call]
  BY DEF TypeOK
<1>3. /\ \A d \in Callers \ {c} : call'[d] = call[d]
      /\ call'[c].pc \notin {"swap", "kernel", "commit"}
  BY <1>2 DEF Begin, Announce, Hello, WatchExpire, ReplacePolicy, Advertise, Start, Rebuild
<1> QED BY <1>1, <1>3 DEF ForeignInv, Foreign, Subnets

LEMMA ForeignStep ==
  ASSUME TypeOK, ForeignInv, NEW c \in Callers, Step(c)
  PROVE  ForeignInv'
<1>1. call \in [Callers -> Call]
  BY DEF TypeOK
<1>2. \A d \in Callers \ {c} : call'[d] = call[d]
  BY <1>1 DEF Step, Update, RemovePeers, Build, Swap, Plan, Install, FailToInstall,
              FailToDelete, Commit, Goto
<1>3. CASE Update(c) \/ RemovePeers(c)
  <2>1. UNCHANGED tables /\ call'[c].pc = "build"
    BY <1>1, <1>3 DEF Update, RemovePeers, Goto, Rebuild
  <2> QED BY <1>2, <2>1 DEF ForeignInv, Foreign, Subnets, tables
<1>4. CASE Build(c)
  <2>1. UNCHANGED tables /\ call'[c] = [pc |-> "swap", table |-> Built]
    BY <1>1, <1>4 DEF Build, Goto
  <2>2. call'[c].pc = "swap" /\ call'[c].table = Built
    BY <2>1
  <2>3. Foreign(Subnets(Built))
    BY DEF Foreign, Subnets, Built
  <2> QED BY <1>2, <2>1, <2>2, <2>3 DEF ForeignInv, Foreign, Subnets, tables
<1>5. CASE Swap(c)
  <2>1. UNCHANGED <<installed, kernel>> /\ router' = call[c].table /\ call[c].pc = "swap"
    BY <1>5 DEF Swap
  <2>2. call'[c].pc = "plan"
    BY <1>1, <1>5 DEF Swap, Goto
  <2> QED BY <1>2, <2>1, <2>2 DEF ForeignInv, Foreign, Subnets
<1>6. CASE Plan(c)
  <2>1. UNCHANGED tables
        /\ call'[c] = [pc |-> "kernel", desired |-> Subnets(router) \ local,
                       stale |-> installed \ (Subnets(router) \ local),
                       conflicts |-> Subnets(router) \cap local]
    BY <1>1, <1>6 DEF Plan, Goto
  <2>2. call'[c].pc = "kernel" /\ call'[c].desired = Subnets(router) \ local
    BY <2>1
  <2>3. Foreign(Subnets(router) \ local)
    BY DEF ForeignInv, Foreign
  <2> QED BY <1>2, <2>1, <2>2, <2>3 DEF ForeignInv, Foreign, Subnets, tables
<1>7. CASE Install(c) \/ FailToInstall(c) \/ FailToDelete(c)
  <2>1. UNCHANGED <<router, installed>> /\ call[c].pc = "kernel"
    BY <1>7 DEF Install, FailToInstall, FailToDelete
  <2>2. \/ call'[c].pc = "commit" /\ call'[c].desired = call[c].desired
        \/ call'[c].pc = "idle"
    BY <1>1, <1>7 DEF Install, FailToInstall, FailToDelete, Goto, Idle
  <2>3. kernel' \subseteq kernel \cup call[c].desired
    BY <1>7 DEF Install, FailToInstall, FailToDelete
  <2> QED BY <1>2, <2>1, <2>2, <2>3 DEF ForeignInv, Foreign, Subnets
<1>8. CASE Commit(c)
  <2>1. /\ UNCHANGED <<router, kernel>>
        /\ installed' = call[c].desired
        /\ call[c].pc = "commit"
    BY <1>8 DEF Commit
  <2>2. call'[c].pc = "idle"
    BY <1>1, <1>8 DEF Commit, Goto, Idle
  <2> QED BY <1>2, <2>1, <2>2 DEF ForeignInv, Foreign, Subnets
<1> QED BY <1>3, <1>4, <1>5, <1>6, <1>7, <1>8 DEF Step

LEMMA ForeignNext == TypeOK /\ ForeignInv /\ [Next]_vars => ForeignInv'
<1> SUFFICES ASSUME TypeOK, ForeignInv, [Next]_vars PROVE ForeignInv'
  OBVIOUS
<1>1. ASSUME NEW c \in Callers, Begin(c) \/ Step(c) PROVE ForeignInv'
  BY <1>1, ForeignBegin, ForeignStep
<1>2. ASSUME UNCHANGED <<router, installed, kernel, call>> PROVE ForeignInv'
  BY <1>2 DEF ForeignInv, Foreign, Subnets
<1> QED BY <1>1, <1>2 DEF Next, Refresh, GraceEnds, vars, tables

\* Whatever peers announce, calls overlap and commands fail: no route that contains
\* our own tunnel address ever reaches the router or the kernel, which would send
\* our own packets to a peer (RouteTable::build).
THEOREM OwnAddressHasStayedLocal == Spec => []OwnAddressStaysLocal
<1>1. ForeignInv => OwnAddressStaysLocal
  BY DEF ForeignInv, OwnAddressStaysLocal
<1> QED BY <1>1, TypedInit, TypedNext, ForeignInit, ForeignNext, PTL DEF Spec
=============================================================================
