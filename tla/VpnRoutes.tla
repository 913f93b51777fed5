------------------------------ MODULE VpnRoutes ------------------------------
(***************************************************************************)
(* Routes of the VPN (kaonic-vpn, src/vpn/runtime.rs): from what peers     *)
(* announce, through the lock-free router, into the kernel's route table.  *)
(*                                                                         *)
(* Four tasks change routes and then run rebuild_router and sync_routes:   *)
(* the announce receiver, the out-link event task (a peer's hello), the    *)
(* watchdog and the HTTP handlers (policy, advertised routes).  None of    *)
(* them holds a lock across a call: building a table and swapping it in,   *)
(* planning the kernel's routes, changing them and committing the plan are *)
(* separate steps, between which the other tasks run.  Reads of one step   *)
(* that follow each other under short locks are taken together.            *)
(*                                                                         *)
(* The 45 seconds of ROUTE_GRACE_SECS are abstracted to fresh, which ends  *)
(* at any time.  Which of a peer's routes is a route of our own tunnel     *)
(* address is the constant OwnRoutes.                                       *)
(***************************************************************************)
EXTENDS Naturals, FiniteSets

CONSTANTS
  Peer,
  Route,
  OwnRoutes,     \* routes that contain our own tunnel address
  Callers,       \* tasks that may be changing routes at a time
  MaxFailures,   \* bound on the failing kernel commands
  MaxOverlaps    \* bound on the calls that begin while another one runs

ASSUME OwnRoutesAssumption == OwnRoutes \subseteq Route
ASSUME BoundsAssumption == MaxFailures \in Nat /\ MaxOverlaps \in Nat

VARIABLES
  allowed,      \* peers the policy allows
  registry,     \* peers in the PeerRegistry
  routes,       \* per peer: its announced routes (none for a peer not there)
  fresh,        \* per peer: route_expires_ts lies ahead
  router,       \* the table in the Router: pairs of a route and its owner
  local,        \* routes that overlap a local route or its alias
  installed,    \* slow.installed_routes
  conflicted,   \* slow.conflicted_routes
  kernel,       \* routes over the TUN interface in the kernel
  call,         \* per caller: its position and what it carries
  failures,     \* number of failed kernel commands
  overlaps,     \* number of calls that began while another one ran
  disturbed,    \* history: the callers whose call has been overlapped by another
  muddled       \* history: has any, since the last rebuild by an undisturbed call?

peers  == <<allowed, registry, routes, fresh>>
tables == <<router, local, installed, conflicted, kernel>>
meets  == <<overlaps, disturbed, muddled>>
vars   == <<peers, tables, call, failures, meets>>

Table == {t \in SUBSET (Route \X Peer) : \A x, y \in t : x[1] = y[1] => x = y}
Idle  == [pc |-> "idle"]
Call  ==
  {Idle}
  \cup [pc : {"update"}, peer : Peer, routes : SUBSET Route]
  \cup [pc : {"remove"}, listed : SUBSET Peer, all : BOOLEAN]
  \cup [pc : {"build", "plan"}]
  \cup [pc : {"swap"}, table : Table]
  \cup [pc : {"kernel"}, desired : SUBSET Route, stale : SUBSET Route,
        conflicts : SUBSET Route]
  \cup [pc : {"commit"}, desired : SUBSET Route, conflicts : SUBSET Route]

\* The types: the router never holds two peers for one route.
TypeOK ==
  /\ allowed \subseteq Peer /\ registry \subseteq Peer
  /\ routes \in [Peer -> SUBSET Route]
  /\ fresh \in [Peer -> BOOLEAN]
  /\ router \in Table
  /\ local \subseteq Route /\ installed \subseteq Route
  /\ conflicted \subseteq Route /\ kernel \subseteq Route
  /\ call \in [Callers -> Call]
  /\ failures \in Nat /\ overlaps \in Nat
  /\ disturbed \subseteq Callers
  /\ muddled \in BOOLEAN

\* VpnRuntime::start with every peer allowed and nothing known of any.
Init ==
  /\ allowed = Peer
  /\ registry = {}
  /\ routes = [p \in Peer |-> {}]
  /\ fresh = [p \in Peer |-> FALSE]
  /\ router = {}
  /\ local = {} /\ installed = {} /\ conflicted = {} /\ kernel = {}
  /\ call = [c \in Callers |-> Idle]
  /\ failures = 0 /\ overlaps = 0
  /\ disturbed = {}
  /\ muddled = FALSE

-----------------------------------------------------------------------------
\* The peers whose announcement of r is live.
Claims(r) == {p \in registry : fresh[p] /\ r \in routes[p]}

\* A plausible bug: rivals for a route both get it.
BuiltWithRivals == {x \in (Route \ OwnRoutes) \X Peer : x[2] \in Claims(x[1])}

\* RouteTable::build: a route has an owner if exactly one live peer claims it
\* and it is not one of ours.
Built == {x \in (Route \ OwnRoutes) \X Peer : Claims(x[1]) = {x[2]}}

Subnets(table) == {x[1] : x \in table}

Alone(c) == \A d \in Callers \ {c} : call[d] = Idle

\* A caller begins.  If another one is in the middle, the two overlap.
Start(c, next) ==
  /\ call[c] = Idle
  /\ Alone(c) \/ overlaps < MaxOverlaps
  /\ overlaps' = IF Alone(c) THEN overlaps ELSE overlaps + 1
  /\ disturbed' = IF Alone(c)
                  THEN disturbed \ {c}
                  ELSE {c} \cup {d \in Callers : call[d] # Idle}
  /\ muddled' = (muddled \/ ~Alone(c))
  /\ call' = [call EXCEPT ![c] = next]

Goto(c, next) == call' = [call EXCEPT ![c] = next]

Rebuild == [pc |-> "build"]

-----------------------------------------------------------------------------
\* handle_peer_announce: the policy is asked first ...
Announce(c, p, rs) ==
  /\ p \in allowed
  /\ Start(c, [pc |-> "update", peer |-> p, routes |-> rs])
  /\ UNCHANGED <<peers, tables, failures>>

\* ... and then the peer is found or made.
Update(c) ==
  LET p == call[c].peer
  IN  /\ call[c].pc = "update"
      /\ registry' = registry \cup {p}
      /\ routes' = [routes EXCEPT ![p] = call[c].routes]
      /\ fresh' = [fresh EXCEPT ![p] = TRUE]
      /\ Goto(c, Rebuild)
      /\ UNCHANGED <<allowed, tables, failures, meets>>

\* handle_link_data, a hello or routes frame of a peer's out-link.
Hello(c, p, rs) ==
  /\ Start(c, Rebuild)
  /\ IF p \in registry
     THEN /\ routes' = [routes EXCEPT ![p] = rs]
          /\ fresh' = [fresh EXCEPT ![p] = TRUE]
     ELSE UNCHANGED <<routes, fresh>>
  /\ UNCHANGED <<allowed, registry, tables, failures>>

\* The watchdog forgets the routes of the peers whose grace is over, and
\* rebuilds if there were any.
Expired == {p \in registry : ~fresh[p] /\ routes[p] # {}}

WatchExpire(c) ==
  /\ Expired # {}
  /\ Start(c, Rebuild)
  /\ routes' = [p \in Peer |-> IF p \in Expired THEN {} ELSE routes[p]]
  /\ UNCHANGED <<allowed, registry, fresh, tables, failures>>

\* replace_peer_policy stores the policy and inserts the listed peers ...
ReplacePolicy(c, all, listed) ==
  /\ Start(c, [pc |-> "remove", listed |-> listed, all |-> all])
  /\ allowed' = IF all THEN Peer ELSE listed
  /\ registry' = registry \cup listed
  /\ UNCHANGED <<routes, fresh, tables, failures>>

\* A plausible bug: the peers the policy dropped stay in the registry.
RemovePeersNever(c) ==
  /\ call[c].pc = "remove"
  /\ Goto(c, Rebuild)
  /\ UNCHANGED <<peers, tables, failures, meets>>

\* ... and then removes the others, unless all are allowed.
RemovePeers(c) ==
  LET kept == IF call[c].all THEN registry ELSE registry \cap call[c].listed
  IN  /\ call[c].pc = "remove"
      /\ registry' = kept
      /\ routes' = [p \in Peer |-> IF p \in kept THEN routes[p] ELSE {}]
      /\ fresh' = [p \in Peer |-> p \in kept /\ fresh[p]]
      /\ Goto(c, Rebuild)
      /\ UNCHANGED <<allowed, tables, failures, meets>>

\* replace_advertised_routes: other local routes, and no rebuild.
Advertise(c, conflicts) ==
  /\ Start(c, [pc |-> "plan"])
  /\ local' = conflicts
  /\ UNCHANGED <<peers, router, installed, conflicted, kernel, failures>>

\* refresh_local_routes of the announce sender: nothing is synchronised.
Refresh(conflicts) ==
  /\ local' = conflicts
  /\ UNCHANGED <<peers, router, installed, conflicted, kernel, call,
                 failures, meets>>

\* ROUTE_GRACE_SECS pass since the last announce or hello of p.
GraceEnds(p) ==
  /\ fresh[p]
  /\ fresh' = [fresh EXCEPT ![p] = FALSE]
  /\ UNCHANGED <<allowed, registry, routes, tables, call, failures, meets>>

-----------------------------------------------------------------------------
(* rebuild_router *)

Build(c) ==
  /\ call[c].pc = "build"
  /\ Goto(c, [pc |-> "swap", table |-> Built])
  /\ UNCHANGED <<peers, tables, failures, meets>>

\* A rebuild that nothing overlapped leaves nothing of an earlier muddle.
Swap(c) ==
  /\ call[c].pc = "swap"
  /\ router' = call[c].table
  /\ muddled' = (c \in disturbed)
  /\ Goto(c, [pc |-> "plan"])
  /\ UNCHANGED <<peers, local, installed, conflicted, kernel, failures,
                 overlaps, disturbed>>

(* sync_routes *)

Plan(c) ==
  LET conflicts == Subnets(router) \cap local
      desired   == Subnets(router) \ local
  IN  /\ call[c].pc = "plan"
      /\ Goto(c, [pc |-> "kernel", desired |-> desired,
                  stale |-> installed \ desired, conflicts |-> conflicts])
      /\ UNCHANGED <<peers, tables, failures, meets>>

\* A plausible bug: what is no longer desired is left in the kernel.
InstallKeepingStale(c) ==
  /\ call[c].pc = "kernel"
  /\ kernel' = kernel \cup call[c].desired
  /\ Goto(c, [pc |-> "commit", desired |-> call[c].desired,
              conflicts |-> call[c].conflicts])
  /\ UNCHANGED <<peers, router, local, installed, conflicted, failures, meets>>

\* Every stale route is deleted, every desired one is put there, and the
\* address translations are synchronised.
Install(c) ==
  /\ call[c].pc = "kernel"
  /\ kernel' = (kernel \ call[c].stale) \cup call[c].desired
  /\ Goto(c, [pc |-> "commit", desired |-> call[c].desired,
              conflicts |-> call[c].conflicts])
  /\ UNCHANGED <<peers, router, local, installed, conflicted, failures, meets>>

\* Putting a route or translating addresses fails: the rest is skipped and the
\* plan is not committed.
FailToInstall(c) ==
  /\ call[c].pc = "kernel" /\ failures < MaxFailures
  /\ \E done \in SUBSET call[c].desired :
       kernel' = (kernel \ call[c].stale) \cup done
  /\ failures' = failures + 1
  /\ Goto(c, Idle)
  /\ UNCHANGED <<peers, router, local, installed, conflicted, meets>>

\* Deleting a route fails: delete_route ignores it.
FailToDelete(c) ==
  /\ call[c].pc = "kernel" /\ failures < MaxFailures
  /\ \E left \in SUBSET call[c].stale :
       left # {} /\ kernel' = (kernel \ (call[c].stale \ left)) \cup call[c].desired
  /\ failures' = failures + 1
  /\ Goto(c, [pc |-> "commit", desired |-> call[c].desired,
              conflicts |-> call[c].conflicts])
  /\ UNCHANGED <<peers, router, local, installed, conflicted, meets>>

Commit(c) ==
  /\ call[c].pc = "commit"
  /\ installed' = call[c].desired
  /\ conflicted' = call[c].conflicts
  /\ Goto(c, Idle)
  /\ UNCHANGED <<peers, router, local, kernel, failures, meets>>

-----------------------------------------------------------------------------
Step(c) ==
  \/ Update(c) \/ RemovePeers(c) \/ Build(c) \/ Swap(c) \/ Plan(c)
  \/ Install(c) \/ FailToInstall(c) \/ FailToDelete(c) \/ Commit(c)

Begin(c) ==
  \/ \E p \in Peer, rs \in SUBSET Route : Announce(c, p, rs) \/ Hello(c, p, rs)
  \/ WatchExpire(c)
  \/ \E all \in BOOLEAN, listed \in SUBSET Peer : ReplacePolicy(c, all, listed)
  \/ \E conflicts \in SUBSET Route : Advertise(c, conflicts)

Next ==
  \/ \E c \in Callers : Begin(c) \/ Step(c)
  \/ \E conflicts \in SUBSET Route : Refresh(conflicts)
  \/ \E p \in Peer : GraceEnds(p)

Spec == Init /\ [][Next]_vars

\* The tasks finish what they began, and the watchdog keeps ticking: it is a
\* task of its own, which no number of other calls keeps from running.
Fairness ==
  /\ \A c \in Callers : WF_vars(Step(c))
  /\ SF_vars(\E c \in Callers : WatchExpire(c))

FairSpec == Spec /\ Fairness

-----------------------------------------------------------------------------
Quiet == \A c \in Callers : call[c] = Idle

\* Once a call that nothing overlapped has rebuilt the router, it sends packets
\* only to registered peers, only for routes they announced last, and to no
\* peer for a route that another live peer announces too, whatever the earlier
\* overlaps left behind.  Peers the policy forbids are gone as long as no call
\* has overlapped another: an announce that passed peer_allowed before the
\* policy changed puts its peer back.
RouterFollowsPeers ==
  Quiet =>
    /\ ~muddled =>
         \A x \in router :
           /\ x[2] \in registry /\ x[1] \in routes[x[2]]
           /\ Claims(x[1]) \subseteq {x[2]}
    /\ overlaps = 0 => registry \subseteq allowed

\* As long as no kernel command has failed and no two calls have overlapped,
\* the kernel holds exactly the routes the runtime believes it installed, and
\* these are the routes of the router that do not collide with a local one.
KernelFollowsRouter ==
  Quiet /\ failures = 0 /\ overlaps = 0 =>
    /\ kernel = installed
    /\ installed = Subnets(router) \ conflicted

\* "Peer routes are dropped this long after the last announce"
\* (runtime.rs:42): a route that nobody keeps announcing leaves the kernel.
ExpiredRoutesLeaveKernel ==
  \A r \in Route :
    r \in kernel /\ Claims(r) = {} ~> r \notin kernel \/ Claims(r) # {}

\* They are dropped as long as no kernel command fails and no calls overlap.
UndisturbedRoutesExpire ==
  [](failures = 0 /\ overlaps = 0) => ExpiredRoutesLeaveKernel
=============================================================================
