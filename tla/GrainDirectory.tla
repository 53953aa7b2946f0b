--------------------------- MODULE GrainDirectory ---------------------------
(***************************************************************************)
(* The distributed grain directory of a cluster (distributed_directory.py, *)
(* directory_cache.py, directory_rebuild.py, placement.py) and the calls   *)
(* that runtime.py routes through it.                                      *)
(*                                                                         *)
(* Every silo has a ring, the entries it owns, a cache and the grains it   *)
(* hosts.  What a silo does between two awaits is one step: the            *)
(* directory's lock is never held across one.  Messages travel in any      *)
(* order and may be lost with their connection.  The ring and the active   *)
(* silos are always set from the same list and are one variable here.      *)
(***************************************************************************)
EXTENDS HashRing

CONSTANTS
  Silos,          \* silo ids: naturals in the order of their silo_id
  Grains, Calls,
  NodesOf,        \* the hashes of each silo's virtual nodes
  HashOf,         \* the hash of each grain id
  Blank,          \* the silos that may be joining: their ring is empty
  Callers,        \* the silos that calls are made on
  Mortal,         \* the silos that may crash
  Views,          \* the sets of active silos that snapshots show
  ReadSuspends,   \* TRUE iff a storage read gives up the event loop
  MaxChanges,     \* bound on membership changes
  MaxDeactivations  \* bound on deactivations of idle grains

ASSUME DirectoryAssumption ==
  /\ Silos \subseteq Nat
  /\ IsFiniteSet(Silos)
  /\ NodesOf \in [Silos -> (SUBSET Nat) \ {{}}]
  /\ \A s \in Silos : IsFiniteSet(NodesOf[s])
  /\ HashOf \in [Grains -> Nat]
  /\ Blank \subseteq Silos
  /\ Mortal \subseteq Silos
  /\ Callers \subseteq Silos
  /\ Views \subseteq SUBSET Silos
  /\ ReadSuspends \in BOOLEAN
  /\ {MaxChanges, MaxDeactivations} \subseteq Nat

VARIABLES
  up,        \* the silos that have not crashed
  ring,      \* _ring and _active_silos
  owned,     \* _owned
  epoch,     \* _epoch
  cache,     \* DirectoryCache._cache
  hosted,    \* the runtime's _activations
  rebuild,   \* the active task of the rebuild coordinator
  net,       \* one-way messages under way
  cpc,       \* where a call is
  from,      \* the silo whose runtime makes the call
  grain,     \* its grain
  entry,     \* the entry its resolve returned
  asked,     \* the directory owner it asked
  again,     \* it is in its second attempt
  changes, deactivations  \* counters of the bounds

parts == <<ring, owned, epoch, cache, rebuild>>
call == <<cpc, from, grain, entry, asked, again>>
counts == <<changes, deactivations>>
dirVars == <<up, parts, hosted, net, call, counts>>

None == [silo |-> NoOwner, epoch |-> 0]
Entry(s, e) == [silo |-> s, epoch |-> e]
Entries == [silo : Silos, epoch : Nat]
NoRebuild == [arcs |-> {}, peers |-> {}, found |-> {}]

Handoff(to, g, e) == [kind |-> "handoff", to |-> to, grain |-> g, entry |-> e]
Deactivate(to, g, e) == [kind |-> "deactivate", to |-> to, grain |-> g, entry |-> e]
Unregister(to, g, s) == [kind |-> "unregister", to |-> to, grain |-> g, entry |-> Entry(s, 0)]

Owner(g, active) == OwnerOf(NodesOf, active, HashOf[g])
\* Mutated: the epoch counter does not follow the entry.
Bigger_Own(a, b) == a

Bigger(a, b) == IF a >= b THEN a ELSE b

DirInit ==
  /\ up = Silos
  /\ \E joining \in SUBSET Blank :
       ring = [s \in Silos |-> IF s \in joining THEN {} ELSE Silos \ joining]
  /\ owned = [s \in Silos |-> [g \in Grains |-> None]]
  /\ epoch = [s \in Silos |-> 0]
  /\ cache = [s \in Silos |-> [g \in Grains |-> None]]
  /\ hosted = [s \in Silos |-> {}]
  /\ rebuild = [s \in Silos |-> NoRebuild]
  /\ net = {}
  /\ cpc = [c \in Calls |-> "idle"]
  /\ from \in [Calls -> Callers]
  /\ grain \in [Calls -> Grains]
  /\ entry = [c \in Calls |-> None]
  /\ asked \in [Calls -> {NoOwner}]
  /\ again = [c \in Calls |-> FALSE]
  /\ changes = 0 /\ deactivations = 0
-----------------------------------------------------------------------------
(* The owner of a grain.                                                   *)

\* PreferLocalPlacement: the calling silo, else any active one by the grain's hash.
PickSilo(s, active) == IF s \in active THEN {s} ELSE active

\* Mutated: an existing entry is replaced by a new placement.
ResolveAt_Replaces(o, s, g, e) ==
  \E chosen \in PickSilo(s, ring[o]) :
    /\ e = Entry(chosen, epoch[o] + 1)
    /\ owned' = [owned EXCEPT ![o][g] = e]
    /\ epoch' = [epoch EXCEPT ![o] = @ + 1]

\* _resolve_or_activate_local at silo o for a caller at s: e is the entry it returns.
\* A request from another silo is answered whoever owns the grain.
ResolveAt(o, s, g, e) ==
  IF owned[o][g] # None
  THEN e = owned[o][g] /\ UNCHANGED <<owned, epoch>>
  ELSE \E chosen \in PickSilo(s, ring[o]) :
         /\ e = Entry(chosen, epoch[o] + 1)
         /\ owned' = [owned EXCEPT ![o][g] = e]
         /\ epoch' = [epoch EXCEPT ![o] = @ + 1]

\* Every entry that ResolveAt may return.
Answers(o, s, g) ==
  {owned[o][g]} \union {Entry(t, epoch[o] + 1) : t \in PickSilo(s, ring[o])}

\* _unregister_local: only the silo of the entry may remove it.
UnregisterAt(o, s, g) ==
  owned' = IF owned[o][g].silo = s THEN [owned EXCEPT ![o][g] = None] ELSE owned
-----------------------------------------------------------------------------
(* GrainRuntime.invoke, through the cache.                                 *)

\* The resolve of call c on silo s returned e.  A local call enters the runtime before
\* anything else happens on the silo, if the storage does not suspend it.
Route(c, s, g, e) ==
  /\ entry' = [entry EXCEPT ![c] = e]
  /\ IF e.silo = s /\ ~ReadSuspends
     THEN /\ hosted' = [hosted EXCEPT ![s] = @ \union {g}]
          /\ cpc' = [cpc EXCEPT ![c] = "done"]
     ELSE /\ cpc' = [cpc EXCEPT ![c] = "routed"]
          /\ UNCHANGED hosted

\* resolve_or_activate of call c on its own silo: a cached entry, a local owner, or a
\* request to the owner; the entry is put into the cache when it arrives.  A
\* silo whose ring is still empty refuses (ClusterNotReadyError).
ResolveFrom(c, s, g) ==
  LET o == Owner(g, ring[s]) IN
  \/ /\ cache[s][g] # None
     /\ Route(c, s, g, cache[s][g])
     /\ UNCHANGED <<owned, epoch, cache, asked>>
  \/ /\ cache[s][g] = None
     /\ o = s
     /\ \E e \in Answers(s, s, g) :
          /\ ResolveAt(s, s, g, e)
          /\ Route(c, s, g, e)
          /\ cache' = [cache EXCEPT ![s][g] = e]
     /\ UNCHANGED asked
  \/ /\ cache[s][g] = None
     /\ o \notin {s, NoOwner}
     /\ asked' = [asked EXCEPT ![c] = o]
     /\ cpc' = [cpc EXCEPT ![c] = "asking"]
     /\ UNCHANGED <<owned, epoch, cache, entry, hosted>>
  \/ /\ cache[s][g] = None
     /\ o = NoOwner
     /\ cpc' = [cpc EXCEPT ![c] = "failed"]
     /\ UNCHANGED <<owned, epoch, cache, asked, entry, hosted>>

Invoke(c) ==
  /\ cpc[c] = "idle"
  /\ from[c] \in up
  /\ ResolveFrom(c, from[c], grain[c])
  /\ UNCHANGED <<up, ring, rebuild, net, from, grain, again, counts>>

\* The second resolve of invoke, after a connection error.
Retry(c) ==
  /\ cpc[c] = "retry"
  /\ from[c] \in up
  /\ again' = [again EXCEPT ![c] = TRUE]
  /\ ResolveFrom(c, from[c], grain[c])
  /\ UNCHANGED <<up, ring, rebuild, net, from, grain, counts>>

\* _handle_request of a RESOLVE at the silo that was asked.  The caller may have
\* given up meanwhile ("abandoned"): the entry is placed all the same.
ServeResolve(c) ==
  LET o == asked[c] IN
  /\ cpc[c] \in {"asking", "abandoned"}
  /\ o \in up
  /\ ring[o] # {}
  /\ \E e \in Answers(o, from[c], grain[c]) :
       /\ ResolveAt(o, from[c], grain[c], e)
       /\ entry' = [entry EXCEPT ![c] = e]
  /\ cpc' = [cpc EXCEPT ![c] = IF @ = "asking" THEN "answered" ELSE "failed"]
  /\ UNCHANGED <<up, ring, cache, rebuild, hosted, net, from, grain, asked, again, counts>>

\* The response of the owner reaches the cache.
ReceiveEntry(c) ==
  /\ cpc[c] = "answered"
  /\ from[c] \in up
  /\ cache' = [cache EXCEPT ![from[c]][grain[c]] = entry[c]]
  /\ Route(c, from[c], grain[c], entry[c])
  /\ UNCHANGED <<up, ring, owned, epoch, rebuild, net, from, grain, asked, again, counts>>

\* The RPC to the owner fails or times out: invoke raises.  A request under way is
\* still served.
ResolveFails(c) ==
  /\ cpc[c] \in {"asking", "answered"}
  /\ cpc' = [cpc EXCEPT ![c] = IF @ = "asking" THEN "abandoned" ELSE "failed"]
  /\ UNCHANGED <<up, parts, hosted, net, from, grain, entry, asked, again, counts>>

\* A request whose caller gave up is lost with its connection.
AbandonedLost(c) ==
  /\ cpc[c] = "abandoned"
  /\ cpc' = [cpc EXCEPT ![c] = "failed"]
  /\ UNCHANGED <<up, parts, hosted, net, from, grain, entry, asked, again, counts>>

\* _invoke_local, or _invoke_remote and handle_grain_call: the silo of the entry
\* activates the grain without asking the directory, and the result comes
\* back, or the connection breaks, or the caller's timeout comes first.
Run(c) ==
  LET t == entry[c].silo
      remote == t # from[c] IN
  /\ cpc[c] = "routed"
  /\ t \in up
  /\ from[c] \in up
  /\ hosted' = [hosted EXCEPT ![t] = @ \union {grain[c]}]
  /\ \/ cpc' = [cpc EXCEPT ![c] = "done"]
     \/ remote /\ cpc' = [cpc EXCEPT ![c] = "broken"]
     \/ remote /\ cpc' = [cpc EXCEPT ![c] = "failed"]
  /\ UNCHANGED <<up, parts, net, from, grain, entry, asked, again, counts>>

\* The call does not reach the silo: no connection, or the deadline passes first, in
\* which case handle_grain_call drops it.
Unreachable(c) ==
  /\ cpc[c] = "routed"
  /\ entry[c].silo # from[c]
  /\ cpc' = [cpc EXCEPT ![c] = "broken"]
  /\ UNCHANGED <<up, parts, hosted, net, from, grain, entry, asked, again, counts>>

DeadlinePasses(c) ==
  /\ cpc[c] = "routed"
  /\ entry[c].silo # from[c]
  /\ cpc' = [cpc EXCEPT ![c] = "failed"]
  /\ UNCHANGED <<up, parts, hosted, net, from, grain, entry, asked, again, counts>>

\* Mutated: every connection error is retried.
ConnectionError_Always(c) ==
  /\ cpc[c] = "broken"
  /\ cache' = [cache EXCEPT ![from[c]][grain[c]] = None]
  /\ cpc' = [cpc EXCEPT ![c] = "retry"]
  /\ UNCHANGED <<up, ring, owned, epoch, rebuild, hosted, net, from, grain, entry, asked,
                 again, counts>>

\* A TransportConnectionError: once, the cached entry is dropped and invoke tries again.
ConnectionError(c) ==
  /\ cpc[c] = "broken"
  /\ IF again[c]
     THEN cpc' = [cpc EXCEPT ![c] = "failed"] /\ UNCHANGED cache
     ELSE /\ cpc' = [cpc EXCEPT ![c] = "retry"]
          /\ cache' = [cache EXCEPT ![from[c]][grain[c]] = None]
  /\ UNCHANGED <<up, ring, owned, epoch, rebuild, hosted, net, from, grain, entry, asked,
                 again, counts>>
-----------------------------------------------------------------------------
(* Deactivation of grains.                                                 *)

\* The end of deactivate_grain at silo s: the grain leaves the runtime and is
\* unregistered through the cache, here or by a request to the owner.
StandDown(s, g, rest) ==
  LET o == Owner(g, ring[s]) IN
  /\ hosted' = [hosted EXCEPT ![s] = @ \ {g}]
  /\ IF o = s
     THEN /\ UnregisterAt(s, s, g)
          /\ cache' = [cache EXCEPT ![s][g] = None]
          /\ net' = rest
     ELSE /\ net' = IF o = NoOwner THEN rest ELSE rest \union {Unregister(o, g, s)}
          /\ UNCHANGED <<owned, cache>>

\* The idle collector deactivates a grain.
IdleDeactivate(s, g) ==
  /\ s \in up
  /\ g \in hosted[s]
  /\ deactivations < MaxDeactivations
  /\ deactivations' = deactivations + 1
  /\ StandDown(s, g, net)
  /\ UNCHANGED <<up, ring, epoch, rebuild, call, changes>>

\* The owner serves an UNREGISTER; the cache of the silo that asked forgets the grain.
ServeUnregister(m) ==
  /\ m.kind = "unregister"
  /\ m.to \in up
  /\ UnregisterAt(m.to, m.entry.silo, m.grain)
  /\ cache' = [cache EXCEPT ![m.entry.silo][m.grain] = None]
  /\ net' = net \ {m}
  /\ UNCHANGED <<up, ring, epoch, rebuild, hosted, call, counts>>

\* _apply_deactivate and the silo's _on_directory_deactivate, which ignores the epoch.
ApplyDeactivate(m) ==
  /\ m.kind = "deactivate"
  /\ m.to \in up
  /\ IF m.grain \in hosted[m.to] THEN StandDown(m.to, m.grain, net \ {m})
     ELSE net' = net \ {m} /\ UNCHANGED <<hosted, owned, cache>>
  /\ UNCHANGED <<up, ring, epoch, rebuild, call, counts>>

\* A message is lost with its connection.  An unregister that fails still makes the
\* cache of the silo that asked forget the grain.
MessageLost(m) ==
  /\ net' = net \ {m}
  /\ cache' = IF m.kind = "unregister"
              THEN [cache EXCEPT ![m.entry.silo][m.grain] = None] ELSE cache
  /\ UNCHANGED <<up, ring, owned, epoch, rebuild, hosted, call, counts>>

\* A cached entry expires or is evicted for want of room.
CacheDrops(s, g) ==
  /\ cache[s][g] # None
  /\ cache' = [cache EXCEPT ![s][g] = None]
  /\ UNCHANGED <<up, ring, owned, epoch, rebuild, hosted, net, call, counts>>
-----------------------------------------------------------------------------
(* Membership changes, handoff and rebuild.                                *)

\* on_membership_changed with a new list of active silos, which always holds the silo
\* itself (_active_silos), after the silo cleared its cache: entries of other owners are
\* handed off, and a rebuild is scheduled for the arcs that compute_new_arcs names.
MembershipChanged(s, active) ==
  LET moved == {g \in Grains : owned[s][g] # None /\ Owner(g, active) # s}
      arcs == NewArcs(NodesOf, ring[s], active, s) IN
  /\ s \in up
  /\ active # ring[s]
  /\ changes < MaxChanges
  /\ changes' = changes + 1
  /\ cache' = [cache EXCEPT ![s] = [g \in Grains |-> None]]
  /\ ring' = [ring EXCEPT ![s] = active]
  /\ owned' = [owned EXCEPT ![s] = [g \in Grains |-> IF g \in moved THEN None ELSE @[g]]]
  /\ net' = net \union {Handoff(Owner(g, active), g, owned[s][g]) : g \in moved}
  /\ rebuild' = IF arcs = {} \/ active = {s} THEN rebuild
                ELSE [rebuild EXCEPT ![s] =
                        [arcs |-> arcs, peers |-> active \ {s}, found |-> {}]]
  /\ UNCHANGED <<up, epoch, hosted, call, deactivations>>

\* Mutated: an order goes out though nobody lost.
StandDownOrder_Always(o, g, loser) ==
  IF loser.silo = o THEN {} ELSE {Deactivate(loser.silo, g, loser)}

\* _notify_deactivate from silo o, if an entry lost; a silo cannot send to itself.
StandDownOrder(o, g, loser) ==
  IF loser.silo \in {NoOwner, o} THEN {} ELSE {Deactivate(loser.silo, g, loser)}

\* _apply_handoff: the entry of lower epoch stays, the silo of the other one is told to
\* stand down, the same silo or not.
ApplyHandoff(m) ==
  LET o == m.to
      g == m.grain
      kept == owned[o][g]
      wins == kept = None \/ m.entry.epoch < kept.epoch
      loser == IF wins THEN kept ELSE m.entry IN
  /\ m.kind = "handoff"
  /\ o \in up
  /\ IF Owner(g, ring[o]) # o THEN net' = net \ {m} /\ UNCHANGED <<owned, epoch>>
     ELSE /\ owned' = IF wins THEN [owned EXCEPT ![o][g] = m.entry] ELSE owned
          /\ epoch' = IF wins THEN [epoch EXCEPT ![o] = Bigger(@, m.entry.epoch)] ELSE epoch
          /\ net' = (net \ {m}) \union StandDownOrder(o, g, loser)
  /\ UNCHANGED <<up, ring, cache, rebuild, hosted, call, counts>>

\* A peer answers the rebuild query with the grains it hosts in the arcs, whose epochs
\* it does not know.
QueryAnswered(s, p) ==
  LET r == rebuild[s] IN
  /\ s \in up
  /\ p \in r.peers
  /\ p \in up
  /\ rebuild' = [rebuild EXCEPT ![s] =
       [arcs |-> r.arcs,
        peers |-> r.peers \ {p},
        found |-> r.found \union {<<g, p>> : g \in {h \in hosted[p] :
                                   \E arc \in r.arcs : Within(arc, HashOf[h])}}]]
  /\ UNCHANGED <<up, ring, owned, epoch, cache, hosted, net, call, counts>>

QueryFails(s, p) ==
  /\ p \in rebuild[s].peers
  /\ rebuild' = [rebuild EXCEPT ![s] =
       [arcs |-> @.arcs, peers |-> @.peers \ {p}, found |-> @.found]]
  /\ UNCHANGED <<up, ring, owned, epoch, cache, hosted, net, call, counts>>

\* merge_rebuild_candidates (every candidate has epoch 0, so the smallest silo wins; an
\* empty ring owned nothing before), _apply_rebuild_entries over whatever was
\* registered meanwhile, and DEACTIVATE to the silos that lost.
FinishRebuild(s) ==
  LET hosts(g) == {p \in Silos : <<g, p>> \in rebuild[s].found}
      winner(g) == CHOOSE p \in hosts(g) : \A q \in hosts(g) : p <= q IN
  /\ s \in up
  /\ rebuild[s].arcs # {}
  /\ rebuild[s].peers = {}
  /\ owned' = [owned EXCEPT ![s] =
       [g \in Grains |-> IF hosts(g) = {} THEN @[g] ELSE Entry(winner(g), 0)]]
  /\ net' = net \union {Deactivate(x[2], x[1], Entry(x[2], 0)) :
                         x \in {y \in rebuild[s].found : y[2] \notin {s, winner(y[1])}}}
  /\ rebuild' = [rebuild EXCEPT ![s] = NoRebuild]
  /\ UNCHANGED <<up, ring, epoch, cache, hosted, call, counts>>

Crash(s) ==
  /\ s \in up \cap Mortal
  /\ up' = up \ {s}
  /\ hosted' = [hosted EXCEPT ![s] = {}]
  /\ UNCHANGED <<parts, net, call, counts>>
-----------------------------------------------------------------------------
CallStep(c) ==
  \/ Invoke(c) \/ Retry(c) \/ ServeResolve(c) \/ ReceiveEntry(c) \/ ResolveFails(c)
  \/ AbandonedLost(c) \/ Run(c) \/ Unreachable(c) \/ DeadlinePasses(c)
  \/ ConnectionError(c)

DirNext ==
  \/ \E c \in Calls : CallStep(c)
  \/ \E s \in Silos, g \in Grains : IdleDeactivate(s, g) \/ CacheDrops(s, g)
  \/ \E s \in Silos, view \in Views : MembershipChanged(s, view \union {s})
  \/ \E m \in net : ServeUnregister(m) \/ ApplyDeactivate(m) \/ ApplyHandoff(m) \/ MessageLost(m)
  \/ \E s, p \in Silos : QueryAnswered(s, p) \/ QueryFails(s, p)
  \/ \E s \in Silos : FinishRebuild(s) \/ Crash(s)

DirSpec == DirInit /\ [][DirNext]_dirVars

\* Timers end every request, so a call that started goes on.
DirFairness == \A c \in Calls : WF_dirVars(cpc[c] # "idle" /\ CallStep(c))
DirFairSpec == DirSpec /\ DirFairness
-----------------------------------------------------------------------------
\* The type of the directory's state.
DirTypeOK ==
  /\ up \in SUBSET Silos
  /\ ring \in [Silos -> SUBSET Silos]
  /\ owned \in [Silos -> [Grains -> Entries \union {None}]]
  /\ epoch \in [Silos -> Nat]
  /\ cache \in [Silos -> [Grains -> Entries \union {None}]]
  /\ hosted \in [Silos -> SUBSET Grains]
  /\ \A s \in Silos : /\ rebuild[s].peers \in SUBSET Silos
                      /\ rebuild[s].found \in SUBSET (Grains \X Silos)
  /\ \A m \in net : m.to \in Silos /\ m.grain \in Grains /\ m.entry \in Entries
  /\ cpc \in [Calls -> {"idle", "asking", "abandoned", "answered", "routed", "broken",
                        "retry", "done", "failed"}]
  /\ entry \in [Calls -> Entries \union {None}]
  /\ asked \in [Calls -> Silos \union {NoOwner}]
  /\ again \in [Calls -> BOOLEAN]

\* While all silos agree on the ring and no grain is deactivated, a grain is hosted by
\* at most one silo: whatever requests are lost, retried or served late, whatever
\* the caches hold (resolve_or_activate, DirectoryCache, handle_grain_call).
SingleHost == \A g \in Grains : \A s, t \in Silos : g \in hosted[s] \cap hosted[t] => s = t
SingleHostUndisturbed == changes = 0 /\ deactivations = 0 => SingleHost

\* The same without the second condition, which the module docstring of the cache
\* promises: it does not change what the directory guarantees.
SingleHostOnStableRing == changes = 0 => SingleHost

\* A new placement always gets a higher epoch than any entry its silo owns, also
\* after handoffs and rebuilds: the order by which handoffs choose is sound.
EpochCoversEntries == \A s \in Silos, g \in Grains : owned[s][g].epoch <= epoch[s]

\* A silo that joins learns from a rebuild query every grain its peer hosts and it now
\* owns, also across the wrap-around, unless the ring has changed again.
RebuildFindsHosts ==
  [][\A s \in Silos, p \in Silos :
       QueryAnswered(s, p) /\ changes = 1 =>
         \A g \in hosted[p] : Owner(g, ring[s]) = s => <<g, p>> \in rebuild'[s].found]_dirVars

\* Every call that was made ends, with a result or an error, while its silo is up.
CallsEnd == \A c \in Calls : cpc[c] # "idle" ~> cpc[c] \in {"done", "failed"} \/ from[c] \notin up
=============================================================================
