-------------------------- MODULE ConnectionManager --------------------------
(***************************************************************************)
(* The connection managers of two silos (manager.py): each keeps at most   *)
(* one connection to the other, whoever dialled, and dials again when it   *)
(* is lost.  SiloConnection is what happens inside a connection; here it   *)
(* is live, closing or closed at each end.  The silos are in each other's  *)
(* _active_silos, which update_active_silos fills: without it the          *)
(* reconnect loop of the code ends at once.                                *)
(***************************************************************************)
EXTENDS Naturals, FiniteSets

CONSTANTS
  Links,        \* the TCP connections there may be at a time
  Dialler,      \* the silo that dials each link: 1 or 2
  NoLink,
  Stoppable,    \* the silos that may stop
  MaxCuts,      \* bound on failures of the network
  MaxFailures,  \* bound on dials that are refused while the other silo runs
  MaxCancels    \* bound on dials that are cancelled

Managers == {1, 2}
Peer(s) == 3 - s

ASSUME ManagerAssumption ==
  /\ Dialler \in [Links -> Managers]
  /\ NoLink \notin Links
  /\ Stoppable \subseteq Managers
  /\ {MaxCuts, MaxFailures, MaxCancels} \subseteq Nat

VARIABLES
  at,        \* at[s][l]: what link l is at silo s
  held,      \* _connections: the link to the other silo
  dialling,  \* _pending_connects: the link being dialled
  replacing, \* the link whose close an install waits for
  retrying,  \* a reconnect task runs
  stopped,   \* _stopped
  cut,       \* the links that the network broke
  cuts, failures, cancels  \* counters of the bounds

counts == <<cuts, failures, cancels>>
mgrVars == <<at, held, dialling, replacing, retrying, stopped, cut, counts>>

MgrInit ==
  /\ at = [s \in Managers |-> [l \in Links |-> "none"]]
  /\ held = [s \in Managers |-> NoLink]
  /\ dialling = [s \in Managers |-> NoLink]
  /\ replacing = [s \in Managers |-> [l \in Links |-> NoLink]]
  /\ retrying \in [Managers -> {FALSE}]
  /\ stopped = [s \in Managers |-> FALSE]
  /\ cut = {}
  /\ cuts = 0 /\ failures = 0 /\ cancels = 0

Gone(s, l) == at[s][l] \in {"none", "closed"}
\* Nothing is left of the link: its name stands for a new one.
Unused(l) == \A s \in Managers : Gone(s, l) /\ held[s] # l /\ \A k \in Links : replacing[s][k] # l

Live(s) == held[s] # NoLink /\ at[s][held[s]] # "closed"
-----------------------------------------------------------------------------
(* connect and the handshake.                                              *)

\* connect, by a call, by _eager_connect or by the reconnect loop: a live link is
\* returned and a dial in progress is shared, else a new one begins.
Connect(s, l) ==
  /\ ~stopped[s]
  /\ ~Live(s)
  /\ dialling[s] = NoLink
  /\ Dialler[l] = s
  /\ Unused(l)
  /\ dialling' = [dialling EXCEPT ![s] = l]
  /\ at' = [t \in Managers |-> [at[t] EXCEPT ![l] = IF t = s THEN "dialling" ELSE "none"]]
  /\ cut' = cut \ {l}
  /\ UNCHANGED <<held, replacing, retrying, stopped, counts>>

\* accept_inbound: the handshakes were exchanged; each side then installs the link.
Accept(l) ==
  LET s == Dialler[l] IN
  /\ at[s][l] = "dialling"
  /\ ~stopped[Peer(s)]
  /\ at' = [t \in Managers |-> [at[t] EXCEPT ![l] = "ready"]]
  /\ UNCHANGED <<held, dialling, replacing, retrying, stopped, cut, counts>>

\* The dial is refused or times out; the reconnect loop tries again.
DialFails(s) ==
  LET l == dialling[s] IN
  /\ l # NoLink
  /\ at[s][l] = "dialling"
  /\ stopped[Peer(s)] \/ failures < MaxFailures
  /\ failures' = IF stopped[Peer(s)] THEN failures ELSE failures + 1
  /\ at' = [at EXCEPT ![s][l] = "closed"]
  /\ dialling' = [dialling EXCEPT ![s] = NoLink]
  /\ retrying' = [retrying EXCEPT ![s] = TRUE]
  /\ UNCHANGED <<held, replacing, stopped, cut, cuts, cancels>>

\* A caller of connect is cancelled, and with it the dial that it shares with others; a
\* close that the dial was waiting for is cancelled too and never completed.
DialCancelled(s) ==
  LET l == dialling[s] IN
  /\ l # NoLink
  /\ cancels < MaxCancels
  /\ cancels' = cancels + 1
  /\ at' = [at EXCEPT ![s] = [k \in Links |->
       IF k = l THEN "closed" ELSE IF k = replacing[s][l] /\ @[k] = "closing" THEN "stuck" ELSE @[k]]]
  /\ replacing' = [replacing EXCEPT ![s][l] = NoLink]
  /\ dialling' = [dialling EXCEPT ![s] = NoLink]
  /\ UNCHANGED <<held, retrying, stopped, cut, cuts, failures>>
-----------------------------------------------------------------------------
(* _install_connection.                                                    *)

\* _dedup_keeps_existing
KeepsExisting(old, new) == Dialler[old] <= Dialler[new]

Ended(s, l) == [dialling EXCEPT ![s] = IF @ = l THEN NoLink ELSE @]

\* Mutated: the link that is held is overwritten.
Install_NoDedup(s, l) ==
  /\ at[s][l] = "ready"
  /\ held' = [held EXCEPT ![s] = l]
  /\ at' = [at EXCEPT ![s][l] = "live"]
  /\ dialling' = Ended(s, l)
  /\ UNCHANGED <<replacing, retrying, stopped, cut, counts>>

\* A link already held wins or is closed first, during which the silo holds none.
Install(s, l) ==
  LET old == held[s] IN
  /\ at[s][l] = "ready"
  /\ \/ /\ ~Live(s)
        /\ held' = [held EXCEPT ![s] = l]
        /\ at' = [at EXCEPT ![s][l] = "live"]
        /\ dialling' = Ended(s, l)
        /\ UNCHANGED replacing
     \/ /\ Live(s)
        /\ KeepsExisting(old, l)
        /\ at' = [at EXCEPT ![s][l] = "closed"]
        /\ dialling' = Ended(s, l)
        /\ UNCHANGED <<held, replacing>>
     \/ /\ Live(s)
        /\ ~KeepsExisting(old, l)
        /\ held' = [held EXCEPT ![s] = NoLink]
        /\ at' = [at EXCEPT ![s] = [@ EXCEPT ![l] = "waiting", ![old] = "closing"]]
        /\ replacing' = [replacing EXCEPT ![s][l] = old]
        /\ UNCHANGED dialling
  /\ UNCHANGED <<retrying, stopped, cut, counts>>

\* The old link is closed: the new one takes its place, whatever was installed meanwhile.
Replace(s, l) ==
  /\ at[s][l] = "waiting"
  /\ at[s][replacing[s][l]] = "closed"
  /\ held' = [held EXCEPT ![s] = l]
  /\ at' = [at EXCEPT ![s][l] = "live"]
  /\ replacing' = [replacing EXCEPT ![s][l] = NoLink]
  /\ dialling' = Ended(s, l)
  /\ UNCHANGED <<retrying, stopped, cut, counts>>
-----------------------------------------------------------------------------
(* The end of a link.                                                      *)

\* close("normal") has drained what was pending.
CloseDrained(s, l) ==
  /\ at[s][l] = "closing"
  /\ at' = [at EXCEPT ![s][l] = "closed"]
  /\ UNCHANGED <<held, dialling, replacing, retrying, stopped, cut, counts>>

\* Mutated: no reconnect is scheduled.
Lost_NoReconnect(s, l) ==
  /\ at[s][l] = "live"
  /\ l \in cut \/ at[Peer(s)][l] = "closed"
  /\ at' = [at EXCEPT ![s][l] = "closed"]
  /\ held' = IF held[s] = l THEN [held EXCEPT ![s] = NoLink] ELSE held
  /\ UNCHANGED <<dialling, replacing, retrying, stopped, cut, counts>>

\* The other end closed the link, or the network broke it: it is closed as "lost", and
\* the monitor forgets it, if it is still the one held, and starts the reconnect loop.
Lost(s, l) ==
  /\ at[s][l] = "live"
  /\ l \in cut \/ at[Peer(s)][l] = "closed"
  /\ at' = [at EXCEPT ![s][l] = "closed"]
  /\ IF held[s] = l
     THEN /\ held' = [held EXCEPT ![s] = NoLink]
          /\ retrying' = [retrying EXCEPT ![s] = @ \/ ~stopped[s]]
     ELSE UNCHANGED <<held, retrying>>
  /\ UNCHANGED <<dialling, replacing, stopped, cut, counts>>

\* The reconnect loop ends when connect returns a link.
Reconnected(s) ==
  /\ retrying[s]
  /\ Live(s)
  /\ dialling[s] = NoLink
  /\ retrying' = [retrying EXCEPT ![s] = FALSE]
  /\ UNCHANGED <<at, held, dialling, replacing, stopped, cut, counts>>

Cut(l) ==
  /\ l \notin cut
  /\ \E s \in Managers : at[s][l] = "live"
  /\ cuts < MaxCuts
  /\ cuts' = cuts + 1
  /\ cut' = cut \union {l}
  /\ UNCHANGED <<at, held, dialling, replacing, retrying, stopped, failures, cancels>>

\* stop: the reconnect loop and a dial are cancelled, every link that is held is closed.
\* An inbound link whose handshake is under way is still installed.
Stop(s) ==
  /\ s \in Stoppable
  /\ ~stopped[s]
  /\ stopped' = [stopped EXCEPT ![s] = TRUE]
  /\ retrying' = [retrying EXCEPT ![s] = FALSE]
  /\ at' = [at EXCEPT ![s] = [l \in Links |->
       CASE l = dialling[s] -> "closed"
         [] l = held[s] /\ l # dialling[s] /\ @[l] = "live" -> "closing"
         [] OTHER -> @[l]]]
  /\ held' = [held EXCEPT ![s] = NoLink]
  /\ dialling' = [dialling EXCEPT ![s] = NoLink]
  /\ UNCHANGED <<replacing, cut, counts>>
-----------------------------------------------------------------------------
MgrNext ==
  \/ \E s \in Managers, l \in Links :
       Connect(s, l) \/ Install(s, l) \/ Replace(s, l) \/ CloseDrained(s, l) \/ Lost(s, l)
  \/ \E s \in Managers : DialFails(s) \/ DialCancelled(s) \/ Reconnected(s) \/ Stop(s)
  \/ \E l \in Links : Accept(l) \/ Cut(l)

MgrSpec == MgrInit /\ [][MgrNext]_mgrVars

\* Tasks and deadlines run; calls and the network do as they please.
MgrFairness ==
  /\ \A s \in Managers, l \in Links :
       WF_mgrVars(Install(s, l) \/ Replace(s, l) \/ CloseDrained(s, l) \/ Lost(s, l))
  /\ \A s \in Managers : WF_mgrVars(retrying[s] /\ \E l \in Links : Connect(s, l))
  /\ \A l \in Links : WF_mgrVars(Accept(l))
MgrFairSpec == MgrSpec /\ MgrFairness
-----------------------------------------------------------------------------
Settled ==
  \A s \in Managers, l \in Links :
    /\ at[s][l] \in {"none", "live", "closed"}
    /\ at[s][l] = "live" => l \notin cut /\ at[Peer(s)][l] = "live"

Undisturbed == cancels = 0 /\ \A s \in Managers : ~stopped[s]

\* Once nothing is under way the silos hold the same link and no other one is live,
\* whoever dialled first, whatever was cut or replaced on the way (dedup, monitor).  With
\* a third link, dialled while two installs replace the same one, two links are left.
OneLiveLink ==
  Settled /\ Undisturbed =>
    /\ held[1] = held[2]
    /\ \A s \in Managers : {l \in Links : at[s][l] = "live"} \subseteq {held[s]}

\* A link that the network broke is replaced while both silos run.
Broken(s) == held[s] \in cut
LinkComesBack == \A s \in Managers : Broken(s) ~> (Live(s) /\ ~Broken(s)) \/ ~Undisturbed
=============================================================================
