--------------------------- MODULE RequestResponse ---------------------------
(***************************************************************************)
(* What a connection between two silos promises for the requests sent over *)
(* it: the peer runs the handler of a request at most once, and a request  *)
(* ends once, with the answer its own handler gave or with an error.       *)
(***************************************************************************)
CONSTANTS Requests

VARIABLES
  stage,    \* "idle", "open" or "ended"
  served,   \* how many times the peer took the request
  result    \* what the caller got: "none", "failed" or the request answered

absVars == <<stage, served, result>>

AbsInit ==
  /\ stage = [r \in Requests |-> "idle"]
  /\ served = [r \in Requests |-> 0]
  /\ result = [r \in Requests |-> "none"]

Ask(r) ==
  /\ stage[r] = "idle"
  /\ stage' = [stage EXCEPT ![r] = "open"]
  /\ UNCHANGED <<served, result>>

\* The peer may take a request whose caller has given up.
Serve(r) ==
  /\ stage[r] # "idle"
  /\ served[r] = 0
  /\ served' = [served EXCEPT ![r] = 1]
  /\ UNCHANGED <<stage, result>>

End(r) ==
  /\ stage[r] # "ended"
  /\ stage' = [stage EXCEPT ![r] = "ended"]
  /\ \E outcome \in {"failed", r} :
       /\ outcome = r => served[r] = 1
       /\ result' = [result EXCEPT ![r] = outcome]
  /\ UNCHANGED served

AbsNext == \E r \in Requests : Ask(r) \/ Serve(r) \/ End(r)

Promise == AbsInit /\ [][AbsNext]_absVars
=============================================================================
