----------------------------- MODULE MemoryStream -----------------------------
(***************************************************************************)
(* One stream of the in-memory provider (memory_stream.py).  publish goes  *)
(* through the list of subscriptions and awaits each callback, while the   *)
(* list may grow and be replaced: subscribe appends to it, unsubscribe     *)
(* puts a new list in its place.                                           *)
(***************************************************************************)
EXTENDS Naturals, Sequences, FiniteSets, SequencesExt

CONSTANTS
  Subscribers,     \* subscriptions, each made at most once
  Events,          \* what is published, each once
  MaxLists         \* bound: lists made for the stream

VARIABLES
  lists,    \* the list objects made so far
  live,     \* the one the stream has: an index of lists, or 0
  member,   \* per subscription: "new", "in" or "out"
  pub,      \* per publication: its list, how far it is, and whether it is done
  got,      \* the deliveries of each event, in their order
  due       \* per event: those subscribed since it was published

streamVars == <<lists, live, member, pub, got, due>>

Unsent == [on |-> 0, next |-> 1, done |-> FALSE]
In == {s \in Subscribers : member[s] = "in"}

StreamInit ==
  /\ lists = <<>> /\ live = 0
  /\ member = [s \in Subscribers |-> "new"]
  /\ pub = [e \in Events |-> Unsent]
  /\ got = [e \in Events |-> <<>>]
  /\ due = [e \in Events |-> {}]

\* subscribe: the list of the stream grows, for those who go through it too.
Subscribe(s) ==
  /\ member[s] = "new"
  /\ live # 0 \/ Len(lists) < MaxLists
  /\ member' = [member EXCEPT ![s] = "in"]
  /\ IF live = 0
     THEN lists' = Append(lists, <<s>>) /\ live' = Len(lists')
     ELSE lists' = [lists EXCEPT ![live] = Append(@, s)] /\ UNCHANGED live
  /\ UNCHANGED <<pub, got, due>>

\* Mutated: the subscription is taken out of the list itself.
Unsubscribe_InPlace(s) ==
  /\ member[s] = "in"
  /\ member' = [member EXCEPT ![s] = "out"]
  /\ lists' = [lists EXCEPT ![live] = RemoveFirst(@, s)]
  /\ live' = IF lists'[live] = <<>> THEN 0 ELSE live
  /\ due' = [e \in Events |-> due[e] \ {s}]
  /\ UNCHANGED <<pub, got>>

\* unsubscribe, once or again: a new list, without the subscription if it is there (it is
\* there once at most); no list when that is empty.
Unsubscribe(s) ==
  /\ member[s] # "new"
  /\ Len(lists) < MaxLists
  /\ member' = [member EXCEPT ![s] = "out"]
  /\ IF live = 0 \/ RemoveFirst(lists[live], s) = <<>>
     THEN live' = 0 /\ UNCHANGED lists
     ELSE lists' = Append(lists, RemoveFirst(lists[live], s)) /\ live' = Len(lists')
  /\ due' = [e \in Events |-> due[e] \ {s}]
  /\ UNCHANGED <<pub, got>>

\* publish takes the list there is,
Publish(e) ==
  /\ pub[e] = Unsent
  /\ pub' = [pub EXCEPT ![e] = [on |-> live, next |-> 1, done |-> (live = 0)]]
  /\ due' = [due EXCEPT ![e] = In]
  /\ UNCHANGED <<lists, live, member, got>>

\* and awaits the next callback, which may raise: the error is kept for the end,
Deliver(e) ==
  /\ pub[e].on # 0 /\ ~pub[e].done
  /\ pub[e].next <= Len(lists[pub[e].on])
  /\ got' = [got EXCEPT ![e] = Append(@, lists[pub[e].on][pub[e].next])]
  /\ pub' = [pub EXCEPT ![e].next = @ + 1]
  /\ UNCHANGED <<lists, live, member, due>>

\* until the list ends.
Published(e) ==
  /\ pub[e].on # 0 /\ ~pub[e].done
  /\ pub[e].next > Len(lists[pub[e].on])
  /\ pub' = [pub EXCEPT ![e].done = TRUE]
  /\ UNCHANGED <<lists, live, member, got, due>>

StreamNext ==
  \/ \E s \in Subscribers : Subscribe(s) \/ Unsubscribe(s)
  \/ \E e \in Events : Publish(e) \/ Deliver(e) \/ Published(e)

StreamSpec == StreamInit /\ [][StreamNext]_streamVars

\* Whoever was subscribed when an event was published, and stayed so, got it, once,
\* whatever the others do between two callbacks (publish).
EachGetsItOnce ==
  \A e \in Events :
    /\ pub[e].done => due[e] \subseteq Range(got[e])
    /\ \A i, j \in DOMAIN got[e] : got[e][i] = got[e][j] => i = j
=============================================================================
