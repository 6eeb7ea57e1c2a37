----------------------------- MODULE RbdService -----------------------------
(***************************************************************************)
(* What the receive buffer allocator promises the receive queues           *)
(* (pcie/rx.c): a queue lends it descriptors whose page was given away;    *)
(* once per Claim descriptors, at the Post-th of them, it asks for Claim   *)
(* pages; every request is served, once; and a served request gives a      *)
(* queue that is owed Claim descriptors exactly that many back.  Lists,    *)
(* locks, the background work and the emergency mode are not visible here. *)
(***************************************************************************)
EXTENDS Naturals

CONSTANTS
  Queues,   \* receive queues
  Claim,    \* RX_CLAIM_REQ_ALLOC: descriptors a request is for
  Post      \* RX_POST_REQ_ALLOC: descriptors lent when it is made

VARIABLES
  lent,     \* per queue: descriptors the queue is owed
  asked,    \* requests made and not served
  ready     \* requests served and not claimed

serviceVars == <<lent, asked, ready>>

Init ==
  /\ lent = [q \in Queues |-> 0]
  /\ asked = 0
  /\ ready = 0

(* A queue lends a descriptor, and asks when it is the Post-th of a round. *)
Lend(q) ==
  /\ lent' = [lent EXCEPT ![q] = @ + 1]
  /\ asked' = IF lent'[q] % Claim = Post THEN asked + 1 ELSE asked
  /\ UNCHANGED ready

Serve ==
  /\ asked > 0
  /\ asked' = asked - 1
  /\ ready' = ready + 1
  /\ UNCHANGED lent

Reclaim(q) ==
  /\ ready > 0
  /\ lent[q] >= Claim
  /\ ready' = ready - 1
  /\ lent' = [lent EXCEPT ![q] = @ - Claim]
  /\ UNCHANGED asked

(* The device is started again: every descriptor is where it was at first. *)
Reset ==
  /\ lent' = [q \in Queues |-> 0]
  /\ asked' = 0
  /\ ready' = 0

Next ==
  \/ \E q \in Queues : Lend(q) \/ Reclaim(q)
  \/ Serve
  \/ Reset

Spec == Init /\ [][Next]_serviceVars /\ WF_serviceVars(Serve)
=============================================================================
