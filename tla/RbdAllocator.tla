---------------------------- MODULE RbdAllocator ----------------------------
(***************************************************************************)
(* The receive buffer allocator (pcie/rx.c).  A receive queue whose buffer *)
(* was given to the stack needs a new page for its descriptor (RBD).  The  *)
(* interrupt thread of the queue hands such descriptors to an allocator    *)
(* that works in the background, posts a request after Post of them and    *)
(* claims a served request after Claim of them; the allocator starts with  *)
(* a pool of descriptors that fills the gap.  When too many requests wait, *)
(* the queue turns to emergency mode and allocates pages itself.           *)
(*                                                                         *)
(* RBDs are alike, so every list is its length.  One handler runs per      *)
(* queue (iwl_pcie_rx_handle, under rxq->lock) beside the allocator's      *)
(* work.  They share the two lists of the allocator (rba->lock) and the    *)
(* atomic counters req_pending and req_ready; an access to one of those is *)
(* a step, and what a handler or the work does in private is part of the   *)
(* step next to it.                                                        *)
(***************************************************************************)
EXTENDS Naturals, FiniteSets

CONSTANTS
  Queues,       \* receive queues
  DefaultQueue, \* the one that is filled at initialisation
  Claim,        \* RX_CLAIM_REQ_ALLOC
  Post,         \* RX_POST_REQ_ALLOC
  QueueSize,    \* rxq->queue_size; one RBD less is posted to the device
  Batch,        \* RBs an emergency handles between two allocations (8)
  Grain,        \* the write pointer is given to the device in multiples (8)
  MaxFaults,    \* bound: atomic allocations that fail
  MaxRestarts   \* bound: times the device is stopped and started

ASSUME RbdAssumption ==
  /\ IsFiniteSet(Queues) /\ DefaultQueue \in Queues
  /\ Claim \in Nat \ {0} /\ Post \in 1..Claim-1
  /\ QueueSize \in Nat \ {0} /\ Batch \in Nat \ {0} /\ Grain \in Nat \ {0}
  /\ MaxFaults \in Nat /\ MaxRestarts \in Nat

\* Mutant of Pool.
PoolShort == Cardinality(Queues) * (Claim - Post - 1)
\* allocator_pool_size: what Claim RBDs may miss per queue when it posts.
Pool == Cardinality(Queues) * (Claim - Post)

VARIABLES
  pc,          \* per queue: the next step of its handler
  rxq,         \* per queue: its lists and counters
  run,         \* per queue: the local variables of its handler
  hw,          \* RBDs the device may fill
  rbd_empty, rbd_allocated, req_pending, req_ready,   \* the allocator, rba
  work_queued, \* the work is on the workqueue
  wpc,         \* the work: its next step
  pending,     \* the work: requests it still serves in this round
  local_empty, \* the work: RBDs it took from rbd_empty
  local_allocated, \* the work: RBDs with a page, not yet handed out
  enabled,     \* STATUS_DEVICE_ENABLED
  leaked,      \* history: RBDs the allocator got without being counted
  faults, restarts \* bounds: failed allocations and restarts so far

handlerVars == <<pc, rxq, run>>
rbaVars == <<rbd_empty, rbd_allocated, req_pending, req_ready>>
workVars == <<work_queued, wpc, pending, local_empty, local_allocated>>
boundVars == <<faults, restarts>>
vars == <<handlerVars, hw, rbaVars, workVars, enabled, leaked, boundVars>>

(* A queue: RBs the device has filled and the handler has not seen, the    *)
(* used list and how many of it used_count does not count, used_count, the *)
(* free list, and RBDs written to the ring beyond the last multiple.       *)
EmptyQueue == [closed |-> 0, used |-> 0, extra |-> 0, used_count |-> 0,
               free |-> 0, held |-> 0]

IdleRun == [todo |-> 0, emergency |-> FALSE, count |-> 0, rb_pending |-> 0]

----------------------------------------------------------------------------
(* Initialisation *)

\* iwl_pcie_rxmq_restock and inc_wr_ptr: the free RBDs go to the ring; the
\* device is told of them up to the last multiple of Grain.
Written(x) == x.held + x.free
Restocked(x) == [x EXCEPT !.free = 0, !.held = Written(x) % Grain]
Told(x) == Written(x) - (Written(x) % Grain)

\* _iwl_pcie_rx_init then the first restock: the pool goes to the allocator,
\* the other RBDs get a page and are posted by the default queue.
FilledQueue == [EmptyQueue EXCEPT !.free = QueueSize - 1]

Init ==
  /\ pc = [q \in Queues |-> "idle"]
  /\ rxq = [q \in Queues |-> IF q = DefaultQueue THEN Restocked(FilledQueue) ELSE EmptyQueue]
  /\ run = [q \in Queues |-> IdleRun]
  /\ hw = Told(FilledQueue)
  /\ rbd_empty = Pool /\ rbd_allocated = 0
  /\ req_pending = 0 /\ req_ready = 0
  /\ work_queued = FALSE /\ wpc = "idle" /\ pending = 0
  /\ local_empty = 0 /\ local_allocated = 0
  /\ enabled = TRUE /\ leaked = 0 /\ faults = 0 /\ restarts = 0

\* iwl_trans_pcie_stop_device: no more RBs are filled, nothing is restocked.
Stop ==
  /\ enabled /\ restarts < MaxRestarts
  /\ enabled' = FALSE
  /\ restarts' = restarts + 1
  /\ UNCHANGED <<handlerVars, hw, rbaVars, workVars, leaked, faults>>

\* Interrupts are synchronised and the work is cancelled, so neither runs.
Reinit ==
  /\ ~enabled /\ wpc = "idle" /\ \A q \in Queues : pc[q] = "idle"
  /\ rxq' = [q \in Queues |-> IF q = DefaultQueue THEN Restocked(FilledQueue) ELSE EmptyQueue]
  /\ hw' = Told(FilledQueue)
  /\ rbd_empty' = Pool /\ rbd_allocated' = 0
  /\ req_pending' = 0 /\ req_ready' = 0
  /\ work_queued' = FALSE
  /\ enabled' = TRUE /\ leaked' = 0
  /\ UNCHANGED <<pc, run, wpc, pending, local_empty, local_allocated, boundVars>>

\* The device fills a buffer for any queue.
Close(q) ==
  /\ enabled /\ hw > 0
  /\ hw' = hw - 1
  /\ rxq' = [rxq EXCEPT ![q].closed = @ + 1]
  /\ UNCHANGED <<pc, run, rbaVars, workVars, enabled, leaked, boundVars>>

----------------------------------------------------------------------------
(* The handler of a queue: iwl_pcie_rx_handle *)

\* Where the loop goes on: the next RB, or out of the loop.
Loop(todo) == IF todo = 0 THEN "out" ELSE "head"

\* An interrupt, or the jump back to restart: read what the device has closed.
Restart(q) ==
  /\ pc[q] \in {"idle", "restart"}
  /\ run' = [run EXCEPT ![q].todo = rxq[q].closed]
  /\ pc' = [pc EXCEPT ![q] = Loop(rxq[q].closed)]
  /\ UNCHANGED <<rxq, hw, rbaVars, workVars, enabled, leaked, boundVars>>

\* Mutant of EntersEmergency.
EntersNever(q) == FALSE
\* Too many requests wait for pages.
EntersEmergency(q) ==
  req_pending * Claim >= QueueSize \div 2 /\ ~run[q].emergency

\* rb_pending_alloc is used again in emergency mode only.
Head(q) ==
  /\ pc[q] = "head"
  /\ run' = [run EXCEPT ![q].rb_pending =
                 IF EntersEmergency(q) \/ run[q].emergency THEN req_pending * Claim ELSE 0]
  /\ pc' = [pc EXCEPT ![q] = IF EntersEmergency(q) THEN "emergency" ELSE "handle"]
  /\ UNCHANGED <<rxq, hw, rbaVars, workVars, enabled, leaked, boundVars>>

\* Mutant of MoveToAllocator.
MoveForgets(x) == UNCHANGED rbd_empty /\ leaked' = leaked + x.extra
\* iwl_pcie_rx_move_to_allocator: the used list of x becomes empty.
Moved(x) == [x EXCEPT !.used = 0, !.extra = 0]
MoveToAllocator(x) ==
  /\ rbd_empty' = rbd_empty + x.used
  /\ leaked' = leaked + x.extra

EnterEmergency(q) ==
  /\ pc[q] = "emergency"
  /\ MoveToAllocator(rxq[q])
  /\ rxq' = [rxq EXCEPT ![q] = Moved(@)]
  /\ run' = [run EXCEPT ![q].emergency = TRUE]
  /\ pc' = [pc EXCEPT ![q] = "handle"]
  /\ UNCHANGED <<hw, rbd_allocated, req_pending, req_ready, workVars, enabled, boundVars>>

\* After an RB: a queue that is owed Claim RBDs tries to claim a served
\* request; the end of the body does nothing in the middle of a round.
ToTail(q, x, todo) ==
  IF run[q].emergency \/ x.used_count % Claim = 0 THEN "tail" ELSE Loop(todo)
\* Mutant of ToClaim.
ToClaimEarly(q, x, todo) ==
  IF x.used_count >= Post THEN "claim" ELSE ToTail(q, x, todo)
ToClaim(q, x, todo) ==
  IF x.used_count >= Claim THEN "claim" ELSE ToTail(q, x, todo)

\* One RB was handled: the queue after it, without its descriptor.
Consumed(q) == [rxq[q] EXCEPT !.closed = @ - 1]
Step(q, to) ==
  /\ run' = [run EXCEPT ![q].todo = @ - 1]
  /\ pc' = [pc EXCEPT ![q] = to]
  /\ UNCHANGED <<hw, rbd_allocated, req_pending, req_ready, workVars, enabled, boundVars>>

\* iwl_pcie_rx_handle_rb when the page is kept: the RBD is free again.
KeepPage(q) ==
  /\ pc[q] = "handle"
  /\ rxq' = [rxq EXCEPT ![q] = [Consumed(q) EXCEPT !.free = @ + 1]]
  /\ Step(q, ToClaim(q, rxq[q], run[q].todo - 1))
  /\ UNCHANGED <<rbd_empty, leaked>>

\* iwl_pcie_rx_reuse_rbd in emergency mode: the RBD is used, uncounted.
StealEmergency(q) ==
  /\ pc[q] = "handle" /\ run[q].emergency
  /\ rxq' = [rxq EXCEPT ![q] = [Consumed(q) EXCEPT !.used = @ + 1, !.extra = @ + 1]]
  /\ Step(q, ToClaim(q, rxq[q], run[q].todo - 1))
  /\ UNCHANGED <<rbd_empty, leaked>>

\* iwl_pcie_rx_reuse_rbd: the used RBD is counted; with the Post-th of a
\* round the used list moves to the allocator and a request follows.
Posts(n) == n % Claim = Post

StealCounted(q) ==
  LET x == [Consumed(q) EXCEPT !.used = @ + 1, !.used_count = @ + 1]
  IN  /\ pc[q] = "handle" /\ ~run[q].emergency
      /\ IF Posts(x.used_count)
         THEN /\ MoveToAllocator(x)
              /\ rxq' = [rxq EXCEPT ![q] = Moved(x)]
              /\ Step(q, "post")
         ELSE /\ rxq' = [rxq EXCEPT ![q] = x]
              /\ Step(q, ToClaim(q, x, run[q].todo - 1))
              /\ UNCHANGED <<rbd_empty, leaked>>

\* iwl_pcie_get_rxb does not know the RBD: the loop is left.
UnknownRbd(q) ==
  /\ pc[q] = "handle"
  /\ pc' = [pc EXCEPT ![q] = "out"]
  /\ UNCHANGED <<rxq, run, hw, rbaVars, workVars, enabled, leaked, boundVars>>

PostRequest(q) ==
  /\ pc[q] = "post"
  /\ req_pending' = req_pending + 1
  /\ pc' = [pc EXCEPT ![q] = "queue_work"]
  /\ UNCHANGED <<rxq, run, hw, rbd_empty, rbd_allocated, req_ready, workVars, enabled, leaked, boundVars>>

\* Mutant of QueueWork.
QueueWorkIfIdle(q) ==
  /\ pc[q] = "queue_work"
  /\ work_queued' = (work_queued \/ wpc = "idle")
  /\ pc' = [pc EXCEPT ![q] = ToClaim(q, rxq[q], run[q].todo)]
  /\ UNCHANGED <<rxq, run, hw, rbaVars, wpc, pending, local_empty, local_allocated, enabled, leaked, boundVars>>

QueueWork(q) ==
  /\ pc[q] = "queue_work"
  /\ work_queued' = TRUE
  /\ pc' = [pc EXCEPT ![q] = ToClaim(q, rxq[q], run[q].todo)]
  /\ UNCHANGED <<rxq, run, hw, rbaVars, wpc, pending, local_empty, local_allocated, enabled, leaked, boundVars>>

\* iwl_pcie_rx_allocator_get: atomic_dec_if_positive, then take Claim RBDs.
ClaimNone(q) ==
  /\ pc[q] = "claim" /\ req_ready = 0
  /\ pc' = [pc EXCEPT ![q] = ToTail(q, rxq[q], run[q].todo)]
  /\ UNCHANGED <<rxq, run, hw, rbaVars, workVars, enabled, leaked, boundVars>>

\* Mutant of ClaimReady.
ClaimReadyKept(q) ==
  /\ pc[q] = "claim" /\ req_ready > 0
  /\ pc' = [pc EXCEPT ![q] = "take"]
  /\ UNCHANGED <<rxq, run, hw, rbaVars, workVars, enabled, leaked, boundVars>>

ClaimReady(q) ==
  /\ pc[q] = "claim" /\ req_ready > 0
  /\ req_ready' = req_ready - 1
  /\ pc' = [pc EXCEPT ![q] = "take"]
  /\ UNCHANGED <<rxq, run, hw, rbd_empty, rbd_allocated, req_pending, workVars, enabled, leaked, boundVars>>

Take(q) ==
  /\ pc[q] = "take"
  /\ rbd_allocated' = rbd_allocated - Claim
  /\ rxq' = [rxq EXCEPT ![q].free = @ + Claim, ![q].used_count = @ - Claim]
  /\ pc' = [pc EXCEPT ![q] = ToTail(q, rxq[q], run[q].todo)]
  /\ UNCHANGED <<run, hw, rbd_empty, req_pending, req_ready, workVars, enabled, leaked, boundVars>>

\* The end of the loop's body: hand over the rest of a round ...
TailMove(q) ==
  /\ pc[q] = "tail" /\ ~run[q].emergency
  /\ MoveToAllocator(rxq[q])
  /\ rxq' = [rxq EXCEPT ![q] = Moved(@)]
  /\ pc' = [pc EXCEPT ![q] = Loop(run[q].todo)]
  /\ UNCHANGED <<run, hw, rbd_allocated, req_pending, req_ready, workVars, enabled, boundVars>>

\* ... or count, and after Batch RBs leave the loop to allocate pages here.
\* The mode ends by the value read before this RB was handled.
EndsEmergency(q) == run[q].rb_pending < QueueSize \div 3

TailEmergency(q) ==
  /\ pc[q] = "tail" /\ run[q].emergency
  /\ IF run[q].count + 1 = Batch
     THEN /\ run' = [run EXCEPT ![q].count = 0, ![q].emergency = ~EndsEmergency(q)]
          /\ pc' = [pc EXCEPT ![q] = "batch"]
     ELSE /\ run' = [run EXCEPT ![q].count = @ + 1]
          /\ pc' = [pc EXCEPT ![q] = Loop(run[q].todo)]
  /\ UNCHANGED <<rxq, hw, rbaVars, workVars, enabled, leaked, boundVars>>

\* iwl_pcie_rxq_alloc_rbs with GFP_ATOMIC: pages for the used list, until an
\* allocation or a mapping fails; left is what still has no page.
Allocated(x, left) ==
  [x EXCEPT !.used = left, !.extra = left, !.free = @ + (x.used - left)]
Failures(left) == IF left = 0 THEN 0 ELSE 1
AllocFails(left) ==
  faults + Failures(left) <= MaxFaults /\ faults' = faults + Failures(left)

\* iwl_pcie_rxq_restock, which does nothing once the device is stopped.
Restock(q, x) ==
  /\ hw' = IF enabled THEN hw + Told(x) ELSE hw
  /\ rxq' = [rxq EXCEPT ![q] = IF enabled THEN Restocked(x) ELSE x]

BatchAlloc(q) ==
  /\ pc[q] = "batch"
  /\ \E left \in 0..rxq[q].used :
       AllocFails(left) /\ Restock(q, Allocated(rxq[q], left))
  /\ pc' = [pc EXCEPT ![q] = "restart"]
  /\ UNCHANGED <<run, rbaVars, workVars, enabled, leaked, restarts>>

\* Mutant of AllocsOnExit.
AllocsNever(q) == FALSE
\* Out of the loop: RBDs an emergency left without a page get one here.
AllocsOnExit(q) == run[q].emergency /\ run[q].count > 0

Out(q) ==
  /\ pc[q] = "out"
  /\ IF AllocsOnExit(q)
     THEN \E left \in 0..rxq[q].used :
            AllocFails(left) /\ Restock(q, Allocated(rxq[q], left))
     ELSE Restock(q, rxq[q]) /\ UNCHANGED faults
  /\ run' = [run EXCEPT ![q] = IdleRun]
  /\ pc' = [pc EXCEPT ![q] = "idle"]
  /\ UNCHANGED <<rbaVars, workVars, enabled, leaked, restarts>>

----------------------------------------------------------------------------
(* The work of the allocator: iwl_pcie_rx_allocator *)

WorkStart ==
  /\ wpc = "idle" /\ work_queued
  /\ work_queued' = FALSE
  /\ pending' = req_pending
  /\ wpc' = "swap"
  /\ UNCHANGED <<handlerVars, hw, rbaVars, local_empty, local_allocated, enabled, leaked, boundVars>>

More(n) == IF n = 0 THEN "return" ELSE "serve"

WorkSwap ==
  /\ wpc = "swap"
  /\ local_empty' = rbd_empty
  /\ rbd_empty' = 0
  /\ wpc' = More(pending)
  /\ UNCHANGED <<handlerVars, hw, rbd_allocated, req_pending, req_ready, work_queued, pending,
                 local_allocated, enabled, leaked, boundVars>>

\* Claim RBDs get a page (a failed allocation is tried again, for ever), and
\* the request is no longer pending.
WorkServe ==
  /\ wpc = "serve" /\ local_empty >= Claim
  /\ local_empty' = local_empty - Claim
  /\ local_allocated' = local_allocated + Claim
  /\ req_pending' = req_pending - 1
  /\ pending' = pending - 1
  /\ wpc' = IF pending' = 0 THEN "reread" ELSE "splice"
  /\ UNCHANGED <<handlerVars, hw, rbd_empty, rbd_allocated, req_ready, work_queued, enabled, leaked, boundVars>>

WorkReread ==
  /\ wpc = "reread"
  /\ pending' = req_pending
  /\ wpc' = "splice"
  /\ UNCHANGED <<handlerVars, hw, rbaVars, work_queued, local_empty, local_allocated, enabled, leaked, boundVars>>

WorkSplice ==
  /\ wpc = "splice"
  /\ rbd_allocated' = rbd_allocated + local_allocated
  /\ local_allocated' = 0
  /\ local_empty' = local_empty + rbd_empty
  /\ rbd_empty' = 0
  /\ wpc' = "ready"
  /\ UNCHANGED <<handlerVars, hw, req_pending, req_ready, work_queued, pending, enabled, leaked, boundVars>>

WorkReady ==
  /\ wpc = "ready"
  /\ req_ready' = req_ready + 1
  /\ wpc' = More(pending)
  /\ UNCHANGED <<handlerVars, hw, rbd_empty, rbd_allocated, req_pending, work_queued, pending,
                 local_empty, local_allocated, enabled, leaked, boundVars>>

WorkReturn ==
  /\ wpc = "return"
  /\ rbd_empty' = rbd_empty + local_empty
  /\ local_empty' = 0
  /\ wpc' = "idle"
  /\ UNCHANGED <<handlerVars, hw, rbd_allocated, req_pending, req_ready, work_queued, pending,
                 local_allocated, enabled, leaked, boundVars>>

----------------------------------------------------------------------------

Work ==
  \/ WorkStart \/ WorkSwap \/ WorkServe \/ WorkReread
  \/ WorkSplice \/ WorkReady \/ WorkReturn

Handle(q) ==
  \/ Restart(q) \/ Head(q) \/ EnterEmergency(q)
  \/ KeepPage(q) \/ StealEmergency(q) \/ StealCounted(q) \/ UnknownRbd(q)
  \/ PostRequest(q) \/ QueueWork(q)
  \/ ClaimNone(q) \/ ClaimReady(q) \/ Take(q)
  \/ TailMove(q) \/ TailEmergency(q)
  \/ BatchAlloc(q) \/ Out(q)

Next ==
  \/ Work
  \/ \E q \in Queues : Handle(q) \/ Close(q)
  \/ Stop \/ Reinit

Spec == Init /\ [][Next]_vars

(* The workqueue runs the work, and a handler that runs goes on; a page is *)
(* found in the end for an allocation that may sleep.                      *)
FairSpec ==
  /\ Spec
  /\ WF_vars(Work)
  /\ \A q \in Queues : WF_vars(pc[q] # "idle" /\ Handle(q))

----------------------------------------------------------------------------
(* Properties *)

QueueSteps == {"idle", "restart", "head", "emergency", "handle", "post", "queue_work",
               "claim", "take", "tail", "batch", "out"}
WorkSteps == {"idle", "swap", "serve", "reread", "splice", "ready", "return"}
QueueState == [closed : Nat, used : Nat, extra : Nat, used_count : Nat, free : Nat,
               held : 0..Grain-1]
RunState == [todo : Nat, emergency : BOOLEAN, count : 0..Batch-1, rb_pending : Nat]

(* The counters never go below zero and the state has its form. *)
TypeOK ==
  /\ pc \in [Queues -> QueueSteps]
  /\ rxq \in [Queues -> QueueState]
  /\ run \in [Queues -> RunState]
  /\ hw \in Nat /\ rbd_empty \in Nat /\ rbd_allocated \in Nat
  /\ req_pending \in Nat /\ req_ready \in Nat
  /\ work_queued \in BOOLEAN /\ wpc \in WorkSteps
  /\ pending \in Nat /\ local_empty \in Nat /\ local_allocated \in Nat
  /\ enabled \in BOOLEAN /\ leaked \in Nat
  /\ faults \in 0..MaxFaults /\ restarts \in 0..MaxRestarts

\* Handlers at a step; a request the work has served and not made ready.
Finishing == IF wpc \in {"reread", "splice", "ready"} THEN 1 ELSE 0
At(step) == {q \in Queues : pc[q] = step}

\* What the queues have together when queue q has n[q].
Total(n) == Cardinality(UNION {{q} \X (1..n[q]) : q \in Queues})

(* Every RBD is in one place: with the device, in a list of a queue, or    *)
(* with the allocator.                                                     *)
Conserved ==
  LET n == [q \in Queues |->
               rxq[q].closed + rxq[q].used + rxq[q].free + rxq[q].held]
  IN  hw + Total(n) + rbd_empty + local_empty + local_allocated + rbd_allocated
        = QueueSize - 1 + Pool

(* BUG_ON(list_empty(&local_empty)) in the allocator's work: "each reused  *)
(* RBD is returned to the list, and initial pool covers any possible gap". *)
AllocatorNeverEmpty == wpc = "serve" => local_empty >= Claim

(* A queue that was granted a request finds the RBDs of it: what has a     *)
(* page and is not spliced yet, or is on rbd_allocated, is Claim for every *)
(* request that is being finished, ready or granted and not taken.         *)
ClaimFinds ==
  /\ rbd_allocated + local_allocated
       = Claim * (req_ready + Cardinality(At("take")) + Finishing)
  /\ At("take") # {} => rbd_allocated >= Claim

(* "There is no need to reschedule work - allocator exits only on success":*)
(* a request the work does not see any more has queued the work again.     *)
NoLostRequest ==
  wpc \in {"idle", "return"} /\ req_pending > 0
    => work_queued \/ At("queue_work") # {}

(* RBDs reach the allocator uncounted, which the queue can never claim     *)
(* back, only after an atomic allocation has failed.                       *)
UntrackedOnlyAfterFailure == leaked > 0 => faults > 0

(* RX never stops for good: when nothing is left to handle and no page     *)
(* allocation has failed, the device has a buffer to fill.                 *)
NeverStalls ==
  /\ enabled /\ faults = 0
  /\ \A q \in Queues : pc[q] = "idle" /\ rxq[q].closed = 0
  => hw > 0

(* The handler's comment: "unallocated emergency RBDs must be allocated on *)
(* exit", or they are "handed to the allocator with no tracking".          *)
NeverUntracked == leaked = 0

(* The allocator implements the service of RbdService: a descriptor is     *)
(* lent when it is counted, a request is asked for from then until it is   *)
(* ready, and claimed when the RBDs are taken.                             *)
Service == INSTANCE RbdService WITH
  lent <- [q \in Queues |-> rxq[q].used_count],
  asked <- req_pending + Cardinality(At("post"))
             + Finishing,
  ready <- req_ready + Cardinality(At("take"))

(* Every lend, request, service and claim of the code is one of RbdService,*)
(* and every request is served.                                            *)
ImplementsService == Service!Spec
=============================================================================
