------------------------- MODULE RbdAllocatorProof -------------------------
(***************************************************************************)
(* Proofs about RbdAllocator for any number of queues and any sizes: the   *)
(* counters stay natural numbers, a granted queue finds its RBDs, no       *)
(* request is forgotten by the work, every step is a step of RbdService,   *)
(* descriptors are conserved, they are lost track of only after a failed   *)
(* allocation, the work never finds the allocator's list empty, and in a   *)
(* ring with room the device never runs out of buffers for good.           *)
(***************************************************************************)
EXTENDS RbdAllocator, FiniteSetTheorems, TLAPS

(* What a handler knows of its own queue between two steps. *)
HandlerInv ==
  \A q \in Queues :
    /\ run[q].todo <= rxq[q].closed
    /\ pc[q] = "idle" => run[q].todo = 0
    /\ pc[q] \in {"head", "emergency", "handle"} => run[q].todo > 0
    /\ pc[q] \in {"claim", "take"} => rxq[q].used_count >= Claim

(* What the work knows of the requests: it never counts more than there    *)
(* are.                                                                    *)
WorkInv ==
  /\ pending <= req_pending
  /\ wpc \in {"idle", "return", "reread"} => pending = 0
  /\ wpc = "serve" => pending > 0
  /\ local_allocated = IF wpc \in {"reread", "splice"} THEN Claim ELSE 0

(* rbd_allocated holds Claim RBDs per request that is ready or granted.    *)
Spliced == IF wpc = "ready" THEN 1 ELSE 0
GrantInv ==
  rbd_allocated = Claim * (req_ready + Cardinality(At("take")) + Spliced)

(* A request the work has not counted has queued the work, or is about to. *)
CoverInv ==
  work_queued \/ At("queue_work") # {} \/ req_pending = pending

IInv == TypeOK /\ HandlerInv /\ WorkInv /\ GrantInv /\ CoverInv

----------------------------------------------------------------------------
(* Arithmetic and cardinalities *)

(* A remainder is smaller than its divisor and not larger than the number. *)
LEMMA ModFacts ==
  ASSUME NEW n \in Nat, NEW d \in Nat \ {0}
  PROVE  n % d \in 0..d-1 /\ n % d <= n
PROOF BY SMT

(* The multiples of Claim that a request more or less makes. *)
LEMMA Multiples ==
  ASSUME NEW n \in Nat
  PROVE  /\ Claim * n \in Nat
         /\ Claim * (n + 1) = Claim * n + Claim
         /\ n > 0 => Claim * n >= Claim
PROOF BY RbdAssumption, SMT

(* The handlers at a step are finitely many. *)
LEMMA AtFinite ==
  ASSUME NEW s
  PROVE  IsFiniteSet(At(s)) /\ Cardinality(At(s)) \in Nat
PROOF
<1>1. IsFiniteSet(At(s))
  BY FS_Subset, RbdAssumption DEF At
<1> QED BY <1>1, FS_CardinalityType

(* A handler that moves from one step to another changes who is at a step  *)
(* by itself alone.                                                        *)
LEMMA AtMove ==
  ASSUME NEW q \in Queues, NEW t, NEW s,
         pc \in [Queues -> QueueSteps], t # pc[q],
         pc' = [pc EXCEPT ![q] = t]
  PROVE  /\ pc[q] # s /\ t # s => At(s)' = At(s)
         /\ t = s => Cardinality(At(s)') = Cardinality(At(s)) + 1
         /\ pc[q] = s => Cardinality(At(s)) = Cardinality(At(s)') + 1
PROOF
<1>1. IsFiniteSet(At(s)) /\ IsFiniteSet(At(s)')
  BY FS_Subset, RbdAssumption DEF At
<1>2. Cardinality(At(s)) \in Nat /\ Cardinality(At(s)') \in Nat
  BY <1>1, FS_CardinalityType
<1>3. pc[q] # s /\ t # s => At(s)' = At(s)
  BY DEF At
<1>4. ASSUME t = s PROVE Cardinality(At(s)') = Cardinality(At(s)) + 1
  <2>1. At(s)' = At(s) \cup {q} /\ q \notin At(s)
    BY <1>4 DEF At
  <2> QED BY <2>1, <1>1, FS_AddElement
<1>5. ASSUME pc[q] = s PROVE Cardinality(At(s)) = Cardinality(At(s)') + 1
  <2>1. At(s) = At(s)' \cup {q} /\ q \notin At(s)'
    BY <1>5 DEF At
  <2> QED BY <2>1, <1>1, FS_AddElement
<1> QED BY <1>2, <1>3, <1>4, <1>5

----------------------------------------------------------------------------
(* Steps *)

(* Restocking keeps the form of a queue and tells the device of a natural  *)
(* number of RBDs.                                                         *)
LEMMA RestockType ==
  ASSUME NEW x \in QueueState
  PROVE  Told(x) \in Nat /\ Restocked(x) \in QueueState
PROOF
<1>1. Written(x) \in Nat
  BY RbdAssumption DEF Written, QueueState
<1>2. Written(x) % Grain \in 0..Grain-1 /\ Written(x) % Grain <= Written(x)
  BY <1>1, ModFacts, RbdAssumption
<1>3. Told(x) \in Nat
  BY <1>1, <1>2 DEF Told
<1>4. Restocked(x) \in QueueState
  BY <1>2 DEF Restocked, QueueState
<1> QED BY <1>3, <1>4

(* So does every change a handler makes to its queue. *)
LEMMA QueueTypes ==
  ASSUME NEW x \in QueueState
  PROVE  /\ Moved(x) \in QueueState
         /\ x.closed > 0 => [x EXCEPT !.closed = @ - 1] \in QueueState
         /\ [x EXCEPT !.free = @ + 1] \in QueueState
         /\ [x EXCEPT !.used = @ + 1, !.extra = @ + 1] \in QueueState
         /\ [x EXCEPT !.used = @ + 1, !.used_count = @ + 1] \in QueueState
PROOF
<1>1. Moved(x) \in QueueState
  BY DEF Moved, QueueState
<1>2. x.closed > 0 => [x EXCEPT !.closed = @ - 1] \in QueueState
  BY DEF QueueState
<1>3. [x EXCEPT !.free = @ + 1] \in QueueState
  BY DEF QueueState
<1> DEFINE u == x.used + 1
           e == x.extra + 1
           c == x.used_count + 1
<1>0. u \in Nat /\ e \in Nat /\ c \in Nat
  BY DEF QueueState
<1>4. [x EXCEPT !.used = u, !.extra = e] \in QueueState
  <2> HIDE DEF u, e
  <2> QED BY <1>0 DEF QueueState
<1>5. [x EXCEPT !.used = u, !.used_count = c] \in QueueState
  <2> HIDE DEF u, c
  <2> QED BY <1>0 DEF QueueState
<1> QED BY <1>1, <1>2, <1>3, <1>4, <1>5

(* And an update of one queue by a queue of the right form. *)
LEMMA UpdateType ==
  ASSUME NEW f \in [Queues -> QueueState], NEW q \in Queues, NEW x \in QueueState
  PROVE  [f EXCEPT ![q] = x] \in [Queues -> QueueState]
PROOF OBVIOUS

(* Allocating pages keeps it too. *)
LEMMA AllocatedType ==
  ASSUME NEW x \in QueueState, NEW left \in 0..x.used
  PROVE  Allocated(x, left) \in QueueState
PROOF
<1>1. left \in Nat /\ x.free + (x.used - left) \in Nat
  BY DEF QueueState
<1> QED BY <1>1 DEF Allocated, QueueState

(* The queues after initialisation. *)
LEMMA FilledType ==
  /\ EmptyQueue \in QueueState
  /\ FilledQueue \in QueueState
PROOF
<1>1. EmptyQueue \in QueueState
  BY RbdAssumption DEF EmptyQueue, QueueState
<1> QED BY <1>1, RbdAssumption DEF FilledQueue, EmptyQueue, QueueState

(* The allocator's initial pool. *)
LEMMA PoolType == Pool \in Nat
PROOF
<1>1. Cardinality(Queues) \in Nat
  BY FS_CardinalityType, RbdAssumption
<1>2. Claim - Post \in Nat
  BY RbdAssumption
<1> QED BY <1>1, <1>2 DEF Pool

(* A queue that was granted a request finds Claim RBDs. *)
LEMMA GrantedFinds == IInv => ClaimFinds
PROOF
<1> SUFFICES ASSUME IInv PROVE ClaimFinds
  OBVIOUS
<1> DEFINE takers == Cardinality(At("take"))
<1>1. IsFiniteSet(At("take"))
  BY FS_Subset, RbdAssumption DEF At
<1>2. takers \in Nat /\ (At("take") # {} => takers > 0)
  BY <1>1, FS_CardinalityType, FS_EmptySet
<1>3. rbd_allocated + local_allocated = Claim * (req_ready + takers + Finishing)
  <2>1. CASE wpc \in {"reread", "splice"}
    <3>1. Claim * (req_ready + takers + 1) = Claim * (req_ready + takers) + Claim
      BY <1>2, Multiples DEF IInv, TypeOK
    <3> QED BY <2>1, <3>1, <1>2, RbdAssumption DEF IInv, TypeOK, WorkInv, GrantInv,
        Spliced, Finishing
  <2>2. CASE wpc \notin {"reread", "splice"}
    <3>1. local_allocated = 0 /\ Spliced = Finishing
      BY <2>2 DEF IInv, WorkInv, Spliced, Finishing
    <3> QED BY <3>1 DEF IInv, TypeOK, GrantInv
  <2> QED BY <2>1, <2>2
<1>4. At("take") # {} => rbd_allocated >= Claim
  BY <1>2, Multiples DEF IInv, TypeOK, GrantInv, Spliced
<1> QED BY <1>3, <1>4 DEF ClaimFinds

(* The initial state satisfies the invariant. *)
LEMMA InitInv == Init => IInv
PROOF
<1> SUFFICES ASSUME Init PROVE IInv
  OBVIOUS
<1>3. At("take") = {} /\ Cardinality(At("take")) = 0
  BY FS_EmptySet DEF Init, At
<1>4. TypeOK
  <2>1. rxq \in [Queues -> QueueState] /\ hw \in Nat
    BY FilledType, RestockType DEF Init
  <2>2. run \in [Queues -> RunState]
    BY RbdAssumption DEF Init, RunState, IdleRun
  <2>3. pc \in [Queues -> QueueSteps] /\ wpc \in WorkSteps
    BY DEF Init, QueueSteps, WorkSteps
  <2>4. faults \in 0..MaxFaults /\ restarts \in 0..MaxRestarts
    BY RbdAssumption DEF Init
  <2> QED BY <2>1, <2>2, <2>3, <2>4, PoolType DEF Init, TypeOK
<1>5. HandlerInv
  BY DEF Init, HandlerInv, IdleRun, EmptyQueue, FilledQueue, Restocked
<1>6. WorkInv /\ GrantInv /\ CoverInv
  BY <1>3, RbdAssumption DEF Init, WorkInv, GrantInv, CoverInv, Spliced
<1> QED BY <1>4, <1>5, <1>6 DEF IInv

(* Every step keeps the types: no counter goes below zero. *)
LEMMA TypeStep == IInv /\ [Next]_vars => TypeOK'
PROOF
<1> SUFFICES ASSUME IInv, [Next]_vars PROVE TypeOK'
  OBVIOUS
<1> USE RbdAssumption
<1>0. TypeOK /\ HandlerInv /\ WorkInv /\ ClaimFinds
  BY GrantedFinds DEF IInv
<1>1. ASSUME NEW q \in Queues, Handle(q) \/ Close(q) PROVE TypeOK'
  <2>1. CASE Restart(q)
    BY <2>1, <1>0 DEF Restart, Loop, IdleRun, TypeOK, QueueSteps, WorkSteps,
        QueueState, RunState, handlerVars, rbaVars, workVars, boundVars
  <2>2. CASE Head(q)
    BY <2>2, <1>0 DEF Head, EntersEmergency, TypeOK, QueueSteps, WorkSteps, QueueState,
        RunState, handlerVars, rbaVars, workVars, boundVars
  <2>3. CASE EnterEmergency(q)
    <3>1. rxq' \in [Queues -> QueueState] /\ rbd_empty' \in Nat /\ leaked' \in Nat
      <4>1. rxq[q] \in QueueState /\ Moved(rxq[q]) \in QueueState
        BY <1>0, QueueTypes DEF TypeOK
      <4>2. rxq' \in [Queues -> QueueState]
        BY <1>0, <2>3, <4>1, UpdateType DEF EnterEmergency, TypeOK
      <4> QED BY <1>0, <2>3, <4>1, <4>2 DEF EnterEmergency, MoveToAllocator, TypeOK,
          QueueState
    <3>2. run' \in [Queues -> RunState]
      BY <1>0, <2>3 DEF HandlerInv, EnterEmergency, TypeOK, RunState, handlerVars,
          rbaVars, workVars, boundVars
    <3>3. pc' \in [Queues -> QueueSteps]
      BY <1>0, <2>3 DEF EnterEmergency, MoveToAllocator, Moved, TypeOK, QueueSteps
    <3> QED BY <1>0, <2>3, <3>1, <3>2, <3>3 DEF EnterEmergency, TypeOK, handlerVars,
        rbaVars, workVars, boundVars
  <2>4. CASE KeepPage(q)
    <3>1. rxq' \in [Queues -> QueueState] /\ rbd_empty' \in Nat /\ leaked' \in Nat
      <4>1. rxq[q] \in QueueState /\ rxq[q].closed > 0
        BY <1>0, <2>4 DEF KeepPage, HandlerInv, TypeOK, QueueState, RunState
      <4>2. Consumed(q) \in QueueState
        BY <4>1, QueueTypes DEF Consumed
      <4>3. [Consumed(q) EXCEPT !.free = @ + 1] \in QueueState
        BY <4>2, QueueTypes
      <4> QED BY <1>0, <2>4, <4>3, UpdateType DEF KeepPage, TypeOK
    <3>2. run' \in [Queues -> RunState]
      BY <1>0, <2>4 DEF HandlerInv, KeepPage, Step, TypeOK, RunState, handlerVars,
          rbaVars, workVars, boundVars
    <3>3. pc' \in [Queues -> QueueSteps]
      BY <1>0, <2>4 DEF KeepPage, Step, Consumed, ToClaim, ToTail, Loop, TypeOK,
          QueueSteps
    <3> QED BY <1>0, <2>4, <3>1, <3>2, <3>3 DEF KeepPage, Step, TypeOK, handlerVars,
        rbaVars, workVars, boundVars
  <2>5. CASE StealEmergency(q)
    <3>1. rxq' \in [Queues -> QueueState] /\ rbd_empty' \in Nat /\ leaked' \in Nat
      <4>1. rxq[q] \in QueueState /\ rxq[q].closed > 0
        BY <1>0, <2>5 DEF StealEmergency, HandlerInv, TypeOK, QueueState, RunState
      <4>2. Consumed(q) \in QueueState
        BY <4>1, QueueTypes DEF Consumed
      <4>3. [Consumed(q) EXCEPT !.used = @ + 1, !.extra = @ + 1] \in QueueState
        BY <4>2, QueueTypes
      <4> QED BY <1>0, <2>5, <4>3, UpdateType DEF StealEmergency, TypeOK
    <3>2. run' \in [Queues -> RunState]
      BY <1>0, <2>5 DEF HandlerInv, StealEmergency, Step, TypeOK, RunState,
          handlerVars, rbaVars, workVars, boundVars
    <3>3. pc' \in [Queues -> QueueSteps]
      BY <1>0, <2>5 DEF StealEmergency, Step, Consumed, ToClaim, ToTail, Loop, TypeOK,
          QueueSteps
    <3> QED BY <1>0, <2>5, <3>1, <3>2, <3>3 DEF StealEmergency, Step, TypeOK,
        handlerVars, rbaVars, workVars, boundVars
  <2>6. CASE StealCounted(q)
    <3>1. rxq' \in [Queues -> QueueState] /\ rbd_empty' \in Nat /\ leaked' \in Nat
      <4>1. rxq[q] \in QueueState /\ rxq[q].closed > 0
        BY <1>0, <2>6 DEF StealCounted, HandlerInv, TypeOK, QueueState, RunState
      <4>2. Consumed(q) \in QueueState
        BY <4>1, QueueTypes DEF Consumed
      <4> DEFINE x == [Consumed(q) EXCEPT !.used = @ + 1, !.used_count = @ + 1]
      <4>3. x \in QueueState /\ Moved(x) \in QueueState
        BY <4>2, QueueTypes
      <4>4. \/ rxq' = [rxq EXCEPT ![q] = Moved(x)] /\ MoveToAllocator(x)
            \/ rxq' = [rxq EXCEPT ![q] = x] /\ UNCHANGED <<rbd_empty, leaked>>
        BY <2>6 DEF StealCounted
      <4> HIDE DEF x
      <4>5. x.used \in Nat /\ x.extra \in Nat
        BY <4>3 DEF QueueState
      <4> QED BY <1>0, <4>3, <4>4, <4>5, UpdateType DEF MoveToAllocator, TypeOK
    <3>2. run' \in [Queues -> RunState]
      BY <1>0, <2>6 DEF HandlerInv, StealCounted, Step, TypeOK, RunState, handlerVars,
          rbaVars, workVars, boundVars
    <3>3. pc' \in [Queues -> QueueSteps]
      BY <1>0, <2>6 DEF StealCounted, Step, Consumed, ToClaim, ToTail, Loop,
          MoveToAllocator, Moved, Posts, TypeOK, QueueSteps
    <3> QED BY <1>0, <2>6, <3>1, <3>2, <3>3 DEF StealCounted, Step, TypeOK,
        handlerVars, rbaVars, workVars, boundVars
  <2>7. CASE UnknownRbd(q)
    BY <2>7, <1>0 DEF UnknownRbd, TypeOK, QueueSteps, WorkSteps, QueueState, RunState,
        handlerVars, rbaVars, workVars, boundVars
  <2>8. CASE PostRequest(q)
    BY <2>8, <1>0 DEF PostRequest, TypeOK, QueueSteps, WorkSteps, QueueState, RunState,
        handlerVars, rbaVars, workVars, boundVars
  <2>9. CASE QueueWork(q)
    BY <2>9, <1>0 DEF QueueWork, ToClaim, ToTail, Loop, TypeOK, QueueSteps, WorkSteps,
        QueueState, RunState, handlerVars, rbaVars, workVars, boundVars
  <2>10. CASE ClaimNone(q)
    BY <2>10, <1>0 DEF ClaimNone, ToTail, Loop, TypeOK, QueueSteps, WorkSteps,
        QueueState, RunState, handlerVars, rbaVars, workVars, boundVars
  <2>11. CASE ClaimReady(q)
    BY <2>11, <1>0 DEF ClaimReady, TypeOK, QueueSteps, WorkSteps, QueueState, RunState,
        handlerVars, rbaVars, workVars, boundVars
  <2>12. CASE Take(q)
    <3>1. rbd_allocated >= Claim /\ rxq[q].used_count >= Claim
      BY <1>0, <2>12 DEF Take, ClaimFinds, At, HandlerInv
    <3> QED BY <1>0, <2>12, <3>1 DEF Take, ToTail, Loop, TypeOK, QueueSteps, WorkSteps,
        QueueState, RunState, handlerVars, rbaVars, workVars, boundVars
  <2>13. CASE TailMove(q)
    <3>1. rxq' \in [Queues -> QueueState] /\ rbd_empty' \in Nat /\ leaked' \in Nat
      <4>1. rxq[q] \in QueueState /\ Moved(rxq[q]) \in QueueState
        BY <1>0, QueueTypes DEF TypeOK
      <4>2. rxq' \in [Queues -> QueueState]
        BY <1>0, <2>13, <4>1, UpdateType DEF TailMove, TypeOK
      <4> QED BY <1>0, <2>13, <4>1, <4>2 DEF TailMove, MoveToAllocator, TypeOK,
          QueueState
    <3>2. run' \in [Queues -> RunState]
      BY <1>0, <2>13 DEF HandlerInv, TailMove, TypeOK, RunState, handlerVars, rbaVars,
          workVars, boundVars
    <3>3. pc' \in [Queues -> QueueSteps]
      BY <1>0, <2>13 DEF TailMove, MoveToAllocator, Moved, Loop, TypeOK, QueueSteps
    <3> QED BY <1>0, <2>13, <3>1, <3>2, <3>3 DEF TailMove, TypeOK, handlerVars,
        rbaVars, workVars, boundVars
  <2>14. CASE TailEmergency(q)
    <3>1. rxq' = rxq
      BY <2>14 DEF TailEmergency
    <3>2. run' \in [Queues -> RunState]
      BY <1>0, <2>14 DEF HandlerInv, TailEmergency, EndsEmergency, TypeOK, RunState,
          handlerVars, rbaVars, workVars, boundVars
    <3>3. pc' \in [Queues -> QueueSteps]
      BY <1>0, <2>14 DEF TailEmergency, EndsEmergency, Loop, TypeOK, QueueSteps
    <3> QED BY <1>0, <2>14, <3>1, <3>2, <3>3 DEF TailEmergency, EndsEmergency, TypeOK,
        handlerVars, rbaVars, workVars, boundVars
  <2>15. CASE BatchAlloc(q)
    <3>2. PICK left \in 0..rxq[q].used :
            AllocFails(left) /\ Restock(q, Allocated(rxq[q], left))
      BY <2>15 DEF BatchAlloc
    <3>3. Allocated(rxq[q], left) \in QueueState
      BY <1>0, AllocatedType DEF TypeOK
    <3>4. rxq' \in [Queues -> QueueState] /\ hw' \in Nat /\ faults' \in 0..MaxFaults
      BY <1>0, RestockType, <3>2, <3>3 DEF Restock, AllocFails, Failures, TypeOK
    <3> QED BY <1>0, <2>15, <3>4 DEF BatchAlloc, TypeOK, QueueSteps, WorkSteps,
        QueueState, RunState, handlerVars, rbaVars, workVars, boundVars
  <2>16. CASE Out(q)
    <3>2. \E x \in QueueState : Restock(q, x)
      <4>1. CASE AllocsOnExit(q)
        <5>1. PICK left \in 0..rxq[q].used : Restock(q, Allocated(rxq[q], left))
          BY <2>16, <4>1 DEF Out
        <5>2. Allocated(rxq[q], left) \in QueueState
          BY <1>0, AllocatedType DEF TypeOK
        <5> QED BY <5>1, <5>2
      <4>2. CASE ~AllocsOnExit(q)
        BY <1>0, <2>16, <4>2 DEF Out, TypeOK
      <4> QED BY <4>1, <4>2
    <3>3. rxq' \in [Queues -> QueueState] /\ hw' \in Nat
      BY <1>0, RestockType, <3>2 DEF Restock, TypeOK
    <3>4. faults' \in 0..MaxFaults
      BY <1>0, <2>16 DEF Out, AllocFails, Failures, TypeOK
    <3>5. run' \in [Queues -> RunState] /\ pc' \in [Queues -> QueueSteps]
      BY <1>0, <2>16 DEF Out, IdleRun, TypeOK, RunState, QueueSteps
    <3> QED BY <1>0, <2>16, <3>3, <3>4, <3>5 DEF Out, TypeOK, handlerVars, rbaVars,
        workVars, boundVars
  <2>17. CASE Close(q)
    BY <2>17, <1>0 DEF Close, TypeOK, QueueSteps, WorkSteps, QueueState, RunState,
        handlerVars, rbaVars, workVars, boundVars
  <2> QED BY <1>1, <2>1, <2>2, <2>3, <2>4, <2>5, <2>6, <2>7, <2>8, <2>9, <2>10, <2>11,
      <2>12, <2>13, <2>14, <2>15, <2>16, <2>17 DEF Handle
<1>2. CASE WorkStart
  BY <1>2, <1>0 DEF WorkStart, TypeOK, QueueSteps, WorkSteps, QueueState, RunState,
      handlerVars, rbaVars, workVars, boundVars
<1>3. CASE WorkSwap
  BY <1>3, <1>0 DEF WorkSwap, More, TypeOK, QueueSteps, WorkSteps, QueueState,
      RunState, handlerVars, rbaVars, workVars, boundVars
<1>4. CASE WorkServe
  BY <1>4, <1>0 DEF WorkInv, WorkServe, TypeOK, QueueSteps, WorkSteps, QueueState,
      RunState, handlerVars, rbaVars, workVars, boundVars
<1>5. CASE WorkReread
  BY <1>5, <1>0 DEF WorkReread, TypeOK, QueueSteps, WorkSteps, QueueState, RunState,
      handlerVars, rbaVars, workVars, boundVars
<1>6. CASE WorkSplice
  BY <1>6, <1>0 DEF WorkSplice, TypeOK, QueueSteps, WorkSteps, QueueState, RunState,
      handlerVars, rbaVars, workVars, boundVars
<1>7. CASE WorkReady
  BY <1>7, <1>0 DEF WorkReady, More, TypeOK, QueueSteps, WorkSteps, QueueState,
      RunState, handlerVars, rbaVars, workVars, boundVars
<1>8. CASE WorkReturn
  BY <1>8, <1>0 DEF WorkReturn, TypeOK, QueueSteps, WorkSteps, QueueState, RunState,
      handlerVars, rbaVars, workVars, boundVars
<1>9. CASE Stop
  <2>1. restarts' \in 0..MaxRestarts /\ enabled' = FALSE
    BY <1>0, <1>9 DEF Stop, TypeOK
  <2> QED BY <1>0, <1>9, <2>1 DEF Stop, TypeOK, handlerVars, rbaVars, workVars,
      boundVars
<1>10. CASE Reinit
  BY <1>0, <1>10, PoolType, FilledType, RestockType DEF Reinit, TypeOK, handlerVars,
      rbaVars, workVars, boundVars
<1>11. CASE UNCHANGED vars
  BY <1>11, <1>0 DEF vars, handlerVars, rbaVars, workVars, boundVars, TypeOK,
      QueueSteps, WorkSteps, QueueState, RunState
<1> QED BY <1>1, <1>2, <1>3, <1>4, <1>5, <1>6, <1>7, <1>8, <1>9, <1>10, <1>11 DEF Next,
    Work

(* What a handler knows of its queue stays true under every step. *)
LEMMA HandlerStep == IInv /\ [Next]_vars => HandlerInv'
PROOF
<1> SUFFICES ASSUME IInv, [Next]_vars PROVE HandlerInv'
  OBVIOUS
<1> USE RbdAssumption
<1>0. TypeOK /\ HandlerInv /\ WorkInv
  BY DEF IInv
<1>1. ASSUME NEW q \in Queues, Handle(q) \/ Close(q) PROVE HandlerInv'
  <2>1. CASE Restart(q)
    BY <2>1, <1>0 DEF Restart, Loop, IdleRun, HandlerInv, TypeOK, QueueState, RunState,
        handlerVars, rbaVars, workVars, boundVars
  <2>2. CASE Head(q)
    BY <2>2, <1>0 DEF Head, EntersEmergency, HandlerInv, TypeOK, QueueState, RunState,
        handlerVars, rbaVars, workVars, boundVars
  <2>3. CASE EnterEmergency(q)
    BY <2>3, <1>0 DEF EnterEmergency, MoveToAllocator, Moved, HandlerInv, TypeOK,
        QueueState, RunState, handlerVars, rbaVars, workVars, boundVars
  <2>4. CASE KeepPage(q)
    BY <2>4, <1>0 DEF KeepPage, Step, Consumed, ToClaim, ToTail, Loop, HandlerInv,
        TypeOK, QueueState, RunState, handlerVars, rbaVars, workVars, boundVars
  <2>5. CASE StealEmergency(q)
    BY <2>5, <1>0 DEF StealEmergency, Step, Consumed, ToClaim, ToTail, Loop,
        HandlerInv, TypeOK, QueueState, RunState, handlerVars, rbaVars, workVars,
        boundVars
  <2>6. CASE StealCounted(q)
    <3> DEFINE x == [Consumed(q) EXCEPT !.used = @ + 1, !.used_count = @ + 1]
    <3>1. /\ x.closed = rxq[q].closed - 1 /\ Moved(x).closed = x.closed
          /\ x.used_count \in Nat /\ Moved(x).used_count = x.used_count
      BY <1>0 DEF Consumed, Moved, TypeOK, QueueState
    <3>2. /\ rxq'[q] \in {x, Moved(x)}
          /\ run' = [run EXCEPT ![q].todo = @ - 1]
          /\ pc' = [pc EXCEPT ![q] = pc'[q]]
          /\ pc'[q] \in {"post", "claim", "tail", "head", "out"}
          /\ pc'[q] = "claim" => x.used_count >= Claim
          /\ pc'[q] = "head" => run[q].todo - 1 # 0
      <4> HIDE DEF x
      <4> QED BY <1>0, <2>6 DEF StealCounted, Step, ToClaim, ToTail, Loop, TypeOK, x
    <3>3. \A p \in Queues \ {q} : rxq'[p] = rxq[p] /\ run'[p] = run[p] /\ pc'[p] = pc[p]
      BY <1>0, <2>6 DEF StealCounted, Step, TypeOK
    <3> HIDE DEF x
    <3>4. rxq'[q].closed = rxq[q].closed - 1 /\ rxq'[q].used_count = x.used_count
      BY <3>1, <3>2
    <3>5. run'[q].todo = run[q].todo - 1 /\ run[q].todo \in Nat /\ run[q].todo > 0
      BY <1>0, <2>6, <3>2 DEF StealCounted, HandlerInv, TypeOK, RunState
    <3> QED BY <1>0, <3>2, <3>3, <3>4, <3>5 DEF HandlerInv, TypeOK, QueueState, RunState
  <2>7. CASE UnknownRbd(q)
    BY <2>7, <1>0 DEF UnknownRbd, HandlerInv, TypeOK, QueueState, RunState,
        handlerVars, rbaVars, workVars, boundVars
  <2>8. CASE PostRequest(q)
    BY <2>8, <1>0 DEF PostRequest, HandlerInv, TypeOK, QueueState, RunState,
        handlerVars, rbaVars, workVars, boundVars
  <2>9. CASE QueueWork(q)
    BY <2>9, <1>0 DEF QueueWork, ToClaim, ToTail, Loop, HandlerInv, TypeOK, QueueState,
        RunState, handlerVars, rbaVars, workVars, boundVars
  <2>10. CASE ClaimNone(q)
    BY <2>10, <1>0 DEF ClaimNone, ToTail, Loop, HandlerInv, TypeOK, QueueState,
        RunState, handlerVars, rbaVars, workVars, boundVars
  <2>11. CASE ClaimReady(q)
    BY <2>11, <1>0 DEF ClaimReady, HandlerInv, TypeOK, QueueState, RunState,
        handlerVars, rbaVars, workVars, boundVars
  <2>12. CASE Take(q)
    BY <2>12, <1>0 DEF Take, ToTail, Loop, HandlerInv, TypeOK, QueueState, RunState,
        handlerVars, rbaVars, workVars, boundVars
  <2>13. CASE TailMove(q)
    BY <2>13, <1>0 DEF TailMove, MoveToAllocator, Moved, Loop, HandlerInv, TypeOK,
        QueueState, RunState, handlerVars, rbaVars, workVars, boundVars
  <2>14. CASE TailEmergency(q)
    BY <2>14, <1>0 DEF TailEmergency, EndsEmergency, Loop, HandlerInv, TypeOK,
        QueueState, RunState, handlerVars, rbaVars, workVars, boundVars
  <2>15. CASE BatchAlloc(q)
    BY <2>15, <1>0 DEF BatchAlloc, AllocFails, Failures, Restock, Allocated, Told,
        Restocked, Written, HandlerInv, TypeOK, QueueState, RunState, handlerVars,
        rbaVars, workVars, boundVars
  <2>16. CASE Out(q)
    <3>1. rxq'[q].closed = rxq[q].closed /\ pc' = [pc EXCEPT ![q] = "idle"]
          /\ run' = [run EXCEPT ![q] = IdleRun]
      <4>1. \E x \in QueueState : x.closed = rxq[q].closed /\ Restock(q, x)
        <5>1. CASE AllocsOnExit(q)
          <6>1. PICK left \in 0..rxq[q].used : Restock(q, Allocated(rxq[q], left))
            BY <2>16, <5>1 DEF Out
          <6>2. Allocated(rxq[q], left) \in QueueState
            BY <1>0, AllocatedType DEF TypeOK
          <6>3. Allocated(rxq[q], left).closed = rxq[q].closed
            BY <1>0 DEF TypeOK, Allocated, QueueState
          <6> QED BY <6>1, <6>2, <6>3
        <5>2. CASE ~AllocsOnExit(q)
          BY <1>0, <2>16, <5>2 DEF Out, TypeOK
        <5> QED BY <5>1, <5>2
      <4>2. rxq'[q].closed = rxq[q].closed
        BY <1>0, <4>1 DEF Restock, Restocked, TypeOK, QueueState
      <4> QED BY <2>16, <4>2 DEF Out
    <3>2. \A p \in Queues \ {q} : rxq'[p] = rxq[p]
      BY <1>0, <2>16 DEF Out, Restock, TypeOK
    <3> QED BY <1>0, <3>1, <3>2 DEF HandlerInv, IdleRun, TypeOK, QueueState
  <2>17. CASE Close(q)
    BY <2>17, <1>0 DEF Close, HandlerInv, TypeOK, QueueState, RunState, handlerVars,
        rbaVars, workVars, boundVars
  <2> QED BY <1>1, <2>1, <2>2, <2>3, <2>4, <2>5, <2>6, <2>7, <2>8, <2>9, <2>10, <2>11,
      <2>12, <2>13, <2>14, <2>15, <2>16, <2>17 DEF Handle
<1>2. CASE WorkStart
  BY <1>2, <1>0 DEF WorkStart, HandlerInv, TypeOK, QueueState, RunState, handlerVars,
      rbaVars, workVars, boundVars
<1>3. CASE WorkSwap
  BY <1>3, <1>0 DEF WorkSwap, More, HandlerInv, TypeOK, QueueState, RunState,
      handlerVars, rbaVars, workVars, boundVars
<1>4. CASE WorkServe
  BY <1>4, <1>0 DEF WorkServe, HandlerInv, TypeOK, QueueState, RunState, handlerVars,
      rbaVars, workVars, boundVars
<1>5. CASE WorkReread
  BY <1>5, <1>0 DEF WorkReread, HandlerInv, TypeOK, QueueState, RunState, handlerVars,
      rbaVars, workVars, boundVars
<1>6. CASE WorkSplice
  BY <1>6, <1>0 DEF WorkSplice, HandlerInv, TypeOK, QueueState, RunState, handlerVars,
      rbaVars, workVars, boundVars
<1>7. CASE WorkReady
  BY <1>7, <1>0 DEF WorkReady, More, HandlerInv, TypeOK, QueueState, RunState,
      handlerVars, rbaVars, workVars, boundVars
<1>8. CASE WorkReturn
  BY <1>8, <1>0 DEF WorkReturn, HandlerInv, TypeOK, QueueState, RunState, handlerVars,
      rbaVars, workVars, boundVars
<1>9. CASE Stop
  BY <1>9, <1>0 DEF Stop, HandlerInv, TypeOK, QueueState, RunState, handlerVars,
      rbaVars, workVars, boundVars
<1>10. CASE Reinit
  BY <1>10, <1>0 DEF Reinit, Pool, EmptyQueue, Restocked, FilledQueue, Told, Written,
      HandlerInv, TypeOK, QueueState, RunState, handlerVars, rbaVars, workVars,
      boundVars
<1>11. CASE UNCHANGED vars
  BY <1>11, <1>0 DEF vars, handlerVars, rbaVars, workVars, boundVars, HandlerInv,
      TypeOK, QueueState, RunState
<1> QED BY <1>1, <1>2, <1>3, <1>4, <1>5, <1>6, <1>7, <1>8, <1>9, <1>10, <1>11 DEF Next,
    Work

(* What the work knows of the requests stays true under every step. *)
LEMMA WorkStep == IInv /\ [Next]_vars => WorkInv'
PROOF
<1> SUFFICES ASSUME IInv, [Next]_vars PROVE WorkInv'
  OBVIOUS
<1> USE RbdAssumption
<1>0. TypeOK /\ WorkInv
  BY DEF IInv
<1>1. ASSUME NEW q \in Queues, Handle(q) \/ Close(q) PROVE WorkInv'
  <2>1. UNCHANGED <<pending, wpc, local_allocated>> /\ req_pending' \in {req_pending, req_pending + 1}
    BY <1>1 DEF Handle, Restart, Head, EnterEmergency, KeepPage, StealEmergency,
        StealCounted, UnknownRbd, PostRequest, QueueWork, ClaimNone, ClaimReady, Take,
        TailMove, TailEmergency, BatchAlloc, Out, Close, Step, rbaVars, workVars
  <2> QED BY <1>0, <2>1 DEF WorkInv, TypeOK
<1>2. CASE Work
  BY <1>0, <1>2 DEF Work, WorkStart, WorkSwap, WorkServe, WorkReread, WorkSplice,
      WorkReady, WorkReturn, More, WorkInv, TypeOK, rbaVars
<1>3. CASE Stop \/ Reinit \/ UNCHANGED vars
  BY <1>0, <1>3 DEF Stop, Reinit, vars, rbaVars, workVars, WorkInv, TypeOK
<1> QED BY <1>1, <1>2, <1>3 DEF Next

(* Claim RBDs wait for every request that is ready or granted. *)
LEMMA GrantStep == IInv /\ [Next]_vars => GrantInv'
PROOF
<1> SUFFICES ASSUME IInv, [Next]_vars PROVE GrantInv'
  OBVIOUS
<1> USE RbdAssumption
<1> DEFINE takers == Cardinality(At("take"))
           n == req_ready + takers + Spliced
<1>0. TypeOK /\ WorkInv /\ GrantInv /\ takers \in Nat /\ n \in Nat
  <2>1. takers \in Nat
    BY FS_Subset, FS_CardinalityType DEF At
  <2> QED BY <2>1 DEF IInv, TypeOK, Spliced
<1>1. ASSUME NEW q \in Queues, Handle(q) \/ Close(q) PROVE GrantInv'
  <2>1. CASE ClaimReady(q)
    <3>1. takers' = takers + 1
      <4>1. pc \in [Queues -> QueueSteps] /\ "take" # pc[q] /\ pc' = [pc EXCEPT ![q] = "take"]
        BY <1>0, <2>1 DEF ClaimReady, TypeOK
      <4> QED BY <4>1, AtMove
    <3> QED BY <1>0, <2>1, <3>1 DEF ClaimReady, GrantInv, Spliced, TypeOK, workVars
  <2>2. CASE Take(q)
    <3>1. pc' = [pc EXCEPT ![q] = ToTail(q, rxq[q], run[q].todo)] /\ pc[q] = "take"
          /\ ToTail(q, rxq[q], run[q].todo) # "take"
      BY <2>2 DEF Take, ToTail, Loop
    <3>2. takers' \in Nat /\ takers = takers' + 1
      <4>1. pc \in [Queues -> QueueSteps]
        BY <1>0 DEF TypeOK
      <4>2. Cardinality(At("take")') \in Nat
        BY FS_Subset, FS_CardinalityType DEF At
      <4> QED BY <4>1, <4>2, <3>1, AtMove
    <3> DEFINE k == req_ready + takers' + Spliced
    <3>3. k \in Nat /\ n = k + 1
      BY <1>0, <3>2 DEF TypeOK, Spliced
    <3>4. Claim * n = Claim * k + Claim /\ Claim * k \in Nat
      BY <3>3, Multiples
    <3>5. rbd_allocated' = Claim * n - Claim
      BY <1>0, <2>2 DEF Take, GrantInv
    <3>6. (req_ready + takers + Spliced)' = k
      BY <2>2 DEF Take, Spliced, workVars
    <3> HIDE DEF k, n, takers
    <3>7. rbd_allocated' = Claim * k
      BY <3>4, <3>5
    <3> USE DEF takers
    <3> QED BY <3>6, <3>7 DEF GrantInv
  <2>3. CASE ~ClaimReady(q) /\ ~Take(q)
    <3>1. UNCHANGED <<rbd_allocated, req_ready, wpc>> /\ At("take")' = At("take")
      <4> USE <1>0 DEF At, TypeOK, QueueSteps
      <4>1. CASE Restart(q)
        BY <4>1 DEF Restart, Loop, IdleRun, handlerVars, rbaVars, workVars, boundVars
      <4>2. CASE Head(q)
        BY <4>2 DEF Head, EntersEmergency, handlerVars, rbaVars, workVars, boundVars
      <4>3. CASE EnterEmergency(q)
        BY <4>3 DEF EnterEmergency, MoveToAllocator, Moved, handlerVars, rbaVars,
            workVars, boundVars
      <4>4. CASE KeepPage(q)
        BY <4>4 DEF KeepPage, Step, Consumed, ToClaim, ToTail, Loop, handlerVars,
            rbaVars, workVars, boundVars
      <4>5. CASE StealEmergency(q)
        BY <4>5 DEF StealEmergency, Step, Consumed, ToClaim, ToTail, Loop, handlerVars,
            rbaVars, workVars, boundVars
      <4>6. CASE StealCounted(q)
        BY <4>6 DEF StealCounted, Step, Consumed, ToClaim, ToTail, Loop,
            MoveToAllocator, Moved, Posts, handlerVars, rbaVars, workVars, boundVars
      <4>7. CASE UnknownRbd(q)
        BY <4>7 DEF UnknownRbd, handlerVars, rbaVars, workVars, boundVars
      <4>8. CASE PostRequest(q)
        BY <4>8 DEF PostRequest, handlerVars, rbaVars, workVars, boundVars
      <4>9. CASE QueueWork(q)
        BY <4>9 DEF QueueWork, ToClaim, ToTail, Loop, handlerVars, rbaVars, workVars,
            boundVars
      <4>10. CASE ClaimNone(q)
        BY <4>10 DEF ClaimNone, ToTail, Loop, handlerVars, rbaVars, workVars, boundVars
      <4>11. CASE TailMove(q)
        BY <4>11 DEF TailMove, MoveToAllocator, Moved, Loop, handlerVars, rbaVars,
            workVars, boundVars
      <4>12. CASE TailEmergency(q)
        BY <4>12 DEF TailEmergency, EndsEmergency, Loop, handlerVars, rbaVars,
            workVars, boundVars
      <4>13. CASE BatchAlloc(q)
        BY <4>13 DEF BatchAlloc, AllocFails, Failures, Restock, Allocated, Told,
            Restocked, Written, handlerVars, rbaVars, workVars, boundVars
      <4>14. CASE Out(q)
        BY <4>14 DEF Out, IdleRun, AllocFails, Failures, Restock, Allocated, Told,
            Restocked, Written, handlerVars, rbaVars, workVars, boundVars
      <4>15. CASE Close(q)
        BY <4>15 DEF Close, handlerVars, rbaVars, workVars, boundVars
      <4> QED BY <1>1, <2>3, <4>1, <4>2, <4>3, <4>4, <4>5, <4>6, <4>7, <4>8, <4>9,
          <4>10, <4>11, <4>12, <4>13, <4>14, <4>15 DEF Handle
    <3> QED BY <1>0, <3>1 DEF GrantInv, Spliced
  <2> QED BY <2>1, <2>2, <2>3
<1>2. CASE Work
  <2>1. At("take")' = At("take")
    BY <1>2 DEF Work, WorkStart, WorkSwap, WorkServe, WorkReread, WorkSplice,
        WorkReady, WorkReturn, At, handlerVars
  <2>2. CASE WorkSplice
    <3>1. Claim * (n + 1) = Claim * n + Claim /\ local_allocated = Claim /\ Spliced = 0 /\ Spliced' = 1
      BY <1>0, <2>2, Multiples DEF WorkSplice, WorkInv, Spliced
    <3>2. (req_ready + takers + Spliced)' = n + 1
      BY <1>0, <2>1, <2>2, <3>1 DEF WorkSplice, TypeOK
    <3> QED BY <1>0, <2>2, <3>1, <3>2 DEF WorkSplice, GrantInv
  <2>3. CASE WorkReady
    <3>1. (req_ready + takers + Spliced)' = n
      BY <1>0, <2>1, <2>3 DEF WorkReady, More, Spliced, TypeOK
    <3> QED BY <1>0, <2>3, <3>1 DEF WorkReady, GrantInv
  <2>4. CASE ~WorkSplice /\ ~WorkReady
    <3>1. UNCHANGED <<rbd_allocated, req_ready>> /\ Spliced' = Spliced
      BY <1>2, <2>4 DEF Work, WorkStart, WorkSwap, WorkServe, WorkReread, WorkSplice,
          WorkReady, WorkReturn, More, Spliced, rbaVars
    <3> QED BY <1>0, <2>1, <3>1 DEF GrantInv
  <2> QED BY <2>2, <2>3, <2>4
<1>3. CASE Stop \/ UNCHANGED vars
  <2>1. UNCHANGED <<rbd_allocated, req_ready, wpc>> /\ At("take")' = At("take")
    BY <1>3 DEF Stop, vars, handlerVars, rbaVars, workVars, At
  <2> QED BY <1>0, <2>1 DEF GrantInv, Spliced
<1>4. CASE Reinit
  <2>1. At("take")' = {} /\ Cardinality(At("take")') = 0
    BY <1>4, FS_EmptySet DEF Reinit, At
  <2> QED BY <1>4, <2>1 DEF Reinit, GrantInv, Spliced
<1> QED BY <1>1, <1>2, <1>3, <1>4 DEF Next

(* A request is counted by the work or has queued it again. *)
LEMMA CoverStep == IInv /\ [Next]_vars => CoverInv'
PROOF
<1> SUFFICES ASSUME IInv, [Next]_vars PROVE CoverInv'
  OBVIOUS
<1>0. TypeOK /\ WorkInv /\ CoverInv
  BY DEF IInv
<1>1. ASSUME NEW q \in Queues, Handle(q) \/ Close(q) PROVE CoverInv'
  <2>1. CASE PostRequest(q)
    BY <1>0, <2>1 DEF PostRequest, CoverInv, At, TypeOK
  <2>2. CASE QueueWork(q)
    BY <2>2 DEF QueueWork, CoverInv
  <2>3. CASE ~PostRequest(q) /\ ~QueueWork(q)
    <3>1. UNCHANGED <<work_queued, req_pending, pending>> /\ At("queue_work") \subseteq At("queue_work")'
      <4> USE <1>0 DEF At, TypeOK
      <4>1. CASE Restart(q)
        BY <4>1 DEF Restart, Loop, IdleRun, handlerVars, rbaVars, workVars, boundVars
      <4>2. CASE Head(q)
        BY <4>2 DEF Head, EntersEmergency, handlerVars, rbaVars, workVars, boundVars
      <4>3. CASE EnterEmergency(q)
        BY <4>3 DEF EnterEmergency, MoveToAllocator, Moved, handlerVars, rbaVars,
            workVars, boundVars
      <4>4. CASE KeepPage(q)
        BY <4>4 DEF KeepPage, Step, Consumed, ToClaim, ToTail, Loop, handlerVars,
            rbaVars, workVars, boundVars
      <4>5. CASE StealEmergency(q)
        BY <4>5 DEF StealEmergency, Step, Consumed, ToClaim, ToTail, Loop, handlerVars,
            rbaVars, workVars, boundVars
      <4>6. CASE StealCounted(q)
        BY <4>6 DEF StealCounted, Step, Consumed, ToClaim, ToTail, Loop,
            MoveToAllocator, Moved, Posts, handlerVars, rbaVars, workVars, boundVars
      <4>7. CASE UnknownRbd(q)
        BY <4>7 DEF UnknownRbd, handlerVars, rbaVars, workVars, boundVars
      <4>8. CASE ClaimNone(q)
        BY <4>8 DEF ClaimNone, ToTail, Loop, handlerVars, rbaVars, workVars, boundVars
      <4>9. CASE ClaimReady(q)
        BY <4>9 DEF ClaimReady, handlerVars, rbaVars, workVars, boundVars
      <4>10. CASE Take(q)
        BY <4>10 DEF Take, ToTail, Loop, handlerVars, rbaVars, workVars, boundVars
      <4>11. CASE TailMove(q)
        BY <4>11 DEF TailMove, MoveToAllocator, Moved, Loop, handlerVars, rbaVars,
            workVars, boundVars
      <4>12. CASE TailEmergency(q)
        BY <4>12 DEF TailEmergency, EndsEmergency, Loop, handlerVars, rbaVars,
            workVars, boundVars
      <4>13. CASE BatchAlloc(q)
        BY <4>13 DEF BatchAlloc, AllocFails, Failures, Restock, Allocated, Told,
            Restocked, Written, handlerVars, rbaVars, workVars, boundVars
      <4>14. CASE Out(q)
        BY <4>14 DEF Out, IdleRun, AllocFails, Failures, Restock, Allocated, Told,
            Restocked, Written, handlerVars, rbaVars, workVars, boundVars
      <4>15. CASE Close(q)
        BY <4>15 DEF Close, handlerVars, rbaVars, workVars, boundVars
      <4> QED BY <1>1, <2>3, <4>1, <4>2, <4>3, <4>4, <4>5, <4>6, <4>7, <4>8, <4>9,
          <4>10, <4>11, <4>12, <4>13, <4>14, <4>15 DEF Handle
    <3> QED BY <1>0, <3>1 DEF CoverInv
  <2> QED BY <2>1, <2>2, <2>3
<1>2. CASE Work
  BY <1>0, <1>2 DEF Work, WorkStart, WorkSwap, WorkServe, WorkReread, WorkSplice,
      WorkReady, WorkReturn, CoverInv, At, handlerVars, rbaVars, TypeOK
<1>3. CASE Stop \/ UNCHANGED vars
  BY <1>0, <1>3 DEF Stop, vars, handlerVars, rbaVars, workVars, CoverInv, At
<1>4. CASE Reinit
  BY <1>0, <1>4 DEF Reinit, WorkInv, CoverInv
<1> QED BY <1>1, <1>2, <1>3, <1>4 DEF Next

(* The invariant is inductive. *)
LEMMA StepInv == IInv /\ [Next]_vars => IInv'
PROOF BY TypeStep, HandlerStep, WorkStep, GrantStep, CoverStep DEF IInv

----------------------------------------------------------------------------
(* Invariants *)

(* The invariant holds in every reachable state, for any number of queues  *)
(* and any sizes of requests, ring and batch.                              *)
THEOREM Invariant == Spec => []IInv
PROOF BY InitInv, StepInv, PTL DEF Spec

(* No counter of a queue or of the allocator goes below zero: the handler, *)
(* the work and the claims never take more than was put there.             *)
THEOREM TypeInvariant == Spec => []TypeOK
PROOF
<1>1. IInv => TypeOK
  BY DEF IInv
<1> QED BY <1>1, Invariant, PTL

(* iwl_pcie_rx_allocator_get, once granted, finds Claim RBDs with a page,  *)
(* whoever else claims or posts at the same time.                          *)
THEOREM ClaimsAreCovered == Spec => []ClaimFinds
PROOF BY GrantedFinds, Invariant, PTL

(* The allocator's work never ends, nor lies idle, while a request waits   *)
(* that has not queued it again.                                           *)
THEOREM RequestsAreSeen == Spec => []NoLostRequest
PROOF
<1>1. IInv => NoLostRequest
  BY DEF IInv, TypeOK, WorkInv, CoverInv, NoLostRequest
<1> QED BY <1>1, Invariant, PTL

----------------------------------------------------------------------------
(* Refinement *)

(* The state of the service that a state of the allocator stands for. *)
Lent == [q \in Queues |-> rxq[q].used_count]
Asked == req_pending + Cardinality(At("post")) + Finishing
Ready == req_ready + Cardinality(At("take"))

(* A step that changes none of these is a stuttering step of the service. *)
LEMMA Stutters ==
  ASSUME Lent' = Lent, Asked' = Asked, Ready' = Ready
  PROVE  [Service!Next]_(Service!serviceVars)
PROOF BY DEF Service!serviceVars, Lent, Asked, Ready

(* A queue that keeps used_count keeps what it has lent. *)
LEMMA LentUpdate ==
  ASSUME NEW q \in Queues, NEW x, rxq \in [Queues -> QueueState],
         rxq' = [rxq EXCEPT ![q] = x]
  PROVE  Lent' = [Lent EXCEPT ![q] = x.used_count]
PROOF BY DEF Lent

(* Initially nothing is lent, asked for or ready. *)
LEMMA ServiceInit == Init => Service!Init
PROOF
<1> SUFFICES ASSUME Init PROVE Service!Init
  OBVIOUS
<1>1. Cardinality(At("post")) = 0 /\ Cardinality(At("take")) = 0
  BY FS_EmptySet DEF Init, At
<1>2. Lent = [q \in Queues |-> 0]
  BY DEF Init, Lent, Restocked, FilledQueue, EmptyQueue
<1>3. Asked = 0 /\ Ready = 0
  BY <1>1 DEF Init, Asked, Ready, Finishing
<1> QED BY <1>2, <1>3 DEF Service!Init, Lent, Asked, Ready

(* A step of a handler lends, claims or stutters. *)
LEMMA ServiceHandler ==
  ASSUME IInv, NEW q \in Queues, Handle(q) \/ Close(q)
  PROVE  [Service!Next]_(Service!serviceVars)
PROOF
<1> USE RbdAssumption
<1>0. /\ TypeOK /\ HandlerInv /\ pc \in [Queues -> QueueSteps]
      /\ rxq \in [Queues -> QueueState] /\ rxq[q] \in QueueState
      /\ Cardinality(At("post")) \in Nat /\ Cardinality(At("take")) \in Nat
  BY AtFinite DEF IInv, TypeOK
<1>1. CASE StealCounted(q)
  <2> DEFINE x == [Consumed(q) EXCEPT !.used = @ + 1, !.used_count = @ + 1]
  <2>1. x.used_count = rxq[q].used_count + 1 /\ Moved(x).used_count = x.used_count
    BY <1>0 DEF Consumed, Moved, QueueState
  <2>2. Lent' = [Lent EXCEPT ![q] = @ + 1] /\ Lent'[q] = x.used_count
    <3>1. \E y \in {x, Moved(x)} : rxq' = [rxq EXCEPT ![q] = y]
      BY <1>1 DEF StealCounted
    <3> HIDE DEF x
    <3>2. Lent' = [Lent EXCEPT ![q] = x.used_count]
      BY <1>0, <2>1, <3>1, LentUpdate
    <3>3. Lent[q] = rxq[q].used_count
      BY DEF Lent
    <3>4. Lent'[q] = x.used_count
      BY <3>2 DEF Lent
    <3> QED BY <2>1, <3>2, <3>3, <3>4
  <2>3. UNCHANGED <<req_pending, req_ready, wpc>> /\ pc[q] = "handle"
    BY <1>1 DEF StealCounted, Step, workVars
  <2>4. CASE Posts(x.used_count)
    <3>1. pc' = [pc EXCEPT ![q] = "post"]
      BY <1>1, <2>4 DEF StealCounted, Step
    <3>2. At("take")' = At("take")
      BY <1>0, <2>3, <3>1 DEF At
    <3>2a. Cardinality(At("post")') = Cardinality(At("post")) + 1
      BY <1>0, <2>3, <3>1, AtMove
    <3>3. Ready' = Ready /\ Asked' = Asked + 1
      BY <1>0, <2>3, <3>2, <3>2a DEF Ready, Asked, Finishing, TypeOK
    <3>4. Lent'[q] % Claim = Post
      BY <2>2, <2>4 DEF Posts
    <3>5. Service!Lend(q)
      BY <2>2, <3>3, <3>4 DEF Service!Lend, Lent, Asked, Ready
    <3> QED BY <3>5 DEF Service!Next
  <2>5. CASE ~Posts(x.used_count)
    <3>1. PICK t \in {"claim", "tail", "head", "out"} : pc' = [pc EXCEPT ![q] = t]
      BY <1>1, <2>5 DEF StealCounted, Step, ToClaim, ToTail, Loop
    <3>2. At("take")' = At("take") /\ At("post")' = At("post")
      BY <1>0, <2>3, <3>1, AtMove
    <3>3. Ready' = Ready /\ Asked' = Asked
      BY <2>3, <3>2 DEF Ready, Asked, Finishing
    <3>4. Lent'[q] % Claim # Post
      BY <2>2, <2>5 DEF Posts
    <3>5. Service!Lend(q)
      BY <2>2, <3>3, <3>4 DEF Service!Lend, Lent, Asked, Ready
    <3> QED BY <3>5 DEF Service!Next
  <2> QED BY <2>4, <2>5
<1>2. CASE PostRequest(q)
  <2>1. pc' = [pc EXCEPT ![q] = "queue_work"] /\ pc[q] = "post"
        /\ req_pending' = req_pending + 1 /\ UNCHANGED <<rxq, req_ready, wpc>>
    BY <1>2 DEF PostRequest, workVars
  <2>2. At("take")' = At("take")
    BY <1>0, <2>1 DEF At
  <2>2a. Cardinality(At("post")) = Cardinality(At("post")') + 1
    BY <1>0, <2>1, AtMove
  <2>2b. Cardinality(At("post")') \in Nat
    BY FS_Subset, FS_CardinalityType DEF At
  <2>3. Lent' = Lent /\ Ready' = Ready
    BY <2>1, <2>2 DEF Lent, Ready
  <2>4. Asked' = Asked
    BY <1>0, <2>1, <2>2a, <2>2b DEF Asked, Finishing, TypeOK
  <2> QED BY <2>3, <2>4, Stutters
<1>3. CASE ClaimReady(q)
  <2>1. pc' = [pc EXCEPT ![q] = "take"] /\ pc[q] = "claim"
        /\ req_ready' = req_ready - 1 /\ UNCHANGED <<rxq, req_pending, wpc>>
    BY <1>3 DEF ClaimReady, workVars
  <2>2. At("post")' = At("post")
    BY <1>0, <2>1 DEF At
  <2>2a. Cardinality(At("take")') = Cardinality(At("take")) + 1
    BY <1>0, <2>1, AtMove
  <2>3. Lent' = Lent /\ Asked' = Asked
    BY <2>1, <2>2 DEF Lent, Asked, Finishing
  <2>4. Ready' = Ready
    BY <1>0, <2>1, <2>2a DEF Ready, TypeOK
  <2> QED BY <2>3, <2>4, Stutters
<1>4. CASE Take(q)
  <2>1. PICK t \in {"tail", "head", "out"} : pc' = [pc EXCEPT ![q] = t]
    BY <1>4 DEF Take, ToTail, Loop
  <2>2. /\ UNCHANGED <<req_pending, req_ready, wpc>> /\ pc[q] = "take"
        /\ rxq[q].used_count >= Claim
    BY <1>0, <1>4 DEF Take, HandlerInv, workVars
  <2>3. At("post")' = At("post")
    BY <1>0, <2>1, <2>2 DEF At
  <2>3a. Cardinality(At("take")) = Cardinality(At("take")') + 1
    BY <1>0, <2>1, <2>2, AtMove
  <2>3b. Cardinality(At("take")') \in Nat
    BY FS_Subset, FS_CardinalityType DEF At
  <2>4. Asked' = Asked
    BY <2>2, <2>3 DEF Asked, Finishing
  <2>5. Ready > 0 /\ Ready' = Ready - 1
    BY <1>0, <2>2, <2>3a, <2>3b DEF Ready, TypeOK
  <2>6. Lent[q] >= Claim /\ Lent' = [Lent EXCEPT ![q] = @ - Claim]
    BY <1>0, <1>4, <2>2 DEF Take, Lent, QueueState
  <2>7. Service!Reclaim(q)
    BY <2>4, <2>5, <2>6 DEF Service!Reclaim, Lent, Asked, Ready
  <2> QED BY <2>7 DEF Service!Next
<1>5. CASE ~StealCounted(q) /\ ~PostRequest(q) /\ ~ClaimReady(q) /\ ~Take(q)
  <2>1. UNCHANGED <<req_pending, req_ready, wpc>> /\ At("post")' = At("post") /\ At("take")' = At("take")
    <3> USE <1>0 DEF At
    <3>1. CASE Restart(q)
      BY <3>1 DEF Restart, Loop, IdleRun, handlerVars, rbaVars, workVars, boundVars
    <3>2. CASE Head(q)
      BY <3>2 DEF Head, EntersEmergency, handlerVars, rbaVars, workVars, boundVars
    <3>3. CASE EnterEmergency(q)
      BY <3>3 DEF EnterEmergency, MoveToAllocator, Moved, handlerVars, rbaVars,
          workVars, boundVars
    <3>4. CASE KeepPage(q)
      BY <3>4 DEF KeepPage, Step, Consumed, ToClaim, ToTail, Loop, handlerVars,
          rbaVars, workVars, boundVars
    <3>5. CASE StealEmergency(q)
      BY <3>5 DEF StealEmergency, Step, Consumed, ToClaim, ToTail, Loop, handlerVars,
          rbaVars, workVars, boundVars
    <3>6. CASE UnknownRbd(q)
      BY <3>6 DEF UnknownRbd, handlerVars, rbaVars, workVars, boundVars
    <3>7. CASE QueueWork(q)
      BY <3>7 DEF QueueWork, ToClaim, ToTail, Loop, handlerVars, rbaVars, workVars,
          boundVars
    <3>8. CASE ClaimNone(q)
      BY <3>8 DEF ClaimNone, ToTail, Loop, handlerVars, rbaVars, workVars, boundVars
    <3>9. CASE TailMove(q)
      BY <3>9 DEF TailMove, MoveToAllocator, Moved, Loop, handlerVars, rbaVars,
          workVars, boundVars
    <3>10. CASE TailEmergency(q)
      BY <3>10 DEF TailEmergency, EndsEmergency, Loop, handlerVars, rbaVars, workVars,
          boundVars
    <3>11. CASE BatchAlloc(q)
      BY <3>11 DEF BatchAlloc, AllocFails, Failures, Restock, Allocated, Told,
          Restocked, Written, handlerVars, rbaVars, workVars, boundVars
    <3>12. CASE Out(q)
      BY <3>12 DEF Out, IdleRun, AllocFails, Failures, Restock, Allocated, Told,
          Restocked, Written, handlerVars, rbaVars, workVars, boundVars
    <3>13. CASE Close(q)
      BY <3>13 DEF Close, handlerVars, rbaVars, workVars, boundVars
    <3> QED BY <1>5, <3>1, <3>2, <3>3, <3>4, <3>5, <3>6, <3>7, <3>8, <3>9, <3>10,
        <3>11, <3>12, <3>13 DEF Handle
  <2>2. Lent' = Lent
    <3> USE <1>0
    <3>1. CASE Restart(q)
      BY <3>1 DEF Restart, Loop, IdleRun, Lent, QueueState, handlerVars, rbaVars,
          workVars, boundVars
    <3>2. CASE Head(q)
      BY <3>2 DEF Head, EntersEmergency, Lent, QueueState, handlerVars, rbaVars,
          workVars, boundVars
    <3>3. CASE EnterEmergency(q)
      BY <3>3 DEF EnterEmergency, MoveToAllocator, Moved, Lent, QueueState,
          handlerVars, rbaVars, workVars, boundVars
    <3>4. CASE KeepPage(q)
      BY <3>4 DEF KeepPage, Step, Consumed, ToClaim, ToTail, Loop, Lent, QueueState,
          handlerVars, rbaVars, workVars, boundVars
    <3>5. CASE StealEmergency(q)
      BY <3>5 DEF StealEmergency, Step, Consumed, ToClaim, ToTail, Loop, Lent,
          QueueState, handlerVars, rbaVars, workVars, boundVars
    <3>6. CASE UnknownRbd(q)
      BY <3>6 DEF UnknownRbd, Lent, QueueState, handlerVars, rbaVars, workVars,
          boundVars
    <3>7. CASE QueueWork(q)
      BY <3>7 DEF QueueWork, ToClaim, ToTail, Loop, Lent, QueueState, handlerVars,
          rbaVars, workVars, boundVars
    <3>8. CASE ClaimNone(q)
      BY <3>8 DEF ClaimNone, ToTail, Loop, Lent, QueueState, handlerVars, rbaVars,
          workVars, boundVars
    <3>9. CASE TailMove(q)
      BY <3>9 DEF TailMove, MoveToAllocator, Moved, Loop, Lent, QueueState,
          handlerVars, rbaVars, workVars, boundVars
    <3>10. CASE TailEmergency(q)
      BY <3>10 DEF TailEmergency, EndsEmergency, Loop, Lent, QueueState, handlerVars,
          rbaVars, workVars, boundVars
    <3>11. CASE BatchAlloc(q)
      BY <3>11 DEF BatchAlloc, AllocFails, Failures, Restock, Allocated, Told,
          Restocked, Written, Lent, QueueState, handlerVars, rbaVars, workVars,
          boundVars
    <3>12. CASE Out(q)
      <4>1. PICK x : x.used_count = rxq[q].used_count /\ Restock(q, x)
        <5>1. CASE AllocsOnExit(q)
          <6>1. PICK left \in 0..rxq[q].used : Restock(q, Allocated(rxq[q], left))
            BY <3>12, <5>1 DEF Out
          <6>2. Allocated(rxq[q], left).used_count = rxq[q].used_count
            BY DEF Allocated, QueueState
          <6> QED BY <6>1, <6>2
        <5>2. CASE ~AllocsOnExit(q)
          BY <3>12, <5>2 DEF Out
        <5> QED BY <5>1, <5>2
      <4> QED BY <4>1 DEF Restock, Restocked, Lent, QueueState
    <3>13. CASE Close(q)
      BY <3>13 DEF Close, Lent, QueueState, handlerVars, rbaVars, workVars, boundVars
    <3> QED BY <1>5, <3>1, <3>2, <3>3, <3>4, <3>5, <3>6, <3>7, <3>8, <3>9, <3>10,
        <3>11, <3>12, <3>13 DEF Handle
  <2>3. Asked' = Asked /\ Ready' = Ready
    BY <2>1 DEF Asked, Ready, Finishing
  <2> QED BY <2>2, <2>3, Stutters
<1> QED BY <1>1, <1>2, <1>3, <1>4, <1>5

(* A step of the work serves or stutters. *)
LEMMA ServiceWork ==
  ASSUME IInv, Work
  PROVE  [Service!Next]_(Service!serviceVars)
PROOF
<1>0. /\ TypeOK /\ WorkInv
      /\ Cardinality(At("post")) \in Nat /\ Cardinality(At("take")) \in Nat
  BY AtFinite DEF IInv
<1>1. At("post")' = At("post") /\ At("take")' = At("take") /\ Lent' = Lent
  BY DEF Work, WorkStart, WorkSwap, WorkServe, WorkReread, WorkSplice, WorkReady,
      WorkReturn, At, Lent, handlerVars
<1>2. CASE WorkReady
  <2>1. Asked > 0 /\ Asked' = Asked - 1 /\ Ready' = Ready + 1
    BY <1>0, <1>1, <1>2 DEF WorkReady, More, Asked, Ready, Finishing, TypeOK
  <2>2. Service!Serve
    BY <1>1, <2>1 DEF Service!Serve, Lent, Asked, Ready
  <2> QED BY <2>2 DEF Service!Next
<1>3. CASE WorkServe
  <2>1. Asked' = Asked /\ Ready' = Ready
    BY <1>0, <1>1, <1>3 DEF WorkServe, Asked, Ready, Finishing, TypeOK
  <2> QED BY <1>1, <2>1, Stutters
<1>4. CASE ~WorkReady /\ ~WorkServe
  <2>1. Finishing' = Finishing /\ UNCHANGED <<req_pending, req_ready>>
    BY <1>4 DEF Work, WorkStart, WorkSwap, WorkServe, WorkReread, WorkSplice,
        WorkReady, WorkReturn, More, Finishing, rbaVars
  <2>2. Asked' = Asked /\ Ready' = Ready
    BY <1>1, <2>1 DEF Asked, Ready
  <2> QED BY <1>1, <2>2, Stutters
<1> QED BY <1>2, <1>3, <1>4

(* Every step of the allocator is a step of the service or stutters. *)
LEMMA ServiceStep == IInv /\ [Next]_vars => [Service!Next]_(Service!serviceVars)
PROOF
<1> SUFFICES ASSUME IInv, [Next]_vars PROVE [Service!Next]_(Service!serviceVars)
  OBVIOUS
<1>1. CASE Work
  BY <1>1, ServiceWork
<1>2. ASSUME NEW q \in Queues, Handle(q) \/ Close(q) PROVE [Service!Next]_(Service!serviceVars)
  BY <1>2, ServiceHandler
<1>3. CASE Stop \/ UNCHANGED vars
  <2>1. Lent' = Lent /\ Asked' = Asked /\ Ready' = Ready
    BY <1>3 DEF Stop, vars, handlerVars, rbaVars, workVars, Lent, Asked, Ready, At,
        Finishing
  <2> QED BY <2>1, Stutters
<1>4. CASE Reinit
  <2>1. Cardinality(At("post")') = 0 /\ Cardinality(At("take")') = 0
    BY <1>4, FS_EmptySet DEF Reinit, At
  <2>2. Lent' = [q \in Queues |-> 0]
    BY <1>4 DEF Reinit, Lent, Restocked, FilledQueue, EmptyQueue
  <2>3. Asked' = 0 /\ Ready' = 0
    BY <1>4, <2>1 DEF Reinit, Asked, Ready, Finishing
  <2>4. Service!Reset
    BY <2>2, <2>3 DEF Service!Reset, Lent, Asked, Ready
  <2> QED BY <2>4 DEF Service!Next
<1> QED BY <1>1, <1>2, <1>3, <1>4 DEF Next

(* The allocator implements RbdService, but for the promise that every     *)
(* request is served in the end: for any number of queues, each lends,     *)
(* asks and reclaims as the service says, and a request is served once.    *)
THEOREM Refinement == Spec => Service!Init /\ [][Service!Next]_(Service!serviceVars)
PROOF BY Invariant, ServiceInit, ServiceStep, PTL DEF Spec

----------------------------------------------------------------------------
(* Totals over the queues *)

(* What the queues other than q have, and what q has, as sets of marks.    *)
Marks(n, Q) == UNION {{q} \X (1..n[q]) : q \in Q}

LEMMA MarksFinite ==
  ASSUME NEW n \in [Queues -> Nat], NEW Q \in SUBSET Queues
  PROVE  IsFiniteSet(Marks(n, Q))
PROOF
<1> DEFINE f == [q \in Q |-> {q} \X (1..n[q])]
           T == {{q} \X (1..n[q]) : q \in Q}
<1>1. IsFiniteSet(Q)
  BY FS_Subset, RbdAssumption
<1>2. f \in Surjection(Q, T)
  BY DEF Surjection
<1>3. IsFiniteSet(T)
  BY <1>1, <1>2, FS_Surjection
<1>4. ASSUME NEW t \in T PROVE IsFiniteSet(t)
  <2>1. PICK q \in Q : t = {q} \X (1..n[q])
    OBVIOUS
  <2>2. IsFiniteSet({q}) /\ n[q] \in Int
    BY FS_Singleton
  <2>3. IsFiniteSet(1..n[q])
    BY <2>2, FS_Interval
  <2> QED BY <2>1, <2>2, <2>3, FS_Product
<1> HIDE DEF T
<1>5. IsFiniteSet(UNION T)
  BY <1>3, <1>4, FS_UNION
<1> QED BY <1>5 DEF Marks, T

(* The total is that of the other queues and what q has. *)
LEMMA TotalSplit ==
  ASSUME NEW n \in [Queues -> Nat], NEW q \in Queues
  PROVE  /\ Total(n) = Cardinality(Marks(n, Queues \ {q})) + n[q]
         /\ Cardinality(Marks(n, Queues \ {q})) \in Nat
PROOF
<1> DEFINE R == Marks(n, Queues \ {q})
           S == {q} \X (1..n[q])
<1>1. IsFiniteSet(R) /\ Cardinality(R) \in Nat
  BY MarksFinite, FS_CardinalityType
<1>2. IsFiniteSet(S) /\ Cardinality(S) = n[q]
  <2>1. IsFiniteSet({q}) /\ Cardinality({q}) = 1
    BY FS_Singleton
  <2>2. IsFiniteSet(1..n[q]) /\ Cardinality(1..n[q]) = n[q] /\ n[q] \in Nat
    BY FS_Interval
  <2>3. IsFiniteSet(S)
        /\ Cardinality(S) = Cardinality({q}) * Cardinality(1..n[q])
    BY <2>1, <2>2, FS_Product, Zenon
  <2> HIDE DEF S
  <2> QED BY <2>1, <2>2, <2>3
<1>3. R \cup S = UNION {{p} \X (1..n[p]) : p \in Queues} /\ R \cap S = {}
  BY DEF Marks
<1>4. Cardinality(R \cup S) = Cardinality(R) + n[q] - Cardinality({})
  BY <1>1, <1>2, <1>3, FS_Union
<1>5. Cardinality(R \cup S) = Cardinality(R) + n[q]
  BY <1>1, <1>2, <1>4, FS_EmptySet
<1> QED BY <1>1, <1>3, <1>5 DEF Total

(* Changing what one queue has changes the total by as much. *)
LEMMA TotalUpdate ==
  ASSUME NEW m \in [Queues -> Nat], NEW n \in [Queues -> Nat], NEW q \in Queues,
         \A p \in Queues : p # q => n[p] = m[p]
  PROVE  /\ Total(m) \in Nat /\ Total(n) \in Nat
         /\ Total(n) + m[q] = Total(m) + n[q]
PROOF
<1>1. Marks(n, Queues \ {q}) = Marks(m, Queues \ {q})
  BY DEF Marks
<1>2. m[q] \in Nat /\ n[q] \in Nat
  OBVIOUS
<1> QED BY <1>1, <1>2, TotalSplit

(* When every queue has as much, the total is a product. *)
LEMMA TotalConstant ==
  ASSUME NEW n \in [Queues -> Nat], NEW k \in Nat, \A q \in Queues : n[q] = k
  PROVE  Total(n) = Cardinality(Queues) * k
PROOF
<1>1. UNION {{q} \X (1..n[q]) : q \in Queues} = Queues \X (1..k)
  OBVIOUS
<1>2. IsFiniteSet(1..k) /\ Cardinality(1..k) = k
  BY FS_Interval
<1> QED BY <1>1, <1>2, FS_Product, RbdAssumption DEF Total
----------------------------------------------------------------------------
(* Every RBD is in one place *)

(* The RBDs of a queue, and of every queue. *)
Listed(x) == x.closed + x.used + x.free + x.held
Has == [q \in Queues |-> Listed(rxq[q])]

LEMMA ListedType == ASSUME NEW x \in QueueState PROVE Listed(x) \in Nat
PROOF BY RbdAssumption DEF Listed, QueueState

LEMMA HasType ==
  ASSUME rxq \in [Queues -> QueueState]
  PROVE  Has \in [Queues -> Nat] /\ Total(Has) \in Nat
PROOF
<1>1. Has \in [Queues -> Nat]
  BY ListedType DEF Has
<1> QED BY <1>1, TotalUpdate, RbdAssumption

(* Changing one queue changes the total by what that queue gains. *)
LEMMA HasUpdate ==
  ASSUME rxq \in [Queues -> QueueState], NEW q \in Queues, NEW x \in QueueState,
         rxq' = [rxq EXCEPT ![q] = x]
  PROVE  /\ Total(Has) \in Nat /\ Total(Has)' \in Nat
         /\ Total(Has)' + Listed(rxq[q]) = Total(Has) + Listed(x)
PROOF
<1>1. Has \in [Queues -> Nat] /\ Has' \in [Queues -> Nat]
  BY ListedType DEF Has
<1>2. \A p \in Queues : p # q => Has'[p] = Has[p]
  BY DEF Has
<1>3. Has[q] = Listed(rxq[q]) /\ Has'[q] = Listed(x)
  BY DEF Has
<1>4. Total(Has)' = Total(Has')
  BY DEF Total
<1> QED BY <1>1, <1>2, <1>3, <1>4, TotalUpdate

(* Restocking hands the device what it takes from the queue; the other     *)
(* changes of a queue.                                                     *)
LEMMA ListedFacts ==
  ASSUME NEW x \in QueueState
  PROVE  /\ Listed(Restocked(x)) + Told(x) = Listed(x)
         /\ Listed(Moved(x)) + x.used = Listed(x)
         /\ \A left \in 0..x.used : Listed(Allocated(x, left)) = Listed(x)
         /\ x.closed > 0 =>
              LET c == [x EXCEPT !.closed = @ - 1]
              IN  /\ Listed([c EXCEPT !.free = @ + 1]) = Listed(x)
                  /\ Listed([c EXCEPT !.used = @ + 1, !.extra = @ + 1]) = Listed(x)
                  /\ Listed([c EXCEPT !.used = @ + 1, !.used_count = @ + 1])
                       = Listed(x)
PROOF
<1>1. Listed(Restocked(x)) + Told(x) = Listed(x)
  <2>0. Written(x) \in Nat
    BY RbdAssumption DEF Written, QueueState
  <2>1. Written(x) % Grain \in Nat
    BY <2>0, ModFacts, RbdAssumption
  <2> QED BY <2>0, <2>1, RbdAssumption DEF Listed, Restocked, Told, Written, QueueState
<1>2. Listed(Moved(x)) + x.used = Listed(x)
  BY RbdAssumption DEF Listed, Moved, QueueState
<1>3. \A left \in 0..x.used : Listed(Allocated(x, left)) = Listed(x)
  BY RbdAssumption DEF Listed, Allocated, QueueState
<1>4. ASSUME x.closed > 0
      PROVE  LET c == [x EXCEPT !.closed = @ - 1]
             IN  /\ Listed([c EXCEPT !.free = @ + 1]) = Listed(x)
                 /\ Listed([c EXCEPT !.used = @ + 1, !.extra = @ + 1]) = Listed(x)
                 /\ Listed([c EXCEPT !.used = @ + 1, !.used_count = @ + 1])
                      = Listed(x)
  BY <1>4, RbdAssumption DEF Listed, QueueState
<1> QED BY <1>1, <1>2, <1>3, <1>4

(* A handler, or the device, moves RBDs between a queue, the device and    *)
(* the allocator, and loses none.                                          *)
LEMMA HandlerConserves ==
  ASSUME IInv, NEW q \in Queues, Handle(q) \/ Close(q)
  PROVE  \E x \in QueueState :
           /\ rxq' = [rxq EXCEPT ![q] = x]
           /\ hw' + Listed(x) + rbd_empty' + rbd_allocated'
                = hw + Listed(rxq[q]) + rbd_empty + rbd_allocated
           /\ UNCHANGED <<local_empty, local_allocated>>
PROOF
<1> USE RbdAssumption
<1>0. /\ rxq \in [Queues -> QueueState] /\ rxq[q] \in QueueState
      /\ hw \in Nat /\ rbd_empty \in Nat /\ rbd_allocated \in Nat
      /\ Listed(rxq[q]) \in Nat
  BY ListedType DEF IInv, TypeOK
<1>1. CASE \/ Restart(q) \/ Head(q) \/ UnknownRbd(q) \/ PostRequest(q)
           \/ QueueWork(q) \/ ClaimNone(q) \/ ClaimReady(q) \/ TailEmergency(q)
  <2>1. UNCHANGED <<rxq, hw, rbd_empty, rbd_allocated, local_empty, local_allocated>>
    BY <1>1 DEF Restart, Head, UnknownRbd, PostRequest, QueueWork, ClaimNone,
        ClaimReady, TailEmergency, rbaVars, workVars
  <2>2. rxq' = [rxq EXCEPT ![q] = rxq[q]]
    BY <1>0, <2>1
  <2> QED BY <1>0, <2>1, <2>2
<1>2. CASE EnterEmergency(q) \/ TailMove(q)
  <2>1. /\ rxq' = [rxq EXCEPT ![q] = Moved(rxq[q])]
        /\ rbd_empty' = rbd_empty + rxq[q].used
        /\ UNCHANGED <<hw, rbd_allocated, local_empty, local_allocated>>
    BY <1>2 DEF EnterEmergency, TailMove, MoveToAllocator, workVars
  <2>2. /\ Moved(rxq[q]) \in QueueState /\ Listed(Moved(rxq[q])) \in Nat
        /\ Listed(Moved(rxq[q])) + rxq[q].used = Listed(rxq[q])
        /\ rxq[q].used \in Nat
    BY <1>0, QueueTypes, ListedFacts, ListedType DEF QueueState
  <2>3. hw + Listed(Moved(rxq[q])) + (rbd_empty + rxq[q].used) + rbd_allocated
          = hw + Listed(rxq[q]) + rbd_empty + rbd_allocated
    BY <1>0, <2>2
  <2> QED BY <2>1, <2>2, <2>3
<1>3. CASE KeepPage(q) \/ StealEmergency(q) \/ StealCounted(q)
  <2>1. rxq[q].closed > 0
    BY <1>3 DEF IInv, HandlerInv, TypeOK, QueueState, RunState, KeepPage,
        StealEmergency, StealCounted
  <2>2. /\ Consumed(q) \in QueueState
        /\ UNCHANGED <<hw, rbd_allocated, local_empty, local_allocated>>
    BY <1>0, <1>3, <2>1, QueueTypes DEF Consumed, KeepPage, StealEmergency,
        StealCounted, Step, workVars
  <2>3. CASE KeepPage(q)
    <3>1. PICK x \in QueueState : x = [Consumed(q) EXCEPT !.free = @ + 1]
      BY <2>2, QueueTypes
    <3>2. Listed(x) = Listed(rxq[q])
      BY <1>0, <2>1, <3>1, ListedFacts DEF Consumed
    <3> QED BY <1>0, <2>2, <2>3, <3>1, <3>2 DEF KeepPage
  <2>4. CASE StealEmergency(q)
    <3>1. PICK x \in QueueState :
            x = [Consumed(q) EXCEPT !.used = @ + 1, !.extra = @ + 1]
      BY <2>2, QueueTypes
    <3>2. Listed(x) = Listed(rxq[q])
      BY <1>0, <2>1, <3>1, ListedFacts DEF Consumed
    <3> QED BY <1>0, <2>2, <2>4, <3>1, <3>2 DEF StealEmergency
  <2>5. CASE StealCounted(q)
    <3>1. PICK x \in QueueState :
            x = [Consumed(q) EXCEPT !.used = @ + 1, !.used_count = @ + 1]
      BY <2>2, QueueTypes
    <3>2. Listed(x) = Listed(rxq[q])
      BY <1>0, <2>1, <3>1, ListedFacts DEF Consumed
    <3>3. \/ rxq' = [rxq EXCEPT ![q] = Moved(x)] /\ rbd_empty' = rbd_empty + x.used
          \/ rxq' = [rxq EXCEPT ![q] = x] /\ rbd_empty' = rbd_empty
      BY <2>5, <3>1 DEF StealCounted, MoveToAllocator
    <3>4. /\ Moved(x) \in QueueState /\ Listed(Moved(x)) \in Nat
          /\ Listed(Moved(x)) + x.used = Listed(x) /\ x.used \in Nat
      BY QueueTypes, ListedFacts, ListedType DEF QueueState
    <3>5. hw + Listed(Moved(x)) + (rbd_empty + x.used) + rbd_allocated
            = hw + Listed(rxq[q]) + rbd_empty + rbd_allocated
      BY <1>0, <3>2, <3>4
    <3> QED BY <1>0, <2>2, <3>2, <3>3, <3>4, <3>5
  <2> QED BY <1>3, <2>3, <2>4, <2>5
<1>4. CASE Take(q)
  <2>1. rbd_allocated >= Claim /\ rxq[q].used_count >= Claim
    BY <1>4, GrantedFinds DEF Take, ClaimFinds, At, IInv, HandlerInv
  <2>2. PICK x : x = [rxq[q] EXCEPT !.free = @ + Claim, !.used_count = @ - Claim]
    OBVIOUS
  <2>3. x \in QueueState /\ Listed(x) = Listed(rxq[q]) + Claim
    <3>1. PICK f, u \in Nat : f = rxq[q].free + Claim /\ u = rxq[q].used_count - Claim
      BY <1>0, <2>1 DEF QueueState
    <3>2. x = [rxq[q] EXCEPT !.free = f, !.used_count = u]
      BY <2>2, <3>1
    <3>3. x \in QueueState
      BY <1>0, <3>2 DEF QueueState
    <3>4. /\ x.closed = rxq[q].closed /\ x.used = rxq[q].used /\ x.free = f
          /\ x.held = rxq[q].held
      BY <1>0, <3>2 DEF QueueState
    <3>5. /\ rxq[q].closed \in Nat /\ rxq[q].used \in Nat /\ rxq[q].free \in Nat
          /\ rxq[q].held \in Nat
      BY <1>0 DEF QueueState
    <3> QED BY <3>1, <3>3, <3>4, <3>5 DEF Listed
  <2>4. /\ rxq' = [rxq EXCEPT ![q] = x] /\ rbd_allocated' = rbd_allocated - Claim
        /\ UNCHANGED <<hw, rbd_empty, local_empty, local_allocated>>
    BY <1>0, <1>4, <2>2 DEF Take, workVars
  <2>5. hw + Listed(x) + rbd_empty + (rbd_allocated - Claim)
          = hw + Listed(rxq[q]) + rbd_empty + rbd_allocated
    BY <1>0, <2>3
  <2> QED BY <2>3, <2>4, <2>5
<1>5. ASSUME NEW x \in QueueState, Listed(x) = Listed(rxq[q]), Restock(q, x),
             UNCHANGED <<rbaVars, workVars>>
      PROVE  \E y \in QueueState :
               /\ rxq' = [rxq EXCEPT ![q] = y]
               /\ hw' + Listed(y) + rbd_empty' + rbd_allocated'
                    = hw + Listed(rxq[q]) + rbd_empty + rbd_allocated
               /\ UNCHANGED <<local_empty, local_allocated>>
  <2>1. /\ Listed(Restocked(x)) + Told(x) = Listed(x) /\ Told(x) \in Nat
        /\ Restocked(x) \in QueueState /\ Listed(Restocked(x)) \in Nat
    BY ListedFacts, ListedType, RestockType
  <2>2. \/ hw' = hw + Told(x) /\ rxq' = [rxq EXCEPT ![q] = Restocked(x)]
        \/ hw' = hw /\ rxq' = [rxq EXCEPT ![q] = x]
    BY <1>5 DEF Restock
  <2>3. UNCHANGED <<rbd_empty, rbd_allocated, local_empty, local_allocated>>
    BY <1>5 DEF rbaVars, workVars
  <2>4. hw + Told(x) + Listed(Restocked(x)) + rbd_empty + rbd_allocated
          = hw + Listed(rxq[q]) + rbd_empty + rbd_allocated
    BY <1>0, <1>5, <2>1
  <2> QED BY <1>5, <2>1, <2>2, <2>3, <2>4
<1>6. CASE BatchAlloc(q)
  <2>1. PICK left \in 0..rxq[q].used : Restock(q, Allocated(rxq[q], left))
    BY <1>6 DEF BatchAlloc
  <2> QED BY <1>0, <1>5, <1>6, <2>1, AllocatedType, ListedFacts DEF BatchAlloc
<1>7. CASE Out(q)
  <2>1. \/ Restock(q, rxq[q])
        \/ \E left \in 0..rxq[q].used : Restock(q, Allocated(rxq[q], left))
    BY <1>7 DEF Out
  <2> QED BY <1>0, <1>5, <1>7, <2>1, AllocatedType, ListedFacts DEF Out
<1>8. CASE Close(q)
  <2>1. PICK x : x = [rxq[q] EXCEPT !.closed = @ + 1]
    OBVIOUS
  <2>2. x \in QueueState /\ Listed(x) = Listed(rxq[q]) + 1
    BY <1>0, <2>1 DEF QueueState, Listed
  <2>3. /\ rxq' = [rxq EXCEPT ![q] = x] /\ hw' = hw - 1 /\ hw > 0
        /\ UNCHANGED <<rbd_empty, rbd_allocated, local_empty, local_allocated>>
    BY <1>0, <1>8, <2>1 DEF Close, rbaVars, workVars
  <2>4. (hw - 1) + Listed(x) + rbd_empty + rbd_allocated
          = hw + Listed(rxq[q]) + rbd_empty + rbd_allocated
    BY <1>0, <2>2
  <2> QED BY <2>2, <2>3, <2>4
<1> QED BY <1>1, <1>2, <1>3, <1>4, <1>6, <1>7, <1>8 DEF Handle

(* The work holds no RBDs before it has swapped the lists. *)
LocalInv == wpc \in {"idle", "swap"} => local_empty = 0

LEMMA LocalStep == LocalInv /\ [Next]_vars => LocalInv'
PROOF
<1> SUFFICES ASSUME LocalInv, [Next]_vars PROVE LocalInv'
  OBVIOUS
<1>1. CASE Work
  BY <1>1 DEF LocalInv, Work, WorkStart, WorkSwap, WorkServe, WorkReread,
      WorkSplice, WorkReady, WorkReturn, More
<1>2. ASSUME NEW q \in Queues, Handle(q) \/ Close(q)
      PROVE  UNCHANGED <<wpc, local_empty>>
  BY <1>2 DEF Handle, Close, Restart, Head, EnterEmergency, KeepPage,
      StealEmergency, StealCounted, Step, UnknownRbd, PostRequest, QueueWork,
      ClaimNone, ClaimReady, Take, TailMove, TailEmergency, BatchAlloc, Out, workVars
<1>3. CASE Stop \/ Reinit \/ UNCHANGED vars
  BY <1>3 DEF LocalInv, Stop, Reinit, vars, workVars
<1> QED BY <1>1, <1>2, <1>3 DEF Next, LocalInv

(* Initialisation hands out QueueSize - 1 RBDs and the pool. *)
LEMMA FilledTotal ==
  ASSUME NEW n \in [Queues -> Nat],
         \A q \in Queues : n[q] = IF q = DefaultQueue
                                   THEN Listed(Restocked(FilledQueue))
                                   ELSE Listed(EmptyQueue)
  PROVE  Told(FilledQueue) + Total(n) = QueueSize - 1
PROOF
<1> DEFINE z == [q \in Queues |-> 0]
<1>1. Listed(FilledQueue) = QueueSize - 1 /\ Listed(EmptyQueue) = 0
  BY RbdAssumption DEF Listed, FilledQueue, EmptyQueue
<1>2. /\ Listed(Restocked(FilledQueue)) + Told(FilledQueue) = QueueSize - 1
      /\ Told(FilledQueue) \in Nat
  BY <1>1, FilledType, ListedFacts, RestockType
<1>3. z \in [Queues -> Nat] /\ Total(z) = Cardinality(Queues) * 0
  BY TotalConstant
<1>4. Total(z) = 0
  BY <1>3, FS_CardinalityType, RbdAssumption
<1>5. z[DefaultQueue] = 0 /\ \A p \in Queues : p # DefaultQueue => n[p] = z[p]
  BY <1>1, RbdAssumption
<1>6. /\ Total(n) + z[DefaultQueue] = Total(z) + n[DefaultQueue]
      /\ Total(n) \in Nat
  <2> HIDE DEF z
  <2> QED BY <1>3, <1>5, TotalUpdate, RbdAssumption
<1>7. n[DefaultQueue] = Listed(Restocked(FilledQueue)) /\ n[DefaultQueue] \in Nat
  BY RbdAssumption
<1> QED BY <1>2, <1>4, <1>5, <1>6, <1>7

(* No RBD is lost, and none is in two places, whatever the handlers, the   *)
(* allocator's work, failed allocations and restarts do (iwl_rxq,          *)
(* iwl_rb_allocator and the ring of the device).                           *)
THEOREM RbdsConserved == Spec => []Conserved
PROOF
<1> DEFINE Books == hw + Total(Has) + rbd_empty + local_empty + local_allocated
                      + rbd_allocated = QueueSize - 1 + Pool
<1>0. Books <=> Conserved
  BY DEF Conserved, Has, Listed
<1>1. Init => Books
  <2> SUFFICES ASSUME Init PROVE Books
    OBVIOUS
  <2>1. TypeOK
    BY InitInv DEF IInv
  <2>2. Has \in [Queues -> Nat] /\ \A q \in Queues : Has[q] = Listed(rxq[q])
    BY <2>1, ListedType DEF Has, TypeOK
  <2>3. hw + Total(Has) = QueueSize - 1
    BY <2>2, FilledTotal DEF Init
  <2> QED BY <2>3, PoolType, RbdAssumption DEF Init
<1>2. IInv /\ LocalInv /\ Books /\ [Next]_vars => Books'
  <2> SUFFICES ASSUME IInv, LocalInv, Books, [Next]_vars PROVE Books'
    OBVIOUS
  <2>0. TypeOK /\ TypeOK' /\ Pool \in Nat
    BY TypeStep, PoolType DEF IInv
  <2>1. ASSUME NEW q \in Queues, Handle(q) \/ Close(q) PROVE Books'
    <3>1. PICK x \in QueueState :
            /\ rxq' = [rxq EXCEPT ![q] = x]
            /\ hw' + Listed(x) + rbd_empty' + rbd_allocated'
                 = hw + Listed(rxq[q]) + rbd_empty + rbd_allocated
            /\ UNCHANGED <<local_empty, local_allocated>>
      BY <2>1, HandlerConserves
    <3>2. /\ Total(Has) \in Nat /\ Total(Has)' \in Nat
          /\ Total(Has)' + Listed(rxq[q]) = Total(Has) + Listed(x)
          /\ Listed(x) \in Nat /\ Listed(rxq[q]) \in Nat
      BY <2>0, <3>1, HasUpdate, ListedType DEF TypeOK
    <3>3. /\ hw \in Nat /\ rbd_empty \in Nat /\ rbd_allocated \in Nat
          /\ hw' \in Nat /\ rbd_empty' \in Nat /\ rbd_allocated' \in Nat
          /\ local_empty \in Nat /\ local_allocated \in Nat
      BY <2>0 DEF TypeOK
    <3>4. Books' <=> hw' + Total(Has)' + rbd_empty' + local_empty'
                      + local_allocated' + rbd_allocated' = QueueSize - 1 + Pool
      BY DEF Pool
    <3> QED BY <3>1, <3>2, <3>3, <3>4
  <2>2. CASE Work
    <3>1. UNCHANGED <<rxq, hw>>
      BY <2>2 DEF Work, WorkStart, WorkSwap, WorkServe, WorkReread, WorkSplice,
          WorkReady, WorkReturn, handlerVars
    <3>2. rbd_empty' + local_empty' + local_allocated' + rbd_allocated'
            = rbd_empty + local_empty + local_allocated + rbd_allocated
      <4>0. /\ rbd_empty \in Nat /\ local_empty \in Nat /\ local_allocated \in Nat
            /\ rbd_allocated \in Nat /\ Claim \in Nat
        BY <2>0, RbdAssumption DEF TypeOK
      <4>1. CASE WorkStart \/ WorkReread \/ WorkReady
        BY <4>1 DEF WorkStart, WorkReread, WorkReady, rbaVars
      <4>2. CASE WorkSwap
        BY <4>0, <4>2 DEF WorkSwap, LocalInv
      <4>3. CASE WorkServe
        BY <4>0, <4>3 DEF WorkServe
      <4>4. CASE WorkSplice
        BY <4>0, <4>4 DEF WorkSplice
      <4>5. CASE WorkReturn
        BY <4>0, <4>5 DEF WorkReturn
      <4> QED BY <2>2, <4>1, <4>2, <4>3, <4>4, <4>5 DEF Work
    <3>3. Has' = Has
      BY <3>1 DEF Has
    <3>4. PICK t \in Nat : t = Total(Has)
      BY <2>0, HasType DEF TypeOK
    <3>5. Total(Has)' = Total(Has)
      BY <3>3 DEF Total
    <3>6. /\ hw \in Nat /\ rbd_empty \in Nat /\ local_empty \in Nat
          /\ local_allocated \in Nat /\ rbd_allocated \in Nat
          /\ rbd_empty' \in Nat /\ local_empty' \in Nat
          /\ local_allocated' \in Nat /\ rbd_allocated' \in Nat
      BY <2>0 DEF TypeOK
    <3>7. hw + t + rbd_empty' + local_empty' + local_allocated' + rbd_allocated'
            = hw + t + rbd_empty + local_empty + local_allocated + rbd_allocated
      <4>1. PICK x, a, b, c, d, e, f, g, h \in Nat :
              /\ x = hw /\ a = rbd_empty' /\ b = local_empty'
              /\ c = local_allocated' /\ d = rbd_allocated'
              /\ e = rbd_empty /\ f = local_empty
              /\ g = local_allocated /\ h = rbd_allocated
        BY <3>6
      <4>2. a + b + c + d = e + f + g + h
        BY <3>2, <4>1
      <4>3. x + t + a + b + c + d = x + t + e + f + g + h
        BY <4>2
      <4> QED BY <4>1, <4>3
    <3> QED BY <3>1, <3>4, <3>5, <3>7 DEF Pool
  <2>3. CASE Reinit
    <3>1. Has' \in [Queues -> Nat] /\ \A q \in Queues : Has'[q] = Listed(rxq'[q])
      BY <2>0, ListedType DEF Has, TypeOK
    <3>2. hw' + Total(Has)' = QueueSize - 1
      BY <2>3, <3>1, FilledTotal DEF Reinit
    <3>3. local_empty' = 0 /\ local_allocated' = 0
      BY <2>3 DEF Reinit, LocalInv, IInv, WorkInv
    <3> QED BY <2>0, <2>3, <3>2, <3>3, RbdAssumption DEF Reinit
  <2>4. CASE Stop \/ UNCHANGED vars
    BY <2>4 DEF Stop, vars, handlerVars, rbaVars, workVars, Has
  <2> QED BY <2>1, <2>2, <2>3, <2>4 DEF Next
<1>3. LocalInv /\ [Next]_vars => LocalInv'
  BY LocalStep
<1>4. Init => LocalInv
  BY DEF Init, LocalInv
<1> QED BY <1>0, <1>1, <1>2, <1>3, <1>4, Invariant, PTL DEF Spec
----------------------------------------------------------------------------
(* Uncounted RBDs *)

(* Until an allocation fails, uncounted RBDs exist only while the handler  *)
(* is sure to give them a page itself.                                     *)
UntrackedInv ==
  /\ \A q \in Queues : pc[q] = "emergency" => ~run[q].emergency
  /\ faults = 0 =>
       /\ leaked = 0
       /\ \A q \in Queues :
            rxq[q].extra > 0 =>
              \/ pc[q] = "batch"
              \/ /\ run[q].emergency
                 /\ run[q].count > 0 \/ pc[q] \in {"claim", "take", "tail"}

(* A handler changes what belongs to its own queue only. *)
LEMMA HandlerFrame ==
  ASSUME TypeOK, NEW q \in Queues, Handle(q) \/ Close(q)
  PROVE  /\ \A p \in Queues : p # q => /\ pc'[p] = pc[p] /\ rxq'[p] = rxq[p]
                                       /\ run'[p] = run[p]
         /\ BatchAlloc(q) \/ Out(q) \/ faults' = faults
         /\ UNCHANGED <<wpc, pending, local_empty>>
PROOF
<1> USE DEF TypeOK, rbaVars, workVars, boundVars
<1>1. CASE \/ Restart(q) \/ Head(q) \/ UnknownRbd(q) \/ PostRequest(q)
           \/ QueueWork(q) \/ ClaimNone(q) \/ ClaimReady(q) \/ TailEmergency(q)
  BY <1>1 DEF Restart, Head, UnknownRbd, PostRequest, QueueWork, ClaimNone,
      ClaimReady, TailEmergency
<1>2. CASE EnterEmergency(q) \/ TailMove(q) \/ Take(q) \/ Close(q)
  BY <1>2 DEF EnterEmergency, TailMove, Take, Close
<1>3. CASE KeepPage(q) \/ StealEmergency(q) \/ StealCounted(q)
  BY <1>3 DEF KeepPage, StealEmergency, StealCounted, Step
<1>4. CASE BatchAlloc(q) \/ Out(q)
  BY <1>4 DEF BatchAlloc, Out, Restock
<1> QED BY <1>1, <1>2, <1>3, <1>4 DEF Handle

(* The part of the invariant about one queue. *)
SelfAllocates(q) ==
  rxq[q].extra > 0 =>
    \/ pc[q] = "batch"
    \/ /\ run[q].emergency
       /\ run[q].count > 0 \/ pc[q] \in {"claim", "take", "tail"}

LEMMA UntrackedHandler ==
  ASSUME IInv, UntrackedInv, NEW q \in Queues, Handle(q) \/ Close(q)
  PROVE  /\ pc'[q] = "emergency" => ~run'[q].emergency
         /\ faults' = 0 => faults = 0 /\ leaked' = 0 /\ SelfAllocates(q)'
PROOF
<1> USE DEF IInv
<1>0. /\ rxq \in [Queues -> QueueState] /\ rxq[q] \in QueueState
      /\ run \in [Queues -> RunState] /\ run[q] \in RunState
      /\ pc \in [Queues -> QueueSteps]
      /\ leaked \in Nat /\ faults \in Nat
  BY DEF TypeOK
<1>1. faults = 0 => leaked = 0 /\ SelfAllocates(q)
  BY DEF UntrackedInv, SelfAllocates
<1>2. CASE Restart(q) \/ Head(q) \/ UnknownRbd(q)
  BY <1>0, <1>1, <1>2 DEF Restart, Head, UnknownRbd, Loop, EntersEmergency,
      SelfAllocates, RunState, boundVars
<1>3. CASE \/ PostRequest(q) \/ QueueWork(q) \/ ClaimNone(q) \/ ClaimReady(q)
  BY <1>0, <1>1, <1>3 DEF PostRequest, QueueWork, ClaimNone, ClaimReady, ToClaim,
      ToTail, Loop, SelfAllocates, boundVars
<1>4. CASE Take(q)
  BY <1>0, <1>1, <1>4 DEF Take, ToTail, Loop, SelfAllocates, boundVars, QueueState
<1>5. CASE EnterEmergency(q)
  BY <1>0, <1>1, <1>5 DEF EnterEmergency, MoveToAllocator, Moved, SelfAllocates,
      boundVars, QueueState, UntrackedInv
<1>6. CASE TailMove(q)
  BY <1>0, <1>1, <1>6 DEF TailMove, MoveToAllocator, Moved, SelfAllocates,
      boundVars, QueueState, Loop
<1>7. CASE KeepPage(q)
  BY <1>0, <1>1, <1>7 DEF KeepPage, Step, Consumed, SelfAllocates, ToClaim, ToTail,
      Loop, boundVars, QueueState, RunState
<1>8. CASE StealEmergency(q)
  BY <1>0, <1>1, <1>8 DEF StealEmergency, Step, Consumed, SelfAllocates, ToClaim,
      ToTail, Loop, boundVars, QueueState, RunState
<1>9. CASE StealCounted(q)
  <2>1. /\ pc[q] = "handle" /\ ~run[q].emergency /\ faults' = faults
        /\ pc' = [pc EXCEPT ![q] = pc'[q]]
        /\ pc'[q] \in {"post", "claim", "tail", "out", "head"}
    BY <1>0, <1>9 DEF StealCounted, Step, ToClaim, ToTail, Loop, boundVars
  <2>2. faults = 0 => leaked = 0 /\ rxq[q].extra = 0
    BY <1>0, <1>1, <2>1 DEF SelfAllocates, QueueState
  <2>3. PICK x \in QueueState :
          /\ x = [Consumed(q) EXCEPT !.used = @ + 1, !.used_count = @ + 1]
          /\ x.extra = rxq[q].extra
    <3>1. rxq[q].closed > 0
      BY <2>1, <1>0 DEF HandlerInv, QueueState, RunState
    <3>2. /\ Consumed(q) \in QueueState /\ Consumed(q).extra = rxq[q].extra
      BY <1>0, <3>1, QueueTypes DEF Consumed, QueueState
    <3>3. [Consumed(q) EXCEPT !.used = @ + 1, !.used_count = @ + 1] \in QueueState
      BY <3>2, QueueTypes
    <3>4. [Consumed(q) EXCEPT !.used = @ + 1, !.used_count = @ + 1].extra
            = Consumed(q).extra
      BY <3>2 DEF QueueState
    <3> QED BY <3>2, <3>3, <3>4
  <2>4. (rxq'[q] = Moved(x) /\ leaked' = leaked + x.extra)
          \/ (rxq'[q] = x /\ leaked' = leaked)
    BY <1>0, <1>9, <2>3, Zenon DEF StealCounted, MoveToAllocator
  <2>5. Moved(x).extra = 0
    BY <2>3 DEF Moved, QueueState
  <2>6. faults = 0 => leaked' = 0 /\ rxq'[q].extra = 0
    <3> SUFFICES ASSUME faults = 0 PROVE leaked' = 0 /\ rxq'[q].extra = 0
      OBVIOUS
    <3>1. x.extra = 0 /\ leaked = 0 /\ leaked + x.extra = 0
      BY <2>2, <2>3
    <3> QED BY <3>1, <2>4, <2>5
  <2> QED BY <1>0, <2>1, <2>6 DEF SelfAllocates
<1>10. CASE TailEmergency(q)
  BY <1>0, <1>1, <1>10 DEF TailEmergency, SelfAllocates, Loop, boundVars, RunState
<1>11. CASE BatchAlloc(q)
  BY <1>0, <1>1, <1>11 DEF BatchAlloc, AllocFails, Failures, Restock, Restocked,
      Allocated, SelfAllocates, QueueState
<1>12. CASE Out(q)
  <2>1. /\ pc[q] = "out" /\ leaked' = leaked /\ pc'[q] = "idle"
    BY <1>0, <1>12 DEF Out
  <2>2. CASE AllocsOnExit(q)
    <3>1. PICK left \in 0..rxq[q].used :
            AllocFails(left) /\ Restock(q, Allocated(rxq[q], left))
      BY <1>12, <2>2 DEF Out
    <3>2. faults' = 0 => faults = 0 /\ left = 0
      BY <1>0, <3>1 DEF AllocFails, Failures
    <3>3. rxq'[q].extra = left
      BY <1>0, <3>1 DEF Restock, Restocked, Allocated, QueueState
    <3> QED BY <1>1, <2>1, <3>2, <3>3 DEF SelfAllocates
  <2>3. CASE ~AllocsOnExit(q)
    <3>1. Restock(q, rxq[q]) /\ faults' = faults
      BY <1>12, <2>3 DEF Out
    <3>2. rxq'[q].extra = rxq[q].extra
      BY <1>0, <3>1 DEF Restock, Restocked, QueueState
    <3> QED BY <1>0, <1>1, <2>1, <2>3, <3>1, <3>2
        DEF SelfAllocates, AllocsOnExit, QueueState
  <2> QED BY <2>2, <2>3
<1>13. CASE Close(q)
  BY <1>0, <1>1, <1>13 DEF Close, SelfAllocates, boundVars, QueueState, UntrackedInv
<1> QED BY <1>2, <1>3, <1>4, <1>5, <1>6, <1>7, <1>8, <1>9, <1>10, <1>11, <1>12, <1>13
    DEF Handle

LEMMA UntrackedStep == IInv /\ UntrackedInv /\ [Next]_vars => UntrackedInv'
PROOF
<1> SUFFICES ASSUME IInv, UntrackedInv, [Next]_vars PROVE UntrackedInv'
  OBVIOUS
<1>1. ASSUME NEW q \in Queues, Handle(q) \/ Close(q) PROVE UntrackedInv'
  <2>1. /\ pc'[q] = "emergency" => ~run'[q].emergency
        /\ faults' = 0 => faults = 0 /\ leaked' = 0 /\ SelfAllocates(q)'
    BY <1>1, UntrackedHandler
  <2>2. \A p \in Queues : p # q => /\ pc'[p] = pc[p] /\ rxq'[p] = rxq[p]
                                   /\ run'[p] = run[p]
    BY <1>1, HandlerFrame DEF IInv
  <2>3. \A p \in Queues : pc'[p] = "emergency" => ~run'[p].emergency
    BY <2>1, <2>2 DEF UntrackedInv
  <2>4. ASSUME faults' = 0, NEW p \in Queues PROVE SelfAllocates(p)'
    <3>1. CASE p = q
      BY <2>1, <2>4, <3>1
    <3>2. CASE p # q
      BY <2>1, <2>2, <2>4, <3>2 DEF UntrackedInv, SelfAllocates
    <3> QED BY <3>1, <3>2
  <2> QED BY <2>1, <2>3, <2>4 DEF UntrackedInv, SelfAllocates
<1>2. CASE Work
  <2>1. UNCHANGED <<pc, rxq, run, faults, leaked>>
    BY <1>2 DEF Work, WorkStart, WorkSwap, WorkServe, WorkReread, WorkSplice,
        WorkReady, WorkReturn, handlerVars, boundVars
  <2> QED BY <2>1 DEF UntrackedInv
<1>3. CASE Reinit
  <2>1. \A q \in Queues : pc'[q] = "idle" /\ rxq'[q].extra = 0
    BY <1>3 DEF Reinit, Restocked, FilledQueue, EmptyQueue
  <2>2. leaked' = 0
    BY <1>3 DEF Reinit
  <2> QED BY <2>1, <2>2 DEF UntrackedInv
<1>4. CASE Stop \/ UNCHANGED vars
  BY <1>4 DEF Stop, vars, handlerVars, boundVars, UntrackedInv
<1> QED BY <1>1, <1>2, <1>3, <1>4 DEF Next

(* No RBD goes to the allocator uncounted unless an atomic allocation has  *)
(* failed (iwl_pcie_rx_handle: RBDs used in emergency mode get their page  *)
(* from the handler before its queue can move a used list again).          *)
THEOREM TrackedUntilFailure == Spec => []UntrackedOnlyAfterFailure
PROOF
<1>1. Init => UntrackedInv
  BY DEF Init, UntrackedInv, Restocked, FilledQueue, EmptyQueue
<1>2. IInv /\ UntrackedInv => UntrackedOnlyAfterFailure
  BY DEF IInv, TypeOK, UntrackedInv, UntrackedOnlyAfterFailure
<1> QED BY <1>1, <1>2, UntrackedStep, Invariant, PTL DEF Spec
----------------------------------------------------------------------------
(* What the allocator has, and what it was asked for *)

(* The place of a queue in its round: 0 when it has just posted. *)
Round(x) == (x.used_count + (Claim - Post)) % Claim

(* Counted RBDs that are still on the queue's used list. *)
Kept(x) == x.used - x.extra

(* What the queue has given the allocator, its share of the pool included, *)
(* and has not asked for yet.                                              *)
Spares(x) == Round(x) - Kept(x)
Spare == [q \in Queues |-> Spares(rxq[q])]

(* A queue keeps no more RBDs than the round has had since the last post,  *)
(* and none that is counted once it is in emergency mode.                  *)
InRound(x) == x.extra <= x.used /\ Kept(x) <= Round(x)
RoundInv ==
  \A q \in Queues :
    /\ InRound(rxq[q])
    /\ run[q].emergency \/ pc[q] = "batch" => rxq[q].extra = rxq[q].used

(* The RBDs without a page are those of the requests, the spare ones and   *)
(* the uncounted ones.                                                     *)
Requests == req_pending + Cardinality(At("post"))
Ledger ==
  rbd_empty + local_empty = Claim * Requests + Total(Spare) + leaked

(* The work took the RBDs of every request it has counted. *)
TakenInv == wpc \in {"serve", "ready"} => local_empty >= Claim * pending

LedgerInv == LocalInv /\ RoundInv /\ Ledger /\ TakenInv

(* A remainder is known from any way to write the number with it. *)
LEMMA RemainderIs ==
  ASSUME NEW n \in Nat, NEW d \in Nat \ {0}, NEW k \in Int, NEW r \in 0..d-1,
         n = d * k + r
  PROVE  n % d = r
PROOF
<1>1. n = d * (n \div d) + (n % d) /\ n % d \in 0..d-1 /\ n \div d \in Int
  BY SMT
<1>2. PICK m \in Int : m = k - (n \div d)
  BY <1>1
<1>3. d * m = (n % d) - r
  BY <1>1, <1>2
<1>4. m >= 1 => d * m >= d
  BY SMT
<1>5. m <= -1 => d * m <= -d
  BY SMT
<1>6. m = 0
  BY <1>1, <1>3, <1>4, <1>5
<1> QED BY <1>1, <1>3, <1>6

(* The next number's remainder is the next one, or 0 after the last. *)
LEMMA RemainderNext ==
  ASSUME NEW n \in Nat, NEW d \in Nat \ {0}
  PROVE  /\ (n + 1) % d # 0 => (n + 1) % d = (n % d) + 1
         /\ (n + 1) % d = 0 => n % d = d - 1
         /\ (n + d) % d = n % d
PROOF
<1>1. PICK k \in Int, r \in 0..d-1 : n = d * k + r /\ k = n \div d /\ r = n % d
  BY SMT
<1>2. (n + d) % d = n % d
  <2>1. n + d = d * (k + 1) + r /\ n + d \in Nat /\ k + 1 \in Int
    BY <1>1
  <2> QED BY <1>1, <2>1, RemainderIs
<1>3. CASE r + 1 < d
  <2>1. n + 1 = d * k + (r + 1) /\ r + 1 \in 0..d-1 /\ n + 1 \in Nat
    BY <1>1, <1>3
  <2>2. (n + 1) % d = r + 1
    BY <1>1, <2>1, RemainderIs
  <2> QED BY <1>1, <2>2, <1>2
<1>4. CASE r + 1 = d
  <2>1. n + 1 = d * (k + 1) + 0 /\ n + 1 \in Nat /\ 0 \in 0..d-1 /\ k + 1 \in Int
    BY <1>1, <1>4
  <2>2. (n + 1) % d = 0
    BY <2>1, RemainderIs
  <2> QED BY <1>1, <1>2, <1>4, <2>2
<1> QED BY <1>1, <1>3, <1>4

(* The round of a queue goes on with every counted RBD, starts again when  *)
(* the queue posts, and does not change when the queue takes Claim RBDs.   *)
LEMMA RoundFacts ==
  ASSUME NEW x \in QueueState, NEW y \in QueueState
  PROVE  /\ Round(x) \in 0..Claim-1
         /\ y.used_count = x.used_count => Round(y) = Round(x)
         /\ y.used_count = x.used_count + 1 =>
              IF Posts(y.used_count) THEN Round(x) = Claim - 1 /\ Round(y) = 0
                                     ELSE Round(y) = Round(x) + 1
         /\ x.used_count = y.used_count + Claim => Round(y) = Round(x)
PROOF
<1> USE RbdAssumption
<1>1. PICK g \in 1..Claim-1 : g = Claim - Post
  OBVIOUS
<1>2. x.used_count \in Nat /\ y.used_count \in Nat
  BY DEF QueueState
<1>3. /\ x.used_count + g \in Nat /\ y.used_count + g \in Nat
      /\ Round(x) = (x.used_count + g) % Claim
      /\ Round(y) = (y.used_count + g) % Claim
  BY <1>1, <1>2 DEF Round
<1>4. Round(x) \in 0..Claim-1
  BY <1>3, ModFacts
<1>5. ASSUME y.used_count = x.used_count + 1
      PROVE  IF Posts(y.used_count) THEN Round(x) = Claim - 1 /\ Round(y) = 0
                                    ELSE Round(y) = Round(x) + 1
  <2>1. y.used_count + g = (x.used_count + g) + 1
    BY <1>2, <1>5
  <2>2. /\ Round(y) # 0 => Round(y) = Round(x) + 1
        /\ Round(y) = 0 => Round(x) = Claim - 1
    <3>1. PICK m \in Nat : m = x.used_count + g
      BY <1>3
    <3>2. Round(x) = m % Claim /\ Round(y) = (m + 1) % Claim
      BY <1>3, <2>1, <3>1
    <3>3. /\ (m + 1) % Claim # 0 => (m + 1) % Claim = (m % Claim) + 1
          /\ (m + 1) % Claim = 0 => m % Claim = Claim - 1
      BY RemainderNext
    <3> QED BY <3>2, <3>3
  <2>3. ASSUME Posts(y.used_count) PROVE Round(y) = 0
    <3>1. PICK k \in Int : y.used_count = Claim * k + Post
      <4>1. PICK c \in Nat : c = y.used_count
        BY <1>2
      <4>2. c % Claim = Post
        BY <2>3, <4>1 DEF Posts
      <4>3. c = Claim * (c \div Claim) + (c % Claim) /\ c \div Claim \in Int
        OBVIOUS
      <4> QED BY <4>1, <4>2, <4>3
    <3>2. y.used_count + g = Claim * (k + 1) + 0 /\ k + 1 \in Int /\ 0 \in 0..Claim-1
      BY <1>1, <3>1
    <3> QED BY <1>3, <3>2, RemainderIs
  <2>4. ASSUME Round(y) = 0 PROVE Posts(y.used_count)
    <3>1. PICK k \in Int : y.used_count + g = Claim * k + 0
      BY <1>3, <2>4
    <3>2. y.used_count = Claim * (k - 1) + Post /\ k - 1 \in Int /\ Post \in 0..Claim-1
      BY <1>1, <1>2, <3>1
    <3> QED BY <1>2, <3>2, RemainderIs DEF Posts
  <2> QED BY <2>2, <2>3, <2>4
<1>6. ASSUME x.used_count = y.used_count + Claim PROVE Round(y) = Round(x)
  <2>1. x.used_count + g = (y.used_count + g) + Claim
    BY <1>2, <1>6
  <2> QED BY <1>3, <2>1, RemainderNext
<1>7. y.used_count = x.used_count => Round(y) = Round(x)
  BY <1>3
<1> QED BY <1>4, <1>5, <1>6, <1>7

(* What a queue has spare is a number, and handing over its used list      *)
(* makes its counted RBDs spare.                                           *)
LEMMA SparesFacts ==
  ASSUME NEW x \in QueueState, InRound(x)
  PROVE  /\ Spares(x) \in Nat /\ Spares(x) <= Claim - 1
         /\ InRound(Moved(x)) /\ Moved(x) \in QueueState
         /\ Spares(Moved(x)) = Spares(x) + x.used - x.extra
         /\ Moved(x).used = 0 /\ Moved(x).extra = 0
PROOF
<1>1. /\ x.used \in Nat /\ x.extra \in Nat /\ Round(x) \in 0..Claim-1
      /\ Claim \in Nat
  BY RoundFacts, RbdAssumption DEF QueueState
<1>2. /\ Moved(x) \in QueueState /\ Moved(x).used_count = x.used_count
      /\ Moved(x).used = 0 /\ Moved(x).extra = 0
  BY QueueTypes DEF Moved, QueueState
<1>3. Round(Moved(x)) = Round(x)
  BY <1>2, RoundFacts
<1> QED BY <1>1, <1>2, <1>3 DEF Spares, InRound, Kept

(* Changing one queue changes the spare RBDs by those of that queue. *)
LEMMA SpareUpdate ==
  ASSUME rxq \in [Queues -> QueueState], \A p \in Queues : InRound(rxq[p]),
         NEW q \in Queues, NEW x \in QueueState, InRound(x),
         rxq' = [rxq EXCEPT ![q] = x]
  PROVE  /\ Total(Spare) \in Nat /\ Total(Spare)' \in Nat
         /\ Total(Spare)' + Spares(rxq[q]) = Total(Spare) + Spares(x)
PROOF
<1>1. Spare \in [Queues -> Nat] /\ Spare' \in [Queues -> Nat]
  BY SparesFacts DEF Spare
<1>2. \A p \in Queues : p # q => Spare'[p] = Spare[p]
  BY DEF Spare
<1>3. Spare[q] = Spares(rxq[q]) /\ Spare'[q] = Spares(x)
  BY DEF Spare
<1>4. Total(Spare)' = Total(Spare')
  BY DEF Total
<1> QED BY <1>1, <1>2, <1>3, <1>4, TotalUpdate

(* The step of a handler leaves its queue as x and posts d requests. *)
Keeps(q, x, d) ==
  /\ rxq' = [rxq EXCEPT ![q] = x]
  /\ InRound(x)
  /\ run'[q].emergency \/ pc'[q] = "batch" => x.extra = x.used
  /\ Requests' = Requests + d
  /\ rbd_empty' + Spares(rxq[q]) + leaked
       = rbd_empty + Spares(x) + leaked' + (IF d = 1 THEN Claim ELSE 0)

(* Requests that are posted at another step than this one stay. *)
LEMMA RequestsStay ==
  ASSUME TypeOK, NEW q \in Queues, NEW t, pc' = [pc EXCEPT ![q] = t],
         pc[q] # "post", t # "post", req_pending' = req_pending
  PROVE  Requests' = Requests + 0
PROOF
<1>1. At("post")' = At("post")
  BY DEF At, TypeOK
<1>2. Cardinality(At("post")) \in Nat /\ req_pending \in Nat
  BY AtFinite DEF TypeOK
<1> QED BY <1>1, <1>2 DEF Requests

(* A step that changes neither the counts nor the used list of its queue.  *)
LEMMA KeepsSame ==
  ASSUME IInv, RoundInv, NEW q \in Queues, NEW x \in QueueState, NEW t,
         rxq' = [rxq EXCEPT ![q] = x],
         x.used = rxq[q].used, x.extra = rxq[q].extra,
         Round(x) = Round(rxq[q]),
         pc' = [pc EXCEPT ![q] = t], pc[q] # "post", t # "post",
         UNCHANGED <<rbd_empty, leaked, req_pending>>,
         run'[q].emergency \/ pc'[q] = "batch" => run[q].emergency \/ pc[q] = "batch"
  PROVE  \E d \in {0, 1} : Keeps(q, x, d)
PROOF
<1>1. /\ InRound(rxq[q]) /\ rxq[q] \in QueueState
      /\ run[q].emergency \/ pc[q] = "batch" => rxq[q].extra = rxq[q].used
  BY DEF RoundInv, IInv, TypeOK
<1>2. InRound(x) /\ Spares(x) = Spares(rxq[q])
  BY <1>1 DEF InRound, Spares, Kept
<1>3. Requests' = Requests + 0
  BY RequestsStay DEF IInv
<1>4. /\ Spares(rxq[q]) \in Nat /\ rbd_empty \in Nat /\ leaked \in Nat
  BY <1>1, SparesFacts DEF IInv, TypeOK
<1>5. rbd_empty' + Spares(rxq[q]) + leaked
        = rbd_empty + Spares(x) + leaked' + (IF 0 = 1 THEN Claim ELSE 0)
  BY <1>2, <1>4
<1>6. Keeps(q, x, 0)
  BY <1>1, <1>2, <1>3, <1>5 DEF Keeps
<1> QED BY <1>6

(* So does a step that hands the used list over without posting. *)
LEMMA KeepsMoved ==
  ASSUME IInv, RoundInv, NEW q \in Queues, EnterEmergency(q) \/ TailMove(q)
  PROVE  \E x \in QueueState, d \in {0, 1} : Keeps(q, x, d)
PROOF
<1>1. rxq[q] \in QueueState /\ InRound(rxq[q])
  BY DEF RoundInv, IInv, TypeOK
<1>2. PICK x \in QueueState :
        /\ x = Moved(rxq[q]) /\ InRound(x) /\ x.used = 0 /\ x.extra = 0
        /\ Spares(x) = Spares(rxq[q]) + rxq[q].used - rxq[q].extra
  BY <1>1, SparesFacts
<1>3. /\ rxq' = [rxq EXCEPT ![q] = x]
      /\ rbd_empty' = rbd_empty + rxq[q].used /\ leaked' = leaked + rxq[q].extra
  BY <1>2, Zenon DEF EnterEmergency, TailMove, MoveToAllocator
<1>4. Requests' = Requests + 0
  <2>1. PICK t \in {"handle", "out", "head"} : pc' = [pc EXCEPT ![q] = t]
    BY DEF EnterEmergency, TailMove, Loop
  <2>2. pc[q] # "post" /\ req_pending' = req_pending
    BY DEF EnterEmergency, TailMove
  <2> QED BY <2>1, <2>2, RequestsStay DEF IInv
<1>5. /\ Spares(rxq[q]) \in Nat /\ rbd_empty \in Nat /\ leaked \in Nat
      /\ rxq[q].used \in Nat /\ rxq[q].extra \in Nat
  BY <1>1, SparesFacts DEF IInv, TypeOK, QueueState
<1>6. (rbd_empty + rxq[q].used) + Spares(rxq[q]) + leaked
        = rbd_empty + Spares(x) + (leaked + rxq[q].extra) + (IF 0 = 1 THEN Claim ELSE 0)
  BY <1>2, <1>5
<1>7. Keeps(q, x, 0)
  BY <1>2, <1>3, <1>4, <1>6 DEF Keeps
<1> QED BY <1>7

(* A counted RBD: the round goes on, or the queue posts a request for      *)
(* Claim RBDs, which its spare ones and its used list cover.               *)
LEMMA KeepsCounted ==
  ASSUME IInv, RoundInv, NEW q \in Queues, StealCounted(q)
  PROVE  \E x \in QueueState, d \in {0, 1} : Keeps(q, x, d)
PROOF
<1>0. /\ rxq[q] \in QueueState /\ InRound(rxq[q]) /\ rxq[q].closed > 0
      /\ run \in [Queues -> RunState] /\ run[q] \in RunState
      /\ pc \in [Queues -> QueueSteps] /\ pc[q] = "handle" /\ ~run[q].emergency
      /\ req_pending' = req_pending
  BY DEF RoundInv, IInv, TypeOK, HandlerInv, QueueState, RunState, StealCounted, Step
<1>1. PICK x \in QueueState :
        /\ x = [Consumed(q) EXCEPT !.used = @ + 1, !.used_count = @ + 1]
        /\ x.used = rxq[q].used + 1 /\ x.used_count = rxq[q].used_count + 1
        /\ x.extra = rxq[q].extra
  <2>1. Consumed(q) \in QueueState /\ Consumed(q).extra = rxq[q].extra
        /\ Consumed(q).used = rxq[q].used
        /\ Consumed(q).used_count = rxq[q].used_count
    BY <1>0, QueueTypes DEF Consumed, QueueState
  <2>2. [Consumed(q) EXCEPT !.used = @ + 1, !.used_count = @ + 1] \in QueueState
    BY <2>1, QueueTypes
  <2>3. /\ [Consumed(q) EXCEPT !.used = @ + 1, !.used_count = @ + 1].extra
             = Consumed(q).extra
        /\ [Consumed(q) EXCEPT !.used = @ + 1, !.used_count = @ + 1].used
             = Consumed(q).used + 1
        /\ [Consumed(q) EXCEPT !.used = @ + 1, !.used_count = @ + 1].used_count
             = Consumed(q).used_count + 1
    BY <2>1 DEF QueueState
  <2> QED BY <2>1, <2>2, <2>3
<1>2. /\ rxq[q].used \in Nat /\ rxq[q].extra \in Nat /\ rbd_empty \in Nat
      /\ leaked \in Nat /\ Claim \in Nat /\ Claim >= 1 /\ Spares(rxq[q]) \in Nat
      /\ Round(rxq[q]) \in 0..Claim-1 /\ rxq[q].extra <= rxq[q].used
      /\ Kept(rxq[q]) <= Round(rxq[q]) /\ Round(x) \in Nat
  BY <1>0, RoundFacts, SparesFacts, RbdAssumption DEF IInv, TypeOK, QueueState, InRound
<1>3. PICK t \in QueueSteps \ {"batch"} :
        /\ run' = [run EXCEPT ![q].todo = run[q].todo - 1]
        /\ pc' = [pc EXCEPT ![q] = t]
        /\ (t = "post") <=> Posts(x.used_count)
  BY <1>0, <1>1 DEF StealCounted, Step, ToClaim, ToTail, Loop, QueueSteps
<1>4. run'[q].emergency = FALSE /\ pc'[q] # "batch"
  BY <1>0, <1>3 DEF RunState
<1>5. CASE Posts(x.used_count)
  <2>1. Round(rxq[q]) = Claim - 1 /\ Round(x) = 0
    BY <1>0, <1>1, <1>5, RoundFacts
  <2>2. PICK y \in QueueState :
          y = Moved(x) /\ y.used = 0 /\ y.extra = 0 /\ y.used_count = x.used_count
    BY QueueTypes DEF Moved, QueueState
  <2>3. Round(y) = 0
    BY <2>1, <2>2, RoundFacts
  <2>4. InRound(y) /\ Spares(y) = 0
    BY <2>2, <2>3 DEF InRound, Spares, Kept
  <2>5. /\ rxq' = [rxq EXCEPT ![q] = y]
        /\ rbd_empty' = rbd_empty + x.used /\ leaked' = leaked + x.extra
    BY <1>1, <1>5, <2>2, Zenon DEF StealCounted, MoveToAllocator
  <2>6. Requests' = Requests + 1
    <3>1. Cardinality(At("post")') = Cardinality(At("post")) + 1
      BY <1>0, <1>3, <1>5, AtMove
    <3>2. Cardinality(At("post")) \in Nat /\ req_pending \in Nat
      BY AtFinite DEF IInv, TypeOK
    <3>3. Cardinality(At("post"))' = Cardinality(At("post")')
      OBVIOUS
    <3>4. PICK c, r \in Nat : c = Cardinality(At("post")) /\ r = req_pending
      BY <3>2
    <3>5. Requests' = r + (c + 1) /\ Requests = r + c
      BY <1>0, <3>1, <3>3, <3>4 DEF Requests
    <3> QED BY <3>5
  <2>7. Spares(rxq[q]) = Claim - 1 - (rxq[q].used - rxq[q].extra)
    BY <2>1 DEF Spares, Kept
  <2>8. (rbd_empty + x.used) + Spares(rxq[q]) + leaked
          = rbd_empty + Spares(y) + (leaked + x.extra) + (IF 1 = 1 THEN Claim ELSE 0)
    BY <1>1, <1>2, <2>4, <2>7
  <2>9. Keeps(q, y, 1)
    BY <1>4, <2>4, <2>5, <2>6, <2>8 DEF Keeps
  <2> QED BY <2>9
<1>6. CASE ~Posts(x.used_count)
  <2>1. Round(x) = Round(rxq[q]) + 1
    BY <1>0, <1>1, <1>6, RoundFacts
  <2>2. InRound(x) /\ Spares(x) = Spares(rxq[q])
    BY <1>1, <1>2, <2>1 DEF InRound, Spares, Kept
  <2>3. rxq' = [rxq EXCEPT ![q] = x] /\ UNCHANGED <<rbd_empty, leaked>>
    BY <1>1, <1>6, Zenon DEF StealCounted
  <2>4. Requests' = Requests + 0
    BY <1>0, <1>3, <1>6, RequestsStay DEF IInv
  <2>5. rbd_empty + Spares(rxq[q]) + leaked
          = rbd_empty + Spares(x) + leaked + (IF 0 = 1 THEN Claim ELSE 0)
    BY <1>2, <2>2
  <2>6. Keeps(q, x, 0)
    BY <1>4, <2>2, <2>3, <2>4, <2>5 DEF Keeps
  <2> QED BY <2>6
<1> QED BY <1>5, <1>6

(* Every step of a handler or of the device keeps the balance. *)
LEMMA LedgerHandler ==
  ASSUME IInv, RoundInv, NEW q \in Queues, Handle(q) \/ Close(q)
  PROVE  \E x \in QueueState, d \in {0, 1} : Keeps(q, x, d)
PROOF
<1>0. /\ rxq \in [Queues -> QueueState] /\ rxq[q] \in QueueState /\ InRound(rxq[q])
      /\ run \in [Queues -> RunState] /\ run[q] \in RunState
      /\ pc \in [Queues -> QueueSteps] /\ rbd_empty \in Nat /\ leaked \in Nat
      /\ run[q].emergency \/ pc[q] = "batch" => rxq[q].extra = rxq[q].used
  BY DEF RoundInv, IInv, TypeOK
<1>1. CASE \/ Restart(q) \/ Head(q) \/ UnknownRbd(q) \/ QueueWork(q)
           \/ ClaimNone(q) \/ ClaimReady(q) \/ TailEmergency(q)
  <2>1. /\ UNCHANGED <<rxq, rbd_empty, leaked, req_pending>> /\ pc[q] # "post"
        /\ run'[q].emergency \/ pc'[q] = "batch" => run[q].emergency
    BY <1>0, <1>1 DEF Restart, Head, UnknownRbd, QueueWork, ClaimNone, ClaimReady,
        TailEmergency, rbaVars, ToClaim, ToTail, Loop, RunState
  <2>2. PICK t : pc' = [pc EXCEPT ![q] = t] /\ t # "post"
    BY <1>1 DEF Restart, Head, UnknownRbd, QueueWork, ClaimNone, ClaimReady,
        TailEmergency, ToClaim, ToTail, Loop
  <2>3. rxq' = [rxq EXCEPT ![q] = rxq[q]]
    BY <1>0, <2>1
  <2> QED BY <1>0, <2>1, <2>2, <2>3, KeepsSame
<1>2. CASE PostRequest(q)
  <2>1. /\ UNCHANGED <<rxq, run, rbd_empty, leaked>> /\ pc[q] = "post"
        /\ pc' = [pc EXCEPT ![q] = "queue_work"] /\ req_pending' = req_pending + 1
    BY <1>2 DEF PostRequest
  <2>2. Cardinality(At("post")) = Cardinality(At("post")') + 1
    BY <1>0, <2>1, AtMove
  <2>3. Requests' = Requests + 0
    <3>1. Cardinality(At("post"))' \in Nat /\ req_pending \in Nat
      <4>1. IsFiniteSet(At("post")')
        BY FS_Subset, RbdAssumption DEF At
      <4> QED BY <4>1, FS_CardinalityType DEF IInv, TypeOK
    <3>2. PICK c, r \in Nat : c = Cardinality(At("post"))' /\ r = req_pending
      BY <3>1
    <3>3. Requests' = (r + 1) + c /\ Requests = r + (c + 1)
      BY <2>1, <2>2, <3>2 DEF Requests
    <3> QED BY <3>3
  <2>4. rxq' = [rxq EXCEPT ![q] = rxq[q]]
    BY <1>0, <2>1
  <2>5. rbd_empty + Spares(rxq[q]) + leaked
          = rbd_empty + Spares(rxq[q]) + leaked + (IF 0 = 1 THEN Claim ELSE 0)
    BY <1>0, SparesFacts
  <2>6. run'[q].emergency \/ pc'[q] = "batch" => rxq[q].extra = rxq[q].used
    BY <1>0, <2>1
  <2>7. Keeps(q, rxq[q], 0)
    BY <1>0, <2>1, <2>3, <2>4, <2>5, <2>6 DEF Keeps
  <2> QED BY <1>0, <2>7
<1>3. CASE EnterEmergency(q) \/ TailMove(q)
  BY <1>3, KeepsMoved
<1>4. CASE StealCounted(q)
  BY <1>4, KeepsCounted
<1>5. CASE KeepPage(q) \/ StealEmergency(q)
  <2>1. rxq[q].closed > 0
    BY <1>5 DEF IInv, HandlerInv, TypeOK, QueueState, RunState, KeepPage, StealEmergency
  <2>2. /\ Consumed(q) \in QueueState
        /\ Consumed(q).used = rxq[q].used /\ Consumed(q).extra = rxq[q].extra
        /\ Consumed(q).used_count = rxq[q].used_count
    BY <1>0, <2>1, QueueTypes DEF Consumed, QueueState
  <2>3. /\ UNCHANGED <<rbd_empty, leaked, req_pending>> /\ pc[q] # "post"
        /\ run'[q].emergency = run[q].emergency
    BY <1>0, <1>5 DEF KeepPage, StealEmergency, Step, RunState
  <2>4. PICK t \in {"claim", "tail", "out", "head"} : pc' = [pc EXCEPT ![q] = t]
    BY <1>5 DEF KeepPage, StealEmergency, Step, ToClaim, ToTail, Loop
  <2>5. pc'[q] # "batch"
    BY <1>0, <2>4
  <2>6. CASE KeepPage(q)
    <3>1. PICK x \in QueueState :
            /\ x = [Consumed(q) EXCEPT !.free = @ + 1]
            /\ x.used = rxq[q].used /\ x.extra = rxq[q].extra
            /\ x.used_count = rxq[q].used_count
      BY <2>2, QueueTypes DEF QueueState
    <3>2. Round(x) = Round(rxq[q])
      BY <1>0, <3>1, RoundFacts
    <3>3. rxq' = [rxq EXCEPT ![q] = x]
      BY <2>6, <3>1 DEF KeepPage
    <3> QED BY <2>3, <2>4, <2>5, <3>1, <3>2, <3>3, KeepsSame
  <2>7. CASE StealEmergency(q)
    <3>0. rxq[q].extra = rxq[q].used
      BY <1>0, <2>7 DEF StealEmergency
    <3>1. [Consumed(q) EXCEPT !.used = @ + 1, !.extra = @ + 1] \in QueueState
      BY <2>2, QueueTypes
    <3>2. PICK x \in QueueState :
            x = [Consumed(q) EXCEPT !.used = @ + 1, !.extra = @ + 1]
      BY <3>1
    <3>3. /\ x.used = rxq[q].used + 1 /\ x.extra = rxq[q].extra + 1
          /\ x.used_count = rxq[q].used_count
      BY <2>2, <3>2 DEF QueueState
    <3>4. Round(x) = Round(rxq[q]) /\ Round(x) \in Nat
      BY <1>0, <3>3, RoundFacts, RbdAssumption
    <3>5. /\ rxq[q].used \in Nat /\ x.extra = x.used
          /\ Kept(x) = 0 /\ Kept(rxq[q]) = 0 /\ x.used \in Nat
      BY <1>0, <3>0, <3>3 DEF Kept, QueueState
    <3>6. InRound(x) /\ Spares(x) = Spares(rxq[q])
      BY <3>4, <3>5 DEF InRound, Spares
    <3>7. rxq' = [rxq EXCEPT ![q] = x]
      BY <2>7, <3>2 DEF StealEmergency
    <3>8. Requests' = Requests + 0
      BY <2>3, <2>4, RequestsStay DEF IInv
    <3>9. rbd_empty + Spares(rxq[q]) + leaked
            = rbd_empty + Spares(x) + leaked + (IF 0 = 1 THEN Claim ELSE 0)
      BY <1>0, <3>6, SparesFacts
    <3>10. Keeps(q, x, 0)
      BY <2>3, <3>5, <3>6, <3>7, <3>8, <3>9 DEF Keeps
    <3> QED BY <3>10
  <2> QED BY <1>5, <2>6, <2>7
<1>6. CASE Take(q)
  <2>1. rxq[q].used_count >= Claim
    BY <1>6 DEF Take, IInv, HandlerInv
  <2>2. PICK f, u \in Nat : f = rxq[q].free + Claim /\ rxq[q].used_count = u + Claim
                            /\ u = rxq[q].used_count - Claim
    BY <1>0, <2>1, RbdAssumption DEF QueueState
  <2>3. PICK x : x = [rxq[q] EXCEPT !.free = f, !.used_count = u]
    OBVIOUS
  <2>4. /\ x \in QueueState /\ x.used = rxq[q].used /\ x.extra = rxq[q].extra
        /\ x.used_count = u
    BY <1>0, <2>3 DEF QueueState
  <2>5. Round(x) = Round(rxq[q])
    BY <1>0, <2>2, <2>4, RoundFacts
  <2>6. /\ rxq' = [rxq EXCEPT ![q] = x] /\ UNCHANGED <<rbd_empty, leaked, req_pending, run>>
        /\ pc[q] # "post"
    BY <1>0, <1>6, <2>2, <2>3 DEF Take
  <2>7. PICK t \in {"claim", "tail", "out", "head"} : pc' = [pc EXCEPT ![q] = t]
    BY <1>6 DEF Take, ToTail, Loop
  <2>8. pc'[q] # "batch"
    BY <1>0, <2>7
  <2> QED BY <2>4, <2>5, <2>6, <2>7, <2>8, KeepsSame
<1>7. ASSUME NEW x \in QueueState, Restock(q, x), NEW t \in {"idle", "restart"},
             pc[q] \in {"batch", "out"}, pc' = [pc EXCEPT ![q] = t],
             UNCHANGED <<rbd_empty, leaked, req_pending>>,
             x.used_count = rxq[q].used_count,
             \/ x.used = rxq[q].used /\ x.extra = rxq[q].extra /\ ~run'[q].emergency
             \/ x.extra = x.used /\ rxq[q].extra = rxq[q].used
      PROVE  \E y \in QueueState, d \in {0, 1} : Keeps(q, y, d)
  <2>1. PICK y \in QueueState :
          /\ rxq' = [rxq EXCEPT ![q] = y]
          /\ y.used = x.used /\ y.extra = x.extra /\ y.used_count = x.used_count
    <3>1. /\ Restocked(x) \in QueueState
          /\ Restocked(x).used = x.used /\ Restocked(x).extra = x.extra
          /\ Restocked(x).used_count = x.used_count
      BY RestockType DEF Restocked, QueueState
    <3> QED BY <1>7, <3>1 DEF Restock
  <2>2. Round(y) = Round(rxq[q]) /\ Round(y) \in Nat /\ Round(rxq[q]) \in Nat
    BY <1>0, <1>7, <2>1, RoundFacts, RbdAssumption
  <2>3. InRound(y) /\ Spares(y) = Spares(rxq[q])
    <3>1. CASE y.used = rxq[q].used /\ y.extra = rxq[q].extra
      BY <1>0, <2>2, <3>1 DEF InRound, Spares, Kept
    <3>2. CASE y.extra = y.used /\ rxq[q].extra = rxq[q].used
      <4>1. /\ rxq[q].used \in Nat /\ y.used \in Nat
            /\ Kept(y) = 0 /\ Kept(rxq[q]) = 0
        BY <1>0, <3>2 DEF Kept, QueueState
      <4> QED BY <2>2, <3>2, <4>1 DEF InRound, Spares
    <3> QED BY <1>7, <2>1, <3>1, <3>2
  <2>4. Requests' = Requests + 0
    BY <1>0, <1>7, RequestsStay DEF IInv
  <2>5. rbd_empty + Spares(rxq[q]) + leaked
          = rbd_empty + Spares(y) + leaked + (IF 0 = 1 THEN Claim ELSE 0)
    BY <1>0, <2>3, SparesFacts
  <2>6. run'[q].emergency \/ pc'[q] = "batch" => y.extra = y.used
    BY <1>0, <1>7, <2>1
  <2>7. Keeps(q, y, 0)
    BY <1>7, <2>1, <2>3, <2>4, <2>5, <2>6 DEF Keeps
  <2> QED BY <2>7
<1>8. ASSUME NEW left \in 0..rxq[q].used
      PROVE  LET x == Allocated(rxq[q], left)
             IN  x \in QueueState /\ x.used = x.extra
                 /\ x.used_count = rxq[q].used_count
  <2>1. Allocated(rxq[q], left) \in QueueState
    BY <1>0, AllocatedType
  <2> QED BY <1>0, <2>1 DEF Allocated, QueueState
<1>9. CASE BatchAlloc(q)
  <2>1. PICK left \in 0..rxq[q].used : Restock(q, Allocated(rxq[q], left))
    BY <1>9 DEF BatchAlloc
  <2>2. /\ pc[q] = "batch" /\ pc' = [pc EXCEPT ![q] = "restart"]
        /\ UNCHANGED <<rbd_empty, leaked, req_pending>>
    BY <1>9 DEF BatchAlloc, rbaVars
  <2> QED BY <1>0, <1>7, <1>8, <2>1, <2>2
<1>10. CASE Out(q)
  <2>1. /\ pc[q] = "out" /\ pc' = [pc EXCEPT ![q] = "idle"]
        /\ UNCHANGED <<rbd_empty, leaked, req_pending>> /\ ~run'[q].emergency
    BY <1>0, <1>10 DEF Out, rbaVars, IdleRun
  <2>2. CASE AllocsOnExit(q)
    <3>1. PICK left \in 0..rxq[q].used : Restock(q, Allocated(rxq[q], left))
      BY <1>10, <2>2 DEF Out
    <3> QED BY <1>0, <1>7, <1>8, <2>1, <2>2, <3>1 DEF AllocsOnExit
  <2>3. CASE ~AllocsOnExit(q)
    BY <1>0, <1>7, <1>10, <2>1, <2>3 DEF Out
  <2> QED BY <2>2, <2>3
<1>11. CASE Close(q)
  <2>1. PICK c \in Nat : c = rxq[q].closed + 1
    BY <1>0 DEF QueueState
  <2>2. PICK x : x = [rxq[q] EXCEPT !.closed = c]
    OBVIOUS
  <2>3. /\ x \in QueueState /\ x.used = rxq[q].used /\ x.extra = rxq[q].extra
        /\ x.used_count = rxq[q].used_count
    BY <1>0, <2>2 DEF QueueState
  <2>4. /\ rxq' = [rxq EXCEPT ![q] = x]
        /\ UNCHANGED <<pc, run, rbd_empty, leaked, req_pending>>
    BY <1>0, <1>11, <2>1, <2>2 DEF Close, rbaVars
  <2>5. Round(x) = Round(rxq[q])
    BY <1>0, <2>3, RoundFacts
  <2>6. InRound(x) /\ Spares(x) = Spares(rxq[q])
    BY <1>0, <2>3, <2>5 DEF InRound, Spares, Kept
  <2>7. Requests' = Requests + 0
    <3>1. Cardinality(At("post")) \in Nat /\ req_pending \in Nat
      BY AtFinite DEF IInv, TypeOK
    <3>2. At("post")' = At("post")
      BY <2>4 DEF At
    <3> QED BY <2>4, <3>1, <3>2 DEF Requests
  <2>8. rbd_empty + Spares(rxq[q]) + leaked
          = rbd_empty + Spares(x) + leaked + (IF 0 = 1 THEN Claim ELSE 0)
    BY <1>0, <2>6, SparesFacts
  <2>9. Keeps(q, x, 0)
    BY <1>0, <2>3, <2>4, <2>6, <2>7, <2>8 DEF Keeps
  <2> QED BY <2>3, <2>9
<1> QED BY <1>1, <1>2, <1>3, <1>4, <1>5, <1>6, <1>9, <1>10, <1>11 DEF Handle

(* The work takes RBDs for what it was asked and gives the others back. *)
LEMMA LedgerWork ==
  ASSUME IInv, LocalInv, RoundInv, Ledger, TakenInv, Work
  PROVE  Ledger' /\ TakenInv'
PROOF
<1>1. /\ UNCHANGED <<pc, rxq, run, leaked>>
  BY DEF Work, WorkStart, WorkSwap, WorkServe, WorkReread, WorkSplice, WorkReady,
      WorkReturn, handlerVars
<1>2. PICK t \in Nat : t = Total(Spare) /\ Total(Spare)' = t
  <2>1. Spare \in [Queues -> Nat]
    BY SparesFacts DEF Spare, RoundInv, IInv, TypeOK
  <2>2. Total(Spare) \in Nat
    BY <2>1, TotalUpdate, RbdAssumption
  <2>3. Spare' = Spare
    BY <1>1 DEF Spare
  <2> QED BY <2>2, <2>3 DEF Total
<1>3. PICK c \in Nat : c = Cardinality(At("post")) /\ Cardinality(At("post"))' = c
  BY <1>1, AtFinite DEF At
<1>4. PICK e, l, r, k, p \in Nat :
        e = rbd_empty /\ l = local_empty /\ r = req_pending /\ k = leaked /\ p = pending
  BY DEF IInv, TypeOK
<1>5. e + l = Claim * (r + c) + t + k
  BY <1>2, <1>3, <1>4 DEF Ledger, Requests
<1>6. ASSUME NEW e2 \in Nat, NEW l2 \in Nat, NEW r2 \in Nat,
             rbd_empty' = e2, local_empty' = l2, req_pending' = r2
      PROVE  Ledger' <=> e2 + l2 = Claim * (r2 + c) + t + k
  BY <1>1, <1>2, <1>3, <1>4, <1>6 DEF Ledger, Requests
<1>7. Claim * (r + c) = Claim * r + Claim * c /\ Claim * r \in Nat /\ Claim * c \in Nat
  BY RbdAssumption
<1>8. ASSUME NEW m \in Nat, m <= r PROVE Claim * m <= Claim * r
  <2>1. r - m \in Nat /\ r = m + (r - m)
    BY <1>8
  <2>2. Claim * (r - m) \in Nat /\ Claim * r = Claim * m + Claim * (r - m)
        /\ Claim * m \in Nat
    BY <2>1, RbdAssumption
  <2> QED BY <2>2
<1>9. p <= r /\ Claim \in Nat /\ Claim >= 1
  BY <1>4, RbdAssumption DEF IInv, WorkInv
<1>10. CASE WorkStart
  <2>1. /\ rbd_empty' = e /\ local_empty' = l /\ req_pending' = r /\ wpc' = "swap"
    BY <1>4, <1>10 DEF WorkStart, rbaVars
  <2> QED BY <1>5, <1>6, <2>1 DEF TakenInv
<1>11. CASE WorkSwap
  <2>1. /\ rbd_empty' = 0 /\ local_empty' = e /\ req_pending' = r /\ l = 0
        /\ pending' = p
    BY <1>4, <1>11 DEF WorkSwap, LocalInv
  <2>2. Claim * p <= Claim * r
    BY <1>8, <1>9
  <2>3. Claim * p <= e /\ 0 + e = Claim * (r + c) + t + k
    BY <1>5, <1>7, <2>1, <2>2, <1>9
  <2>4. Ledger'
    BY <1>6, <2>1, <2>3
  <2> QED BY <2>1, <2>3, <2>4 DEF TakenInv
<1>12. CASE WorkServe
  <2>1. /\ wpc = "serve" /\ l >= Claim /\ p > 0
    BY <1>4, <1>12 DEF WorkServe, IInv, WorkInv
  <2>2. PICK l2, r2 \in Nat : l = l2 + Claim /\ r = r2 + 1
    <3>1. l - Claim \in Nat /\ r - 1 \in Nat
      BY <1>9, <2>1
    <3>2. l = (l - Claim) + Claim /\ r = (r - 1) + 1
      BY <1>9
    <3> QED BY <3>1, <3>2
  <2>3. rbd_empty' = e /\ local_empty' = l2 /\ req_pending' = r2
    BY <1>4, <1>9, <1>12, <2>2 DEF WorkServe
  <2>4. Claim * (r + c) = Claim * (r2 + c) + Claim
    BY <2>2, <1>9
  <2>5. Claim * (r2 + c) \in Nat
    BY <1>9
  <2>6. e + l2 = Claim * (r2 + c) + t + k
    BY <1>5, <1>9, <2>2, <2>4, <2>5
  <2>7. Ledger'
    BY <1>6, <2>3, <2>6
  <2>8. wpc' \notin {"serve", "ready"}
    BY <1>12 DEF WorkServe
  <2> QED BY <2>7, <2>8 DEF TakenInv
<1>13. CASE WorkReread
  <2>1. /\ rbd_empty' = e /\ local_empty' = l /\ req_pending' = r /\ wpc' = "splice"
    BY <1>4, <1>13 DEF WorkReread, rbaVars
  <2> QED BY <1>5, <1>6, <2>1 DEF TakenInv
<1>14. CASE WorkSplice
  <2>1. /\ rbd_empty' = 0 /\ local_empty' = l + e /\ req_pending' = r
        /\ pending' = p
    BY <1>4, <1>14 DEF WorkSplice
  <2>2. Claim * p <= Claim * r
    BY <1>8, <1>9
  <2>3. Claim * p <= l + e /\ 0 + (l + e) = Claim * (r + c) + t + k /\ l + e \in Nat
    BY <1>5, <1>7, <2>2, <1>9
  <2>4. Ledger'
    BY <1>6, <2>1, <2>3
  <2> QED BY <2>1, <2>3, <2>4 DEF TakenInv
<1>15. CASE WorkReady
  <2>1. /\ rbd_empty' = e /\ local_empty' = l /\ req_pending' = r /\ wpc = "ready"
        /\ pending' = pending
    BY <1>4, <1>15 DEF WorkReady
  <2>2. l >= Claim * p
    BY <1>4, <2>1 DEF TakenInv
  <2>3. Ledger'
    BY <1>5, <1>6, <2>1
  <2> QED BY <1>4, <2>1, <2>2, <2>3 DEF TakenInv
<1>16. CASE WorkReturn
  <2>1. /\ rbd_empty' = e + l /\ local_empty' = 0 /\ req_pending' = r /\ wpc' = "idle"
    BY <1>4, <1>16 DEF WorkReturn
  <2>2. (e + l) + 0 = Claim * (r + c) + t + k /\ e + l \in Nat
    BY <1>5
  <2>3. Ledger'
    BY <1>6, <2>1, <2>2
  <2> QED BY <2>1, <2>3 DEF TakenInv
<1> QED BY <1>10, <1>11, <1>12, <1>13, <1>14, <1>15, <1>16 DEF Work

(* At initialisation every queue has its share of the pool spare. *)
LEMMA SpareInit ==
  ASSUME NEW n, n = [q \in Queues |-> Spares(IF q = DefaultQueue
                                             THEN Restocked(FilledQueue)
                                             ELSE EmptyQueue)]
  PROVE  /\ Total(n) = Pool
         /\ InRound(Restocked(FilledQueue)) /\ InRound(EmptyQueue)
PROOF
<1> DEFINE Fresh(x) == x.used = 0 /\ x.extra = 0 /\ x.used_count = 0
<1>1. Fresh(Restocked(FilledQueue)) /\ Fresh(EmptyQueue)
  BY DEF Restocked, FilledQueue, EmptyQueue
<1>2. ASSUME NEW x, Fresh(x) PROVE Spares(x) = Claim - Post /\ InRound(x)
  <2>1. /\ 0 + (Claim - Post) = Claim * 0 + (Claim - Post)
        /\ Claim - Post \in 0..Claim-1 /\ 0 + (Claim - Post) \in Nat
        /\ Claim \in Nat \ {0}
    BY RbdAssumption
  <2>2. (0 + (Claim - Post)) % Claim = Claim - Post
    BY <2>1, RemainderIs
  <2>3. Round(x) = Claim - Post
    BY <1>2, <2>2 DEF Round
  <2> QED BY <1>2, <2>1, <2>3 DEF Spares, InRound, Kept
<1>3. n \in [Queues -> Nat] /\ \A q \in Queues : n[q] = Claim - Post
  BY <1>1, <1>2, RbdAssumption
<1>4. Claim - Post \in Nat
  BY RbdAssumption
<1>5. Total(n) = Cardinality(Queues) * (Claim - Post)
  BY <1>3, <1>4, TotalConstant
<1> QED BY <1>1, <1>2, <1>5 DEF Pool

LEMMA LedgerStep == IInv /\ LedgerInv /\ [Next]_vars => LedgerInv'
PROOF
<1> SUFFICES ASSUME IInv, LedgerInv, [Next]_vars PROVE LedgerInv'
  OBVIOUS
<1>0. /\ LocalInv /\ RoundInv /\ Ledger /\ TakenInv /\ LocalInv'
      /\ TypeOK /\ TypeOK'
  BY LocalStep, TypeStep DEF LedgerInv, IInv
<1>1. ASSUME NEW q \in Queues, Handle(q) \/ Close(q) PROVE RoundInv' /\ Ledger' /\ TakenInv'
  <2>1. PICK x \in QueueState, d \in {0, 1} : Keeps(q, x, d)
    BY <1>0, <1>1, LedgerHandler
  <2>2. /\ \A p \in Queues : p # q => /\ pc'[p] = pc[p] /\ rxq'[p] = rxq[p]
                                      /\ run'[p] = run[p]
        /\ UNCHANGED <<wpc, pending, local_empty>>
    BY <1>0, <1>1, HandlerFrame
  <2>3. RoundInv'
    <3>1. rxq'[q] = x
      BY <1>0, <2>1 DEF Keeps, TypeOK
    <3>2. ASSUME NEW p \in Queues
          PROVE  /\ InRound(rxq'[p])
                 /\ run'[p].emergency \/ pc'[p] = "batch" => rxq'[p].extra = rxq'[p].used
      <4>1. CASE p = q
        BY <2>1, <3>1, <4>1 DEF Keeps
      <4>2. CASE p # q
        BY <1>0, <2>2, <4>2 DEF RoundInv
      <4> QED BY <4>1, <4>2
    <3>3. \A p \in Queues : InRound(rxq[p])' <=> InRound(rxq'[p])
      BY DEF InRound, Kept, Round
    <3> QED BY <3>2, <3>3 DEF RoundInv
  <2>4. Ledger'
    <3>1. /\ Total(Spare) \in Nat /\ Total(Spare)' \in Nat
          /\ Total(Spare)' + Spares(rxq[q]) = Total(Spare) + Spares(x)
      BY <1>0, <2>1, SpareUpdate DEF Keeps, RoundInv, TypeOK
    <3>2. Requests \in Nat /\ Spares(rxq[q]) \in Nat /\ Spares(x) \in Nat
      BY <1>0, <2>1, AtFinite, SparesFacts DEF Requests, TypeOK, Keeps, RoundInv
    <3>3. PICK t, t2, s, s2, r \in Nat :
            /\ t = Total(Spare) /\ t2 = Total(Spare)' /\ s = Spares(rxq[q])
            /\ s2 = Spares(x) /\ r = Requests
      BY <3>1, <3>2
    <3>4. PICK e, e2, k, k2, l \in Nat :
            /\ e = rbd_empty /\ e2 = rbd_empty' /\ k = leaked /\ k2 = leaked'
            /\ l = local_empty
      BY <1>0 DEF TypeOK
    <3>5. t2 + s = t + s2
      BY <3>1, <3>3
    <3>6. e + l = Claim * r + t + k
      BY <1>0, <3>3, <3>4 DEF Ledger
    <3>7. /\ Requests' = r + d
          /\ e2 + s + k = e + s2 + k2 + (IF d = 1 THEN Claim ELSE 0)
      BY <2>1, <3>3, <3>4 DEF Keeps
    <3>8. Claim * (r + 1) = Claim * r + Claim /\ Claim * r \in Nat /\ Claim \in Nat
      BY Multiples, RbdAssumption
    <3>9. e2 + l = Claim * (r + d) + t2 + k2
      <4>1. CASE d = 0
        BY <3>5, <3>6, <3>7, <3>8, <4>1
      <4>2. CASE d = 1
        <5>1. e2 + s + k = e + s2 + k2 + Claim
          BY <3>7, <4>2
        <5>2. e2 + l = Claim * r + Claim + t2 + k2
          BY <3>5, <3>6, <3>8, <5>1
        <5> QED BY <3>8, <4>2, <5>2
      <4> QED BY <4>1, <4>2
    <3> QED BY <2>2, <3>3, <3>4, <3>7, <3>9 DEF Ledger
  <2>5. TakenInv'
    BY <1>0, <2>2 DEF TakenInv
  <2> QED BY <2>3, <2>4, <2>5
<1>2. CASE Work
  <2>1. RoundInv'
    <3>1. UNCHANGED <<pc, rxq, run>>
      BY <1>2 DEF Work, WorkStart, WorkSwap, WorkServe, WorkReread, WorkSplice,
          WorkReady, WorkReturn, handlerVars
    <3> QED BY <1>0, <3>1 DEF RoundInv, InRound, Kept, Round
  <2> QED BY <1>0, <1>2, <2>1, LedgerWork DEF LedgerInv
<1>3. CASE Reinit
  <2>1. /\ rxq' = [q \in Queues |-> IF q = DefaultQueue THEN Restocked(FilledQueue)
                                                       ELSE EmptyQueue]
        /\ rbd_empty' = Pool /\ req_pending' = 0 /\ leaked' = 0 /\ wpc' = "idle"
        /\ local_empty' = 0 /\ pc' = pc /\ \A q \in Queues : pc[q] = "idle"
        /\ run' = run
    BY <1>0, <1>3 DEF Reinit, LocalInv
  <2>2. Spare' = [q \in Queues |-> Spares(IF q = DefaultQueue
                                          THEN Restocked(FilledQueue) ELSE EmptyQueue)]
    BY <2>1 DEF Spare, Spares, Round, Kept
  <2>3. /\ Total(Spare)' = Pool
        /\ InRound(Restocked(FilledQueue)) /\ InRound(EmptyQueue)
    <3>1. Total(Spare') = Pool
          /\ InRound(Restocked(FilledQueue)) /\ InRound(EmptyQueue)
      BY <2>2, SpareInit
    <3> QED BY <3>1 DEF Total
  <2>4. RoundInv'
    <3>1. \A q \in Queues : InRound(rxq'[q]) /\ rxq'[q].extra = rxq'[q].used
      BY <2>1, <2>3 DEF Restocked, FilledQueue, EmptyQueue
    <3>2. \A p \in Queues : InRound(rxq[p])' <=> InRound(rxq'[p])
      BY DEF InRound, Kept, Round
    <3> QED BY <3>1, <3>2 DEF RoundInv
  <2>5. Cardinality(At("post"))' = 0
    <3>1. At("post")' = {}
      BY <2>1 DEF At
    <3> QED BY <3>1, FS_EmptySet
  <2>6. Pool + 0 = Claim * (0 + 0) + Pool + 0
    BY PoolType, RbdAssumption
  <2>7. Ledger'
    BY <2>1, <2>3, <2>5, <2>6 DEF Ledger, Requests
  <2> QED BY <1>0, <2>1, <2>4, <2>7 DEF LedgerInv, TakenInv
<1>4. CASE Stop \/ UNCHANGED vars
  <2>1. UNCHANGED <<handlerVars, rbaVars, workVars, leaked>>
    BY <1>4 DEF Stop, vars
  <2> QED BY <1>0, <2>1 DEF LedgerInv, LocalInv, RoundInv, InRound, Kept, Round, Ledger,
        Requests, At, Spare, Spares, TakenInv, handlerVars, rbaVars, workVars
<1> QED BY <1>0, <1>1, <1>2, <1>3, <1>4 DEF Next, LedgerInv

LEMMA LedgerInit == Init => LedgerInv
PROOF
<1> SUFFICES ASSUME Init PROVE LedgerInv
  OBVIOUS
<1>2. Spare = [q \in Queues |-> Spares(IF q = DefaultQueue
                                       THEN Restocked(FilledQueue) ELSE EmptyQueue)]
  BY DEF Init, Spare
<1>3. /\ Total(Spare) = Pool
      /\ InRound(Restocked(FilledQueue)) /\ InRound(EmptyQueue)
  BY <1>2, SpareInit
<1>4. RoundInv
  <2>1. \A q \in Queues : InRound(rxq[q]) /\ rxq[q].extra = rxq[q].used
    BY <1>3 DEF Init, Restocked, FilledQueue, EmptyQueue
  <2> QED BY <2>1 DEF RoundInv
<1>5. Cardinality(At("post")) = 0
  <2>1. At("post") = {}
    BY DEF At, Init
  <2> QED BY <2>1, FS_EmptySet
<1>6. Pool + 0 = Claim * (0 + 0) + Pool + 0
  BY PoolType, RbdAssumption
<1>7. Ledger
  BY <1>3, <1>5, <1>6 DEF Ledger, Requests, Init
<1> QED BY <1>4, <1>7 DEF LedgerInv, TakenInv, LocalInv, Init

(* BUG_ON(list_empty(&local_empty)) of iwl_pcie_rx_allocator never fires:  *)
(* whatever queues post, turn to emergency mode or fail to allocate, the   *)
(* work has Claim RBDs for the request it serves, for every number of      *)
(* queues, pool and round.                                                 *)
THEOREM AllocatorHasRbds == Spec => []AllocatorNeverEmpty
PROOF
<1>1. IInv /\ LedgerInv => AllocatorNeverEmpty
  <2> SUFFICES ASSUME IInv, LedgerInv, wpc = "serve" PROVE local_empty >= Claim
    BY DEF AllocatorNeverEmpty
  <2>1. PICK p, l \in Nat : p = pending /\ l = local_empty /\ p > 0
    BY DEF IInv, TypeOK, WorkInv
  <2>2. l >= Claim * p
    BY <2>1 DEF LedgerInv, TakenInv
  <2>3. Claim * p >= Claim /\ Claim * p \in Nat /\ Claim \in Nat
    BY <2>1, Multiples, RbdAssumption
  <2> QED BY <2>1, <2>2, <2>3
<1> QED BY <1>1, LedgerInit, LedgerStep, Invariant, PTL DEF Spec
----------------------------------------------------------------------------
(* What the queues are owed together *)

(* A total grows with every summand. *)
LEMMA TotalMono ==
  ASSUME NEW m \in [Queues -> Nat], NEW n \in [Queues -> Nat],
         \A q \in Queues : m[q] <= n[q]
  PROVE  Total(m) <= Total(n) /\ Total(m) \in Nat /\ Total(n) \in Nat
PROOF
<1>1. IsFiniteSet(Marks(n, Queues))
  BY MarksFinite
<1>2. Marks(m, Queues) \subseteq Marks(n, Queues)
  <2> SUFFICES ASSUME NEW q \in Queues PROVE {q} \X (1..m[q]) \subseteq {q} \X (1..n[q])
    BY DEF Marks
  <2>1. m[q] \in Nat /\ n[q] \in Nat /\ m[q] <= n[q]
    OBVIOUS
  <2> QED BY <2>1
<1>3. Cardinality(Marks(m, Queues)) <= Cardinality(Marks(n, Queues))
  BY <1>1, <1>2, FS_Subset
<1>4. Cardinality(Marks(m, Queues)) \in Nat /\ Cardinality(Marks(n, Queues)) \in Nat
  BY MarksFinite, FS_CardinalityType
<1> QED BY <1>3, <1>4 DEF Total, Marks

(* The total of sums is the sum of the totals. *)
LEMMA TotalAdd ==
  ASSUME NEW m \in [Queues -> Nat], NEW n \in [Queues -> Nat],
         NEW s \in [Queues -> Nat], \A q \in Queues : s[q] = m[q] + n[q]
  PROVE  /\ Total(s) = Total(m) + Total(n)
         /\ Total(m) \in Nat /\ Total(n) \in Nat
PROOF
<1> DEFINE M == Marks(m, Queues)
           N == Marks(n, Queues)
           S == Marks(s, Queues)
           f == [x \in N |-> <<x[1], x[2] + m[x[1]]>>]
<1>1. IsFiniteSet(M) /\ IsFiniteSet(N) /\ IsFiniteSet(S)
      /\ Cardinality(M) \in Nat /\ Cardinality(N) \in Nat /\ Cardinality(S) \in Nat
  BY MarksFinite, FS_CardinalityType
<1>2. /\ \A q, i : <<q, i>> \in M <=> q \in Queues /\ i \in 1..m[q]
      /\ \A q, i : <<q, i>> \in N <=> q \in Queues /\ i \in 1..n[q]
      /\ \A q, i : <<q, i>> \in S <=> q \in Queues /\ i \in 1..s[q]
  BY DEF Marks
<1>3. /\ \A x \in M : \E q \in Queues, i \in Nat : x = <<q, i>>
      /\ \A x \in N : \E q \in Queues, i \in Nat : x = <<q, i>>
      /\ \A x \in S : \E q \in Queues, i \in Nat : x = <<q, i>>
  BY DEF Marks
<1> HIDE DEF M, N, S
<1>4. M \subseteq S
  <2> SUFFICES ASSUME NEW x \in M PROVE x \in S
    OBVIOUS
  <2>1. PICK q \in Queues, i \in Nat : x = <<q, i>>
    BY <1>3
  <2>2. i \in 1..m[q] /\ m[q] \in Nat /\ n[q] \in Nat /\ s[q] = m[q] + n[q]
    BY <1>2, <2>1
  <2> QED BY <1>2, <2>1, <2>2
<1>5. \A q \in Queues, i \in Nat : <<q, i>> \in N => f[<<q, i>>] = <<q, i + m[q]>>
  OBVIOUS
<1>6. ASSUME NEW x \in N PROVE f[x] \in S \ M
  <2>1. PICK q \in Queues, i \in Nat : x = <<q, i>>
    BY <1>3
  <2>2. i \in 1..n[q] /\ m[q] \in Nat /\ n[q] \in Nat /\ s[q] = m[q] + n[q]
    BY <1>2, <1>6, <2>1
  <2>3. f[x] = <<q, i + m[q]>>
    BY <1>5, <1>6, <2>1
  <2>4. i + m[q] \in 1..s[q] /\ i + m[q] \notin 1..m[q]
    BY <2>2
  <2> QED BY <1>2, <2>3, <2>4
<1>7. ASSUME NEW x \in N, NEW y \in N, f[x] = f[y] PROVE x = y
  <2>1. PICK q \in Queues, i \in Nat : x = <<q, i>>
    BY <1>3
  <2>2. PICK p \in Queues, j \in Nat : y = <<p, j>>
    BY <1>3
  <2>3. <<q, i + m[q]>> = <<p, j + m[p]>>
    BY <1>5, <1>7, <2>1, <2>2
  <2>4. q = p /\ i + m[q] = j + m[q] /\ m[q] \in Nat
    BY <2>3
  <2> QED BY <2>1, <2>2, <2>4
<1>8. ASSUME NEW y \in S \ M PROVE \E x \in N : f[x] = y
  <2>1. PICK q \in Queues, i \in Nat : y = <<q, i>>
    BY <1>3
  <2>2. i \in 1..s[q] /\ i \notin 1..m[q] /\ m[q] \in Nat /\ n[q] \in Nat
        /\ s[q] = m[q] + n[q]
    BY <1>2, <1>8, <2>1
  <2>3. PICK j \in Nat : j = i - m[q] /\ j \in 1..n[q]
    BY <2>2
  <2>4. <<q, j>> \in N /\ f[<<q, j>>] = <<q, j + m[q]>>
    BY <1>2, <1>5, <2>3
  <2> QED BY <2>1, <2>2, <2>3, <2>4
<1>9. f \in Bijection(N, S \ M)
  BY <1>6, <1>7, <1>8 DEF Bijection, Injection, Surjection, IsInjective
<1>10. Cardinality(S \ M) = Cardinality(N) /\ IsFiniteSet(S \ M)
  <2>1. ExistsBijection(N, S \ M)
    BY <1>9 DEF ExistsBijection
  <2> QED BY <1>1, <2>1, FS_Bijection
<1>11. Cardinality(S) = Cardinality(M) + Cardinality(N)
  <2>1. M \cup (S \ M) = S /\ M \cap (S \ M) = {}
    BY <1>4
  <2>2. Cardinality(S) = Cardinality(M) + Cardinality(S \ M) - Cardinality({})
    BY <1>1, <1>10, <2>1, FS_Union
  <2> QED BY <1>1, <1>10, <2>2, FS_EmptySet
<1> QED BY <1>1, <1>11 DEF Total, Marks, M, N, S

(* What the members of a set have when each has as much. *)
LEMMA TotalOf ==
  ASSUME NEW S \in SUBSET Queues, NEW k \in Nat, NEW n \in [Queues -> Nat],
         \A q \in Queues : n[q] = IF q \in S THEN k ELSE 0
  PROVE  Total(n) = Cardinality(S) * k
PROOF
<1>1. UNION {{q} \X (1..n[q]) : q \in Queues} = S \X (1..k)
  OBVIOUS
<1>2. IsFiniteSet(1..k) /\ Cardinality(1..k) = k
  BY FS_Interval
<1>3. IsFiniteSet(S)
  BY FS_Subset, RbdAssumption
<1> QED BY <1>1, <1>2, <1>3, FS_Product DEF Total

(* The place of every queue in its round. *)
Rounds == [q \in Queues |-> Round(rxq[q])]

(* The requests that were made and not claimed are for what the queues are *)
(* owed, up to their places in the round.                                  *)
Accounts == Claim * (Asked + Ready) + Total(Rounds) = Total(Lent) + Pool

LEMMA AccountsTypes ==
  ASSUME TypeOK
  PROVE  /\ Rounds \in [Queues -> Nat] /\ Lent \in [Queues -> Nat]
         /\ Asked \in Nat /\ Ready \in Nat
         /\ \A q \in Queues : Rounds[q] = Round(rxq[q]) /\ Lent[q] = rxq[q].used_count
PROOF
<1>1. \A q \in Queues : rxq[q] \in QueueState /\ Round(rxq[q]) \in Nat
  BY RoundFacts, RbdAssumption DEF TypeOK
<1>2. Cardinality(At("post")) \in Nat /\ Cardinality(At("take")) \in Nat
  BY AtFinite
<1>3. Asked \in Nat /\ Ready \in Nat
  BY <1>2 DEF Asked, Ready, Finishing, TypeOK
<1>4. Rounds \in [Queues -> Nat] /\ Lent \in [Queues -> Nat]
  BY <1>1 DEF Rounds, Lent, QueueState
<1> QED BY <1>3, <1>4 DEF Rounds, Lent

(* Nothing lent: every queue has Claim - Post of the pool to go. *)
LEMMA AccountsFresh ==
  ASSUME NEW r \in [Queues -> Nat], NEW l \in [Queues -> Nat],
         \A q \in Queues : l[q] = 0 /\ r[q] = (0 + (Claim - Post)) % Claim
  PROVE  Claim * 0 + Total(r) = Total(l) + Pool
PROOF
<1>1. /\ 0 + (Claim - Post) = Claim * 0 + (Claim - Post)
      /\ Claim - Post \in 0..Claim-1 /\ 0 + (Claim - Post) \in Nat
      /\ Claim \in Nat \ {0}
  BY RbdAssumption
<1>2. (0 + (Claim - Post)) % Claim = Claim - Post
  BY <1>1, RemainderIs
<1>3. Total(r) = Cardinality(Queues) * (Claim - Post)
  <2>1. Claim - Post \in Nat /\ \A q \in Queues : r[q] = Claim - Post
    BY <1>1, <1>2
  <2> QED BY <2>1, TotalConstant
<1>4. Total(l) = Cardinality(Queues) * 0
  BY TotalConstant
<1>5. Cardinality(Queues) \in Nat /\ Pool \in Nat
  BY FS_CardinalityType, PoolType, RbdAssumption
<1> QED BY <1>1, <1>3, <1>4, <1>5 DEF Pool

LEMMA AccountsInit == Init => Accounts
PROOF
<1> SUFFICES ASSUME Init PROVE Accounts
  OBVIOUS
<1>1. TypeOK
  BY InitInv DEF IInv
<1>2. \A q \in Queues : rxq[q].used_count = 0
  BY DEF Init, Restocked, FilledQueue, EmptyQueue
<1>3. \A q \in Queues : Lent[q] = 0 /\ Rounds[q] = (0 + (Claim - Post)) % Claim
  BY <1>2 DEF Lent, Rounds, Round
<1>4. Asked + Ready = 0
  <2>1. At("post") = {} /\ At("take") = {}
    BY DEF Init, At
  <2> QED BY <2>1, FS_EmptySet DEF Init, Asked, Ready, Finishing
<1> QED BY <1>1, <1>3, <1>4, AccountsTypes, AccountsFresh DEF Accounts

(* Every step of the service keeps the accounts. *)
LEMMA AccountsStep == IInv /\ Accounts /\ [Next]_vars => Accounts'
PROOF
<1> SUFFICES ASSUME IInv, Accounts, [Next]_vars PROVE Accounts'
  OBVIOUS
<1>0. TypeOK /\ TypeOK'
  BY TypeStep DEF IInv
<1>1. /\ Rounds \in [Queues -> Nat] /\ Lent \in [Queues -> Nat]
      /\ Asked \in Nat /\ Ready \in Nat
      /\ \A q \in Queues : Rounds[q] = Round(rxq[q]) /\ Lent[q] = rxq[q].used_count
  BY <1>0, AccountsTypes
<1>2. /\ Rounds' \in [Queues -> Nat] /\ Lent' \in [Queues -> Nat]
      /\ Asked' \in Nat /\ Ready' \in Nat
      /\ \A q \in Queues : Rounds'[q] = Round(rxq'[q]) /\ Lent'[q] = rxq'[q].used_count
  <2>1. \A q \in Queues : rxq'[q] \in QueueState /\ Round(rxq'[q]) \in Nat
    BY <1>0, RoundFacts, RbdAssumption DEF TypeOK
  <2>2. Cardinality(At("post"))' \in Nat /\ Cardinality(At("take"))' \in Nat
    <3>1. IsFiniteSet(At("post")') /\ IsFiniteSet(At("take")')
      BY FS_Subset, RbdAssumption DEF At
    <3> QED BY <3>1, FS_CardinalityType
  <2>3. Asked' \in Nat /\ Ready' \in Nat
    BY <1>0, <2>2 DEF Asked, Ready, Finishing, TypeOK
  <2>4. Rounds' \in [Queues -> Nat] /\ Lent' \in [Queues -> Nat]
    BY <2>1 DEF Rounds, Lent, QueueState, Round
  <2> QED BY <2>3, <2>4 DEF Rounds, Lent, Round
<1>3. \A q \in Queues : rxq[q] \in QueueState /\ rxq'[q] \in QueueState
  BY <1>0 DEF TypeOK
<1>4. Total(Rounds)' = Total(Rounds') /\ Total(Lent)' = Total(Lent')
  BY DEF Total
<1>5. [Service!Next]_(Service!serviceVars)
  BY ServiceStep
<1>6. PICK a, b, a2, b2 \in Nat : a = Asked /\ b = Ready /\ a2 = Asked' /\ b2 = Ready'
  BY <1>1, <1>2
<1>7. PICK R, L \in Nat : R = Total(Rounds) /\ L = Total(Lent)
  <2>1. Total(Rounds) \in Nat /\ Total(Lent) \in Nat
    BY <1>1, TotalMono
  <2> QED BY <2>1
<1>8. Claim * (a + b) + R = L + Pool /\ Pool \in Nat /\ Claim \in Nat /\ Claim > 0
      /\ Claim * (a + b) \in Nat
  BY <1>6, <1>7, PoolType, RbdAssumption DEF Accounts
<1>9. ASSUME NEW q \in Queues, Service!Lend(q) PROVE Accounts'
  <2>1. /\ Lent' = [Lent EXCEPT ![q] = Lent[q] + 1]
        /\ a2 = (IF Lent'[q] % Claim = Post THEN a + 1 ELSE a) /\ b2 = b
    BY <1>6, <1>9 DEF Service!Lend, Lent, Asked, Ready
  <2>2. /\ \A p \in Queues : p # q => Lent'[p] = Lent[p]
        /\ Lent'[q] = Lent[q] + 1
    BY <1>1, <2>1
  <2>3. \A p \in Queues : p # q => Rounds'[p] = Rounds[p]
    BY <1>1, <1>2, <1>3, <2>2, RoundFacts
  <2>4. IF Posts(Lent'[q]) THEN Rounds[q] = Claim - 1 /\ Rounds'[q] = 0
                           ELSE Rounds'[q] = Rounds[q] + 1
    BY <1>1, <1>2, <1>3, <2>2, RoundFacts
  <2>5. PICK R2, L2, r, r2, l \in Nat :
          /\ R2 = Total(Rounds') /\ L2 = Total(Lent') /\ r = Rounds[q] /\ r2 = Rounds'[q]
          /\ l = Lent[q] /\ R2 + r = R + r2 /\ L2 + l = L + (l + 1)
    <3>1. Total(Rounds') \in Nat /\ Total(Rounds') + Rounds[q] = Total(Rounds) + Rounds'[q]
      BY <1>1, <1>2, <2>3, TotalUpdate
    <3>2. Total(Lent') \in Nat /\ Total(Lent') + Lent[q] = Total(Lent) + Lent'[q]
      BY <1>1, <1>2, <2>2, TotalUpdate
    <3>3. Rounds[q] \in Nat /\ Rounds'[q] \in Nat /\ Lent[q] \in Nat
      BY <1>1, <1>2
    <3>4. Total(Rounds') + Rounds[q] = R + Rounds'[q]
      BY <1>7, <3>1
    <3>5. Total(Lent') + Lent[q] = L + (Lent[q] + 1)
      BY <1>7, <2>2, <3>2
    <3> QED BY <3>1, <3>2, <3>3, <3>4, <3>5, Zenon
  <2>6. CASE Posts(Lent'[q])
    <3>1. a2 = a + 1 /\ r = Claim - 1 /\ r2 = 0
      BY <2>1, <2>4, <2>5, <2>6 DEF Posts
    <3>2. Claim * ((a + b) + 1) = Claim * (a + b) + Claim
      BY Multiples
    <3>3. (a + b) + 1 = a2 + b2
      BY <2>1, <3>1
    <3>4. Claim * (a2 + b2) + R2 = L2 + Pool
      BY <1>8, <2>5, <3>1, <3>2, <3>3
    <3> QED BY <1>4, <1>6, <2>5, <3>4 DEF Accounts
  <2>7. CASE ~Posts(Lent'[q])
    <3>1. a2 = a /\ r2 = r + 1
      BY <2>1, <2>4, <2>5, <2>7 DEF Posts
    <3>2. Claim * (a2 + b2) + R2 = L2 + Pool
      BY <1>8, <2>1, <2>5, <3>1
    <3> QED BY <1>4, <1>6, <2>5, <3>2 DEF Accounts
  <2> QED BY <2>6, <2>7
<1>10. ASSUME NEW q \in Queues, Service!Reclaim(q) PROVE Accounts'
  <2>1. /\ Lent' = [Lent EXCEPT ![q] = Lent[q] - Claim] /\ Lent[q] >= Claim
        /\ b > 0 /\ b2 = b - 1 /\ a2 = a
    BY <1>6, <1>10 DEF Service!Reclaim, Lent, Asked, Ready
  <2>2. /\ \A p \in Queues : p # q => Lent'[p] = Lent[p]
        /\ Lent[q] = Lent'[q] + Claim
    BY <1>1, <1>8, <2>1
  <2>3. \A p \in Queues : Rounds'[p] = Rounds[p]
    BY <1>1, <1>2, <1>3, <2>2, RoundFacts
  <2>4. Rounds' = Rounds
    BY <1>1, <1>2, <2>3
  <2>5. Total(Lent') \in Nat /\ Total(Lent') + Lent[q] = Total(Lent) + Lent'[q]
        /\ Lent'[q] \in Nat
    BY <1>1, <1>2, <2>2, TotalUpdate
  <2>6. PICK L2, l \in Nat : L2 = Total(Lent') /\ l = Lent'[q] /\ L2 + (l + Claim) = L + l
    BY <1>7, <2>2, <2>5
  <2>7. a + b = (a2 + b2) + 1 /\ Claim * ((a2 + b2) + 1) = Claim * (a2 + b2) + Claim
    BY <2>1, Multiples
  <2>8. Claim * (a2 + b2) + R = L2 + Pool
    BY <1>8, <2>6, <2>7, Multiples
  <2> QED BY <1>4, <1>6, <1>7, <2>4, <2>6, <2>8 DEF Accounts
<1>11. CASE Service!Serve
  <2>1. Lent' = Lent /\ a > 0 /\ a2 = a - 1 /\ b2 = b + 1
    BY <1>6, <1>11 DEF Service!Serve, Lent, Asked, Ready
  <2>2. \A p \in Queues : Rounds'[p] = Rounds[p]
    BY <1>1, <1>2, <1>3, <2>1, RoundFacts
  <2>3. Rounds' = Rounds
    BY <1>1, <1>2, <2>2
  <2>4. a2 + b2 = a + b
    BY <2>1
  <2> QED BY <1>4, <1>6, <1>7, <1>8, <2>1, <2>3, <2>4 DEF Accounts
<1>12. CASE Service!Reset
  <2>1. Lent' = [q \in Queues |-> 0] /\ Asked' = 0 /\ Ready' = 0
    BY <1>12 DEF Service!Reset, Lent, Asked, Ready
  <2>2. \A q \in Queues : Lent'[q] = 0 /\ Rounds'[q] = (0 + (Claim - Post)) % Claim
    BY <1>2, <2>1 DEF Round
  <2>3. Claim * 0 + Total(Rounds') = Total(Lent') + Pool
    BY <1>2, <2>2, AccountsFresh
  <2> QED BY <1>4, <2>1, <2>3 DEF Accounts
<1>13. CASE UNCHANGED Service!serviceVars
  <2>1. Lent' = Lent /\ Asked' = Asked /\ Ready' = Ready
    BY <1>13 DEF Service!serviceVars, Lent, Asked, Ready
  <2>2. \A p \in Queues : Rounds'[p] = Rounds[p]
    BY <1>1, <1>2, <1>3, <2>1, RoundFacts
  <2>3. Rounds' = Rounds
    BY <1>1, <1>2, <2>2
  <2> QED BY <1>4, <2>1, <2>3 DEF Accounts
<1> QED BY <1>5, <1>9, <1>10, <1>11, <1>12, <1>13 DEF Service!Next

(* A queue that posted and has not passed the test of the emergency mode   *)
(* again; only such a queue can have brought a request too many.           *)
IsLate(q) ==
  /\ Posts(rxq[q].used_count)
  /\ ~(pc[q] = "handle" /\ ~run[q].emergency)
Late == {q \in Queues : IsLate(q)}

(* A handler about to post has counted the Post-th RBD of its round. *)
PostInv == \A q \in Queues : pc[q] = "post" => Posts(rxq[q].used_count)

(* What queue x is owed at step s for sure: without the RBD for which it   *)
(* has not tried to claim yet, and without the claim it was granted; it    *)
(* counts as Claim - 1 at least, which a queue may reach unhindered.       *)
AtLeast(n) == IF n >= Claim THEN n ELSE Claim - 1
Owed(x, s) ==
  IF s = "take" THEN x.used_count - Claim
  ELSE IF s \in {"post", "queue_work", "claim"} THEN x.used_count - 1
  ELSE x.used_count
Loan(x, s) == AtLeast(Owed(x, s))

LEMMA LoanType ==
  ASSUME NEW x \in QueueState, NEW s
  PROVE  Loan(x, s) \in Nat /\ Owed(x, s) \in Int
PROOF
<1>1. Owed(x, s) \in Int
  BY RbdAssumption DEF Owed, QueueState
<1> QED BY <1>1, RbdAssumption DEF Loan, AtLeast

(* A number less Claim is as far in the round. *)
LEMMA PostsClaim ==
  ASSUME NEW n \in Nat, NEW m \in Nat, n = m + Claim
  PROVE  Posts(n) <=> Posts(m)
PROOF
<1>1. (m + Claim) % Claim = m % Claim
  BY RemainderNext, RbdAssumption
<1> QED BY <1>1 DEF Posts

(* A handler brings a request too many only behind its test, and is owed   *)
(* more only when it finds no request ready.                               *)
LEMMA LoanHandler ==
  ASSUME IInv, PostInv, NEW q \in Queues, Handle(q) \/ Close(q)
  PROVE  /\ pc'[q] = "post" => Posts(rxq'[q].used_count)
         /\ \/ Requests' = Requests /\ (IsLate(q) => IsLate(q)')
            \/ Requests' = Requests + 1 /\ ~IsLate(q) /\ IsLate(q)'
            \/ Requests' = Requests /\ req_pending' * Claim < QueueSize \div 2
         /\ \/ Loan(rxq'[q], pc'[q]) <= Loan(rxq[q], pc[q])
            \/ ClaimNone(q)
PROOF
<1>0. /\ rxq \in [Queues -> QueueState] /\ rxq[q] \in QueueState
      /\ run \in [Queues -> RunState] /\ run[q] \in RunState
      /\ pc \in [Queues -> QueueSteps] /\ req_pending \in Nat
      /\ rxq[q].used_count \in Nat
  BY DEF IInv, TypeOK, QueueState
<1>1. Requests \in Nat
  BY AtFinite DEF Requests, IInv, TypeOK
<1>2. Claim \in Nat /\ Claim >= 2 /\ Post \in 1..Claim-1
  BY RbdAssumption
<1>3. ASSUME NEW t, pc' = [pc EXCEPT ![q] = t], pc[q] # "post", t # "post",
             req_pending' = req_pending
      PROVE  Requests' = Requests
  <2>1. TypeOK
    BY DEF IInv
  <2>2. Requests' = Requests + 0
    BY <1>3, <2>1, RequestsStay
  <2> QED BY <1>1, <2>2
<1>4. CASE Restart(q) \/ UnknownRbd(q) \/ TailEmergency(q)
  <2>1. /\ rxq' = rxq /\ req_pending' = req_pending
        /\ pc[q] \in {"idle", "restart", "handle", "tail"}
    BY <1>4 DEF Restart, UnknownRbd, TailEmergency, rbaVars
  <2>2. PICK t \in {"out", "head", "batch"} : pc' = [pc EXCEPT ![q] = t]
    BY <1>4 DEF Restart, UnknownRbd, TailEmergency, Loop
  <2>3. Requests' = Requests
    BY <1>3, <2>1, <2>2
  <2>4. IsLate(q) => IsLate(q)'
    BY <1>0, <2>1, <2>2 DEF IsLate
  <2>5. Loan(rxq'[q], pc'[q]) = Loan(rxq[q], pc[q])
    BY <1>0, <2>1, <2>2 DEF Loan, Owed
  <2> QED BY <1>0, <2>1, <2>2, <2>3, <2>4, <2>5, LoanType
<1>5. CASE Head(q)
  <2>1. /\ rxq' = rxq /\ req_pending' = req_pending /\ pc[q] = "head"
        /\ run'[q].emergency = run[q].emergency
    BY <1>0, <1>5 DEF Head, rbaVars, RunState
  <2>2. PICK t \in {"emergency", "handle"} :
          /\ pc' = [pc EXCEPT ![q] = t]
          /\ t = "handle" => ~EntersEmergency(q)
    BY <1>5 DEF Head
  <2>3. Requests' = Requests
    BY <1>3, <2>1, <2>2
  <2>4. Loan(rxq'[q], pc'[q]) = Loan(rxq[q], pc[q])
    BY <1>0, <2>1, <2>2 DEF Loan, Owed
  <2>5. (IsLate(q) => IsLate(q)') \/ req_pending' * Claim < QueueSize \div 2
    <3>1. CASE t = "emergency" \/ run[q].emergency
      BY <1>0, <2>1, <2>2, <3>1 DEF IsLate
    <3>2. CASE t = "handle" /\ ~run[q].emergency
      <4>1. ~(req_pending * Claim >= QueueSize \div 2)
        BY <2>2, <3>2 DEF EntersEmergency
      <4>2. req_pending * Claim \in Int /\ QueueSize \div 2 \in Int
        BY <1>0, RbdAssumption
      <4> QED BY <2>1, <4>1, <4>2
    <3> QED BY <2>2, <3>1, <3>2
  <2> QED BY <1>0, <2>1, <2>2, <2>3, <2>4, <2>5, LoanType
<1>6. CASE EnterEmergency(q) \/ TailMove(q)
  <2>1. /\ rxq' = [rxq EXCEPT ![q] = Moved(rxq[q])] /\ req_pending' = req_pending
        /\ pc[q] \in {"emergency", "tail"}
    BY <1>6 DEF EnterEmergency, TailMove
  <2>2. PICK t \in {"handle", "out", "head"} :
          pc' = [pc EXCEPT ![q] = t] /\ (t = "handle" => run'[q].emergency)
    BY <1>0, <1>6 DEF EnterEmergency, TailMove, Loop, RunState
  <2>3. rxq'[q].used_count = rxq[q].used_count
    BY <1>0, <2>1 DEF Moved, QueueState
  <2>4. Requests' = Requests
    BY <1>3, <2>1, <2>2
  <2>5. IsLate(q) => IsLate(q)'
    BY <1>0, <2>1, <2>2, <2>3 DEF IsLate
  <2>6. Loan(rxq'[q], pc'[q]) = Loan(rxq[q], pc[q])
    BY <1>0, <2>1, <2>2, <2>3 DEF Loan, Owed
  <2> QED BY <1>0, <2>2, <2>4, <2>5, <2>6, LoanType
<1>7. CASE KeepPage(q) \/ StealEmergency(q)
  <2>1. /\ req_pending' = req_pending /\ pc[q] = "handle"
        /\ rxq'[q].used_count = rxq[q].used_count
    <3> DEFINE x == [Consumed(q) EXCEPT !.free = @ + 1]
               y == [Consumed(q) EXCEPT !.used = @ + 1, !.extra = @ + 1]
    <3>1. x.used_count = rxq[q].used_count /\ y.used_count = rxq[q].used_count
      BY <1>0 DEF Consumed, QueueState
    <3>2. \E z \in {x, y} : rxq' = [rxq EXCEPT ![q] = z]
      BY <1>7 DEF KeepPage, StealEmergency
    <3>3. req_pending' = req_pending /\ pc[q] = "handle"
      BY <1>7 DEF KeepPage, StealEmergency, Step
    <3> HIDE DEF x, y
    <3> QED BY <1>0, <3>1, <3>2, <3>3
  <2>2. PICK t \in {"claim", "tail", "out", "head"} : pc' = [pc EXCEPT ![q] = t]
    BY <1>7 DEF KeepPage, StealEmergency, Step, ToClaim, ToTail, Loop
  <2>3. Requests' = Requests
    BY <1>3, <2>1, <2>2
  <2>4. IsLate(q) => IsLate(q)'
    BY <1>0, <2>1, <2>2 DEF IsLate
  <2>5. Loan(rxq'[q], pc'[q]) <= Loan(rxq[q], pc[q])
    BY <1>0, <1>2, <2>1, <2>2 DEF Loan, Owed, AtLeast
  <2> QED BY <1>0, <2>2, <2>3, <2>4, <2>5
<1>8. CASE StealCounted(q)
  <2>1. /\ req_pending' = req_pending /\ pc[q] = "handle" /\ ~run[q].emergency
        /\ rxq'[q].used_count = rxq[q].used_count + 1
    <3> DEFINE x == [Consumed(q) EXCEPT !.used = @ + 1, !.used_count = @ + 1]
    <3>1. x.used_count = rxq[q].used_count + 1 /\ Moved(x).used_count = x.used_count
      BY <1>0 DEF Consumed, Moved, QueueState
    <3>2. \E y \in {x, Moved(x)} : rxq' = [rxq EXCEPT ![q] = y]
      BY <1>8 DEF StealCounted
    <3>3. req_pending' = req_pending /\ pc[q] = "handle" /\ ~run[q].emergency
      BY <1>8 DEF StealCounted, Step
    <3> HIDE DEF x
    <3> QED BY <1>0, <3>1, <3>2, <3>3
  <2>2. PICK t \in {"post", "claim", "tail", "out", "head"} :
          /\ pc' = [pc EXCEPT ![q] = t]
          /\ (t = "post") <=> Posts(rxq[q].used_count + 1)
          /\ t \in {"tail", "out", "head"} => rxq[q].used_count + 1 < Claim
    <3> DEFINE x == [Consumed(q) EXCEPT !.used = @ + 1, !.used_count = @ + 1]
    <3>1. x.used_count = rxq[q].used_count + 1
      BY <1>0 DEF Consumed, QueueState
    <3>2. IF Posts(x.used_count) THEN pc' = [pc EXCEPT ![q] = "post"]
          ELSE pc' = [pc EXCEPT ![q] = ToClaim(q, x, run[q].todo - 1)]
      BY <1>8 DEF StealCounted, Step
    <3> HIDE DEF x
    <3>3. CASE Posts(x.used_count)
      BY <3>1, <3>2, <3>3
    <3>4. CASE ~Posts(x.used_count) /\ x.used_count >= Claim
      BY <3>1, <3>2, <3>4 DEF ToClaim
    <3>5. CASE ~Posts(x.used_count) /\ ~(x.used_count >= Claim)
      <4>1. ToClaim(q, x, run[q].todo - 1) \in {"tail", "out", "head"}
        BY <3>5 DEF ToClaim, ToTail, Loop
      <4>2. rxq[q].used_count + 1 < Claim
        BY <1>0, <1>2, <3>1, <3>5
      <4> QED BY <3>1, <3>2, <3>5, <4>1, <4>2
    <3> QED BY <3>3, <3>4, <3>5
  <2>3. Loan(rxq'[q], pc'[q]) <= Loan(rxq[q], pc[q])
    <3>1. pc'[q] = t
      BY <1>0, <2>2
    <3> QED BY <1>0, <1>2, <2>1, <2>2, <3>1 DEF Loan, Owed, AtLeast
  <2>4. ~IsLate(q)
    BY <2>1 DEF IsLate
  <2>5. CASE t = "post"
    <3>1. Cardinality(At("post")') = Cardinality(At("post")) + 1
      BY <1>0, <2>1, <2>2, <2>5, AtMove
    <3>2. PICK c, r \in Nat : c = Cardinality(At("post")) /\ r = req_pending
      BY <1>0, AtFinite
    <3>3. Cardinality(At("post"))' = Cardinality(At("post")')
      OBVIOUS
    <3>4. Requests' = r + (c + 1) /\ Requests = r + c
      BY <2>1, <3>1, <3>2, <3>3 DEF Requests
    <3>5. Requests' = Requests + 1
      BY <3>4
    <3>6. IsLate(q)' /\ Posts(rxq'[q].used_count)
      BY <1>0, <2>1, <2>2, <2>5 DEF IsLate, Posts
    <3> QED BY <2>3, <2>4, <3>5, <3>6
  <2>6. CASE t # "post"
    <3>1. Requests' = Requests
      BY <1>3, <2>1, <2>2, <2>6
    <3>2. pc'[q] # "post"
      BY <1>0, <2>2, <2>6
    <3> QED BY <2>3, <2>4, <3>1, <3>2
  <2> QED BY <2>5, <2>6
<1>9. CASE PostRequest(q)
  <2>1. /\ UNCHANGED <<rxq, run>> /\ pc[q] = "post"
        /\ pc' = [pc EXCEPT ![q] = "queue_work"] /\ req_pending' = req_pending + 1
    BY <1>9 DEF PostRequest
  <2>2. Cardinality(At("post")) = Cardinality(At("post")') + 1
    BY <1>0, <2>1, AtMove
  <2>3. Requests' = Requests
    <3>1. Cardinality(At("post"))' \in Nat
      <4>1. IsFiniteSet(At("post")')
        BY FS_Subset, RbdAssumption DEF At
      <4> QED BY <4>1, FS_CardinalityType
    <3>2. PICK c, r \in Nat : c = Cardinality(At("post"))' /\ r = req_pending
      BY <1>0, <3>1
    <3>3. Requests' = (r + 1) + c /\ Requests = r + (c + 1)
      BY <2>1, <2>2, <3>2 DEF Requests
    <3> QED BY <3>3
  <2>4. IsLate(q) => IsLate(q)'
    BY <1>0, <2>1 DEF IsLate
  <2>5. Loan(rxq'[q], pc'[q]) = Loan(rxq[q], pc[q]) /\ pc'[q] # "post"
    BY <1>0, <2>1 DEF Loan, Owed
  <2> QED BY <1>0, <2>1, <2>3, <2>4, <2>5, LoanType
<1>10. CASE QueueWork(q)
  <2>1. /\ UNCHANGED <<rxq, run, req_pending>> /\ pc[q] = "queue_work"
    BY <1>10 DEF QueueWork, rbaVars
  <2>2. PICK t \in {"claim", "tail", "out", "head"} :
          /\ pc' = [pc EXCEPT ![q] = t]
          /\ t # "claim" => ~(rxq[q].used_count >= Claim)
    BY <1>10 DEF QueueWork, ToClaim, ToTail, Loop
  <2>3. Requests' = Requests
    BY <1>3, <2>1, <2>2
  <2>4. IsLate(q) => IsLate(q)'
    BY <1>0, <2>1, <2>2 DEF IsLate
  <2>5. Loan(rxq'[q], pc'[q]) <= Loan(rxq[q], pc[q])
    BY <1>0, <1>2, <2>1, <2>2 DEF Loan, Owed, AtLeast
  <2> QED BY <1>0, <2>2, <2>3, <2>4, <2>5
<1>11. CASE ClaimNone(q) \/ ClaimReady(q)
  <2>1. /\ UNCHANGED <<rxq, run, req_pending>> /\ pc[q] = "claim"
    BY <1>11 DEF ClaimNone, ClaimReady, rbaVars
  <2>2. PICK t \in {"take", "tail", "out", "head"} :
          pc' = [pc EXCEPT ![q] = t] /\ (ClaimReady(q) => t = "take")
    BY <1>11 DEF ClaimNone, ClaimReady, ToTail, Loop
  <2>3. Requests' = Requests
    BY <1>3, <2>1, <2>2
  <2>4. IsLate(q) => IsLate(q)'
    BY <1>0, <2>1, <2>2 DEF IsLate
  <2>5. ClaimReady(q) => Loan(rxq'[q], pc'[q]) <= Loan(rxq[q], pc[q])
    BY <1>0, <1>2, <2>1, <2>2 DEF Loan, Owed, AtLeast
  <2> QED BY <1>0, <1>11, <2>2, <2>3, <2>4, <2>5
<1>12. CASE Take(q)
  <2>1. /\ req_pending' = req_pending /\ pc[q] = "take" /\ run' = run
        /\ rxq'[q].used_count = rxq[q].used_count - Claim
        /\ rxq[q].used_count >= Claim
    BY <1>0, <1>12 DEF Take, QueueState, IInv, HandlerInv
  <2>2. PICK t \in {"tail", "out", "head"} : pc' = [pc EXCEPT ![q] = t]
    BY <1>12 DEF Take, ToTail, Loop
  <2>3. Requests' = Requests
    BY <1>3, <2>1, <2>2
  <2>4. Posts(rxq[q].used_count) <=> Posts(rxq'[q].used_count)
    <3>1. PICK n, m \in Nat : n = rxq[q].used_count /\ m = rxq'[q].used_count /\ n = m + Claim
      BY <1>0, <1>2, <2>1
    <3> QED BY <3>1, PostsClaim
  <2>5. IsLate(q) => IsLate(q)'
    BY <1>0, <2>1, <2>2, <2>4 DEF IsLate, Posts
  <2>6. Loan(rxq'[q], pc'[q]) = Loan(rxq[q], pc[q])
    BY <1>0, <2>1, <2>2 DEF Loan, Owed
  <2> QED BY <1>0, <2>2, <2>3, <2>5, <2>6, LoanType
<1>13. CASE BatchAlloc(q) \/ Out(q) \/ Close(q)
  <2>1. rxq'[q].used_count = rxq[q].used_count /\ req_pending' = req_pending
    <3>1. CASE BatchAlloc(q) \/ Out(q)
      <4>1. PICK y : Restock(q, y) /\ (y = rxq[q] \/ \E left \in Nat : y = Allocated(rxq[q], left))
        BY <1>0, <3>1 DEF BatchAlloc, Out, QueueState
      <4>2. y.used_count = rxq[q].used_count /\ Restocked(y).used_count = y.used_count
        <5>1. CASE y = rxq[q]
          BY <1>0, <5>1 DEF Restocked, QueueState
        <5>2. ASSUME NEW left \in Nat, y = Allocated(rxq[q], left)
              PROVE  y.used_count = rxq[q].used_count /\ Restocked(y).used_count = y.used_count
          BY <1>0, <5>2 DEF Allocated, Restocked, QueueState
        <5> QED BY <4>1, <5>1, <5>2
      <4>3. req_pending' = req_pending
        BY <3>1 DEF BatchAlloc, Out, rbaVars
      <4> QED BY <1>0, <4>1, <4>2, <4>3 DEF Restock
    <3>2. CASE Close(q)
      BY <1>0, <3>2 DEF Close, rbaVars, QueueState
    <3> QED BY <1>13, <3>1, <3>2
  <2>2. \/ pc' = [pc EXCEPT ![q] = "restart"] /\ pc[q] = "batch"
        \/ pc' = [pc EXCEPT ![q] = "idle"] /\ pc[q] = "out"
        \/ UNCHANGED <<pc, run>>
    BY <1>13 DEF BatchAlloc, Out, Close
  <2>3. Requests' = Requests
    <3>1. CASE pc' = pc
      BY <2>1, <3>1 DEF Requests, At
    <3> QED BY <1>3, <2>1, <2>2, <3>1
  <2>4. IsLate(q) => IsLate(q)'
    BY <1>0, <2>1, <2>2 DEF IsLate
  <2>5. Loan(rxq'[q], pc'[q]) = Loan(rxq[q], pc[q])
    BY <1>0, <2>1, <2>2 DEF Loan, Owed
  <2>6. pc'[q] = "post" => Posts(rxq'[q].used_count)
    BY <1>0, <2>1, <2>2 DEF PostInv
  <2> QED BY <1>0, <2>3, <2>4, <2>5, <2>6, LoanType
<1> QED BY <1>4, <1>5, <1>6, <1>7, <1>8, <1>9, <1>10, <1>11, <1>12, <1>13 DEF Handle

(* The same without regard to a claim that is about to be tried. *)
Full(x, s) == AtLeast(IF s = "take" THEN x.used_count - Claim ELSE x.used_count)
Fulls == [q \in Queues |-> Full(rxq[q], pc[q])]

(* A queue's share of the accounts. *)
LEMMA FullShare ==
  ASSUME NEW x \in QueueState, NEW s, s = "take" => x.used_count >= Claim,
         NEW late \in BOOLEAN, late => Posts(x.used_count)
  PROVE  /\ Full(x, s) \in Nat
         /\ Full(x, s) + (IF s = "take" THEN Claim ELSE 0) + (IF late THEN Claim ELSE 0)
                + Round(x)
              <= x.used_count + ((Claim - Post) + (Claim - 1))
PROOF
<1>1. PICK u \in Nat : u = x.used_count
  BY DEF QueueState
<1>2. Claim \in Nat /\ Claim >= 2 /\ Post \in 1..Claim-1
  BY RbdAssumption
<1>3. PICK k \in Nat, j \in 0..Claim-1 :
        u = Claim * k + j /\ j = u % Claim /\ k = u \div Claim
  BY <1>2, SMT
<1>4. PICK c \in Nat : c = Claim * k /\ (c = 0 \/ c >= Claim)
  <2>1. Claim * k \in Nat /\ (k = 0 => Claim * k = 0) /\ (k > 0 => Claim * k >= Claim)
    BY <1>2, Multiples
  <2> QED BY <2>1
<1>5. Full(x, s) \in Nat
  BY <1>1, <1>2 DEF Full, AtLeast
<1>6. u = c + j
  BY <1>3, <1>4
<1>7. late => j = Post
  BY <1>1, <1>3 DEF Posts
<1>8. s = "take" => c >= Claim
  BY <1>1, <1>2, <1>3, <1>4, <1>6
<1>9. Full(x, s) + (IF s = "take" THEN Claim ELSE 0) <= c + (Claim - 1)
  BY <1>1, <1>2, <1>3, <1>6, <1>8 DEF Full, AtLeast
<1>10. j < Post => Round(x) = j + (Claim - Post)
  <2> SUFFICES ASSUME j < Post PROVE Round(x) = j + (Claim - Post)
    OBVIOUS
  <2>1. /\ u + (Claim - Post) = Claim * k + (j + (Claim - Post)) /\ k \in Int
        /\ j + (Claim - Post) \in 0..Claim-1 /\ u + (Claim - Post) \in Nat
    BY <1>2, <1>3
  <2>2. PICK n \in Nat, r \in 0..Claim-1 :
          n = u + (Claim - Post) /\ r = j + (Claim - Post) /\ n = Claim * k + r
    BY <2>1
  <2>3. Claim \in Nat \ {0} /\ k \in Int
    BY <1>2
  <2>4. n % Claim = r
    BY <2>2, <2>3, RemainderIs
  <2> QED BY <1>1, <2>2, <2>4 DEF Round
<1>11. j >= Post => Round(x) = j - Post
  <2> SUFFICES ASSUME j >= Post PROVE Round(x) = j - Post
    OBVIOUS
  <2>0. Claim * (k + 1) = Claim * k + Claim
    BY <1>3, Multiples
  <2>1. /\ u + (Claim - Post) = Claim * (k + 1) + (j - Post) /\ k + 1 \in Int
        /\ j - Post \in 0..Claim-1 /\ u + (Claim - Post) \in Nat
    BY <1>2, <1>3, <2>0
  <2>2. PICK n \in Nat, r \in 0..Claim-1 :
          n = u + (Claim - Post) /\ r = j - Post /\ n = Claim * (k + 1) + r
    BY <2>1
  <2>3. Claim \in Nat \ {0} /\ k + 1 \in Int
    BY <1>2
  <2>4. n % Claim = r
    BY <2>2, <2>3, RemainderIs
  <2> QED BY <1>1, <2>2, <2>4 DEF Round
<1>12. PICK f, r \in Nat : f = Full(x, s) /\ r = Round(x)
  BY <1>5, RoundFacts
<1>13. f + (IF s = "take" THEN Claim ELSE 0) + (IF late THEN Claim ELSE 0) + r
         <= u + ((Claim - Post) + (Claim - 1))
  <2>1. CASE j < Post
    BY <1>2, <1>3, <1>6, <1>7, <1>9, <1>10, <1>12, <2>1
  <2>2. CASE j >= Post
    BY <1>2, <1>3, <1>6, <1>7, <1>9, <1>11, <1>12, <2>2
  <2> QED BY <1>2, <1>3, <2>1, <2>2
<1> QED BY <1>1, <1>5, <1>12, <1>13

(* Requests that are made and not served are fewer than k, but for those   *)
(* of the late queues.                                                     *)
LateInv(k) == Requests < k + Cardinality(Late)

LEMMA LateFinite == IsFiniteSet(Late) /\ Cardinality(Late) \in Nat
PROOF
<1>1. IsFiniteSet(Late)
  BY FS_Subset, RbdAssumption DEF Late
<1> QED BY <1>1, FS_CardinalityType

(* When a handler finds no request ready, the queues are owed what the     *)
(* waiting requests are for and less than a round each.                    *)
LEMMA FullBound ==
  ASSUME IInv, Accounts, NEW k \in Nat, LateInv(k), req_ready = 0
  PROVE  Total(Fulls) <= k * Claim + Cardinality(Queues) * (Claim - 1)
PROOF
<1> DEFINE B == [q \in Queues |-> IF q \in At("take") THEN Claim ELSE 0]
           C == [q \in Queues |-> IF q \in Late THEN Claim ELSE 0]
           S1 == [q \in Queues |-> Fulls[q] + B[q]]
           S2 == [q \in Queues |-> S1[q] + C[q]]
           S3 == [q \in Queues |-> S2[q] + Rounds[q]]
           d == (Claim - Post) + (Claim - 1)
           D == [q \in Queues |-> d]
           T == [q \in Queues |-> Lent[q] + D[q]]
<1>0. Claim \in Nat /\ Claim >= 2 /\ Post \in 1..Claim-1 /\ d \in Nat
  BY RbdAssumption
<1>1. /\ Rounds \in [Queues -> Nat] /\ Lent \in [Queues -> Nat]
      /\ Asked \in Nat /\ Ready \in Nat
      /\ \A q \in Queues : Rounds[q] = Round(rxq[q]) /\ Lent[q] = rxq[q].used_count
  BY AccountsTypes DEF IInv
<1>2. ASSUME NEW q \in Queues
      PROVE  /\ Full(rxq[q], pc[q]) \in Nat
             /\ Full(rxq[q], pc[q]) + (IF pc[q] = "take" THEN Claim ELSE 0)
                  + (IF IsLate(q) THEN Claim ELSE 0) + Round(rxq[q])
                  <= rxq[q].used_count + d
  <2>1. /\ rxq[q] \in QueueState /\ (pc[q] = "take" => rxq[q].used_count >= Claim)
        /\ (IsLate(q) => Posts(rxq[q].used_count)) /\ IsLate(q) \in BOOLEAN
    BY DEF IInv, TypeOK, HandlerInv, IsLate
  <2> QED BY <2>1, FullShare
<1>3. Fulls \in [Queues -> Nat] /\ B \in [Queues -> Nat] /\ C \in [Queues -> Nat]
      /\ D \in [Queues -> Nat]
  BY <1>0, <1>2 DEF Fulls
<1>4. S1 \in [Queues -> Nat] /\ \A q \in Queues : S1[q] = Fulls[q] + B[q]
  BY <1>3
<1>5. S2 \in [Queues -> Nat] /\ \A q \in Queues : S2[q] = S1[q] + C[q]
  <2> HIDE DEF S1, C
  <2> QED BY <1>3, <1>4
<1>6. S3 \in [Queues -> Nat] /\ \A q \in Queues : S3[q] = S2[q] + Rounds[q]
  <2> HIDE DEF S2
  <2> QED BY <1>1, <1>5
<1>7. T \in [Queues -> Nat] /\ \A q \in Queues : T[q] = Lent[q] + D[q]
  <2> HIDE DEF D
  <2> QED BY <1>1, <1>3
<1>8. \A q \in Queues : S3[q] <= T[q]
  <2> SUFFICES ASSUME NEW q \in Queues PROVE S3[q] <= T[q]
    OBVIOUS
  <2>1. /\ Fulls[q] = Full(rxq[q], pc[q])
        /\ B[q] = (IF pc[q] = "take" THEN Claim ELSE 0)
        /\ C[q] = (IF IsLate(q) THEN Claim ELSE 0)
        /\ Rounds[q] = Round(rxq[q]) /\ Lent[q] = rxq[q].used_count /\ D[q] = d
    BY <1>1 DEF Fulls, At, Late
  <2>2. S3[q] = Fulls[q] + B[q] + C[q] + Rounds[q] /\ T[q] = Lent[q] + D[q]
    <3> HIDE DEF S1, S2, S3, T, B, C, D
    <3> QED BY <1>4, <1>5, <1>6, <1>7
  <2> HIDE DEF S1, S2, S3, T, B, C, D, d
  <2> QED BY <1>2, <2>1, <2>2
<1>9. Total(B) = Cardinality(At("take")) * Claim /\ Total(C) = Cardinality(Late) * Claim
  <2>1. At("take") \in SUBSET Queues /\ Late \in SUBSET Queues
    BY DEF At, Late
  <2>2. \A q \in Queues : B[q] = IF q \in At("take") THEN Claim ELSE 0
    OBVIOUS
  <2>3. \A q \in Queues : C[q] = IF q \in Late THEN Claim ELSE 0
    OBVIOUS
  <2> HIDE DEF B, C
  <2> QED BY <1>0, <1>3, <2>1, <2>2, <2>3, TotalOf
<1>10. Total(D) = Cardinality(Queues) * d
  <2>1. \A q \in Queues : D[q] = d
    OBVIOUS
  <2> HIDE DEF D, d
  <2> QED BY <1>0, <1>3, <2>1, TotalConstant
<1> HIDE DEF S1, S2, S3, T, B, C, D
<1>11. Total(S3) = Total(Fulls) + Total(B) + Total(C) + Total(Rounds)
  <2>1. Total(S1) = Total(Fulls) + Total(B)
    BY <1>3, <1>4, TotalAdd
  <2>2. Total(S2) = Total(S1) + Total(C)
    BY <1>3, <1>4, <1>5, TotalAdd
  <2>3. Total(S3) = Total(S2) + Total(Rounds)
    BY <1>1, <1>5, <1>6, TotalAdd
  <2> QED BY <2>1, <2>2, <2>3
<1>12. Total(T) = Total(Lent) + Total(D)
  BY <1>1, <1>3, <1>7, TotalAdd
<1>13. Total(S3) <= Total(T)
  BY <1>6, <1>7, <1>8, TotalMono
<1>14. /\ Total(Fulls) \in Nat /\ Total(Rounds) \in Nat /\ Total(Lent) \in Nat
  <2>1. Total(Fulls) \in Nat
    BY <1>3, TotalMono
  <2>2. Total(Rounds) \in Nat /\ Total(Lent) \in Nat
    BY <1>1, TotalMono
  <2> QED BY <2>1, <2>2
<1>15. PICK F, R, L, t, l, n, a \in Nat :
         /\ F = Total(Fulls) /\ R = Total(Rounds) /\ L = Total(Lent)
         /\ t = Cardinality(At("take")) /\ l = Cardinality(Late)
         /\ n = Cardinality(Queues) /\ a = Asked
  BY <1>1, <1>14, AtFinite, LateFinite, FS_CardinalityType, RbdAssumption
<1>16. F + t * Claim + l * Claim + R <= L + n * d
  BY <1>9, <1>10, <1>11, <1>12, <1>13, <1>15
<1>17. Claim * (a + t) + R = L + n * (Claim - Post)
  <2>1. Ready = t
    BY <1>15 DEF Ready
  <2> QED BY <1>15, <2>1 DEF Accounts, Pool
<1>18. a <= k + l
  <2>1. Requests \in Nat /\ Requests < k + l
    BY <1>15, AtFinite DEF LateInv, Requests, IInv, TypeOK
  <2>2. Asked = Requests \/ Asked = Requests + 1
    BY <2>1 DEF Asked, Requests, Finishing
  <2> QED BY <1>15, <2>1, <2>2
<1>19. PICK z \in Nat : a + z = k + l
  BY <1>18
<1>20. n * d = n * (Claim - Post) + n * (Claim - 1)
  BY <1>0
<1>21. /\ Claim * (a + t) = a * Claim + t * Claim
       /\ a * Claim + z * Claim = k * Claim + l * Claim
       /\ z * Claim \in Nat /\ t * Claim \in Nat /\ l * Claim \in Nat
       /\ k * Claim \in Nat /\ a * Claim \in Nat
       /\ n * (Claim - Post) \in Nat /\ n * (Claim - 1) \in Nat
  <2>1. Claim * (a + t) = a * Claim + t * Claim
    BY <1>0
  <2>2. (a + z) * Claim = a * Claim + z * Claim /\ (k + l) * Claim = k * Claim + l * Claim
    BY <1>0
  <2>3. /\ z * Claim \in Nat /\ t * Claim \in Nat /\ l * Claim \in Nat
        /\ k * Claim \in Nat /\ a * Claim \in Nat
    BY <1>0
  <2>4. Claim - Post \in Nat /\ Claim - 1 \in Nat
    BY <1>0
  <2>5. n * (Claim - Post) \in Nat /\ n * (Claim - 1) \in Nat
    BY <2>4
  <2> QED BY <1>19, <2>1, <2>2, <2>3, <2>5
<1>22. F <= k * Claim + n * (Claim - 1)
  <2>1. PICK ac, tc, lc, kc, zc, np, nc \in Nat :
          /\ ac = a * Claim /\ tc = t * Claim /\ lc = l * Claim /\ kc = k * Claim
          /\ zc = z * Claim /\ np = n * (Claim - Post) /\ nc = n * (Claim - 1)
    BY <1>21
  <2>2. F + tc + lc + R <= L + (np + nc)
    BY <1>16, <1>20, <2>1
  <2>3. (ac + tc) + R = L + np
    BY <1>17, <1>21, <2>1
  <2>4. ac + zc = kc + lc
    BY <1>21, <2>1
  <2>5. F <= kc + nc
    BY <2>2, <2>3, <2>4
  <2> QED BY <2>1, <2>5
<1> QED BY <1>15, <1>22

Loans == [q \in Queues |-> Loan(rxq[q], pc[q])]

(* What the queues may be owed when k requests make an emergency. *)
Lendable(k) == k * Claim + Cardinality(Queues) * (Claim - 1)

(* A handler that is not running has left the emergency mode and restocked *)
(* the ring.                                                               *)
RestInv ==
  \A q \in Queues :
    pc[q] = "idle" => ~run[q].emergency /\ (enabled => rxq[q].free = 0)

LoanInv(k) ==
  /\ PostInv
  /\ RestInv
  /\ LateInv(k)
  /\ Total(Loans) <= Lendable(k)

(* Out restocks the queue before its handler is idle. *)
LEMMA RestStep == IInv /\ RestInv /\ [Next]_vars => RestInv'
PROOF
<1> SUFFICES ASSUME IInv, RestInv, [Next]_vars, NEW q \in Queues, pc'[q] = "idle"
             PROVE  ~run'[q].emergency /\ (enabled' => rxq'[q].free = 0)
  BY DEF RestInv
<1>0. /\ rxq \in [Queues -> QueueState] /\ pc \in [Queues -> QueueSteps]
      /\ run \in [Queues -> RunState]
  BY DEF IInv, TypeOK
<1>1. ASSUME NEW p \in Queues, Handle(p) \/ Close(p)
      PROVE  ~run'[q].emergency /\ (enabled' => rxq'[q].free = 0)
  <2>1. CASE p # q
    <3>1. rxq'[q] = rxq[q] /\ pc'[q] = pc[q] /\ run'[q] = run[q]
      BY <1>1, <2>1, HandlerFrame DEF IInv
    <3>2. enabled' = enabled
      BY <1>1 DEF Handle, Restart, Head, EnterEmergency, KeepPage, StealEmergency,
          StealCounted, UnknownRbd, PostRequest, QueueWork, ClaimNone, ClaimReady, Take,
          TailMove, TailEmergency, BatchAlloc, Out, Close, Step
    <3> QED BY <3>1, <3>2 DEF RestInv
  <2>2. CASE p = q /\ Close(q)
    BY <1>0, <2>2 DEF Close, RestInv, QueueState
  <2>3. CASE p = q /\ Out(q)
    <3>1. PICK y : Restock(q, y) /\ (y = rxq[q] \/ \E left \in Nat : y = Allocated(rxq[q], left))
      BY <1>0, <2>3 DEF Out, QueueState
    <3>2. enabled' = enabled /\ ~run'[q].emergency
      BY <1>0, <2>3 DEF Out, IdleRun
    <3>3. enabled => rxq'[q] = Restocked(y)
      BY <1>0, <3>1 DEF Restock
    <3>4. Restocked(y).free = 0
      <4>1. CASE y = rxq[q]
        BY <1>0, <4>1 DEF Restocked, QueueState
      <4>2. ASSUME NEW left \in Nat, y = Allocated(rxq[q], left) PROVE Restocked(y).free = 0
        BY <1>0, <4>2 DEF Allocated, Restocked, QueueState
      <4> QED BY <3>1, <4>1, <4>2
    <3> QED BY <3>2, <3>3, <3>4
  <2>4. CASE p = q /\ Handle(q) /\ ~Out(q)
    <3>1. pc'[q] # "idle"
      BY <1>0, <2>4 DEF Handle, Restart, Head, EnterEmergency, KeepPage, StealEmergency,
          StealCounted, UnknownRbd, PostRequest, QueueWork, ClaimNone, ClaimReady, Take,
          TailMove, TailEmergency, BatchAlloc, Step, ToClaim, ToTail, Loop
    <3> QED BY <3>1
  <2> QED BY <1>1, <2>1, <2>2, <2>3, <2>4
<1>2. CASE Work
  BY <1>2 DEF Work, WorkStart, WorkSwap, WorkServe, WorkReread, WorkSplice, WorkReady,
      WorkReturn, handlerVars, RestInv
<1>3. CASE Reinit
  BY <1>3 DEF Reinit, Restocked, FilledQueue, EmptyQueue, RestInv
<1>4. CASE Stop \/ UNCHANGED vars
  BY <1>4 DEF Stop, vars, handlerVars, RestInv
<1> QED BY <1>1, <1>2, <1>3, <1>4 DEF Next

(* With nothing lent every queue counts as Claim - 1. *)
LEMMA LoansFresh ==
  ASSUME NEW n, n = [q \in Queues |-> Claim - 1], NEW k \in Nat
  PROVE  Total(n) <= Lendable(k)
PROOF
<1>1. Claim - 1 \in Nat /\ Claim \in Nat
  BY RbdAssumption
<1>2. n \in [Queues -> Nat] /\ \A q \in Queues : n[q] = Claim - 1
  BY <1>1
<1>3. Total(n) = Cardinality(Queues) * (Claim - 1)
  BY <1>1, <1>2, TotalConstant
<1>4. k * Claim \in Nat /\ Cardinality(Queues) \in Nat
  BY <1>1, FS_CardinalityType, RbdAssumption
<1>5. Cardinality(Queues) * (Claim - 1) \in Nat
  BY <1>1, <1>4
<1> QED BY <1>3, <1>4, <1>5 DEF Lendable

LEMMA LoansType ==
  ASSUME TypeOK
  PROVE  /\ Loans \in [Queues -> Nat] /\ Total(Loans) \in Nat
         /\ Fulls \in [Queues -> Nat]
PROOF
<1>1. \A q \in Queues : rxq[q] \in QueueState
  BY DEF TypeOK
<1>2. Loans \in [Queues -> Nat]
  BY <1>1, LoanType DEF Loans
<1>3. \A q \in Queues : Full(rxq[q], pc[q]) \in Nat
  BY <1>1, RbdAssumption DEF Full, AtLeast, QueueState
<1> QED BY <1>2, <1>3, TotalMono DEF Fulls

LEMMA LoanInit ==
  ASSUME NEW k \in Nat \ {0}
  PROVE  Init => LoanInv(k)
PROOF
<1> SUFFICES ASSUME Init PROVE LoanInv(k)
  OBVIOUS
<1>1. \A q \in Queues : pc[q] = "idle" /\ rxq[q].used_count = 0 /\ rxq[q].free = 0
                      /\ ~run[q].emergency
  BY DEF Init, Restocked, FilledQueue, EmptyQueue, IdleRun
<1>2. Loans = [q \in Queues |-> Claim - 1]
  <2>1. ~(0 >= Claim)
    BY RbdAssumption
  <2> QED BY <1>1, <2>1 DEF Loans, Loan, Owed, AtLeast
<1>3. Total(Loans) <= Lendable(k)
  BY <1>2, LoansFresh
<1>4. Requests = 0
  <2>1. At("post") = {}
    BY <1>1 DEF At
  <2> QED BY <2>1, FS_EmptySet DEF Requests, Init
<1>5. LateInv(k)
  BY <1>4, LateFinite DEF LateInv
<1> QED BY <1>1, <1>3, <1>5 DEF LoanInv, PostInv, RestInv

(* The handler of queue q leaves the others alone, so they stay as late as *)
(* they were.                                                              *)
LEMMA LateHandler ==
  ASSUME IInv, PostInv, PostInv', NEW k \in Nat, k * Claim >= QueueSize \div 2, LateInv(k),
         NEW q \in Queues, Handle(q) \/ Close(q)
  PROVE  LateInv(k)'
PROOF
<1>0. \A p \in Queues : p # q => pc'[p] = pc[p] /\ rxq'[p] = rxq[p] /\ run'[p] = run[p]
  BY HandlerFrame DEF IInv
<1>1. \A p \in Queues : p # q => (IsLate(p) <=> IsLate(p)')
  BY <1>0 DEF IsLate, Posts
<1>2. IsFiniteSet(Late) /\ IsFiniteSet(Late') /\ Cardinality(Late) \in Nat
      /\ Cardinality(Late') \in Nat
  <2>1. IsFiniteSet(Late) /\ IsFiniteSet(Late')
    BY FS_Subset, RbdAssumption DEF Late
  <2> QED BY <2>1, FS_CardinalityType
<1>3. Requests \in Nat /\ Requests < k + Cardinality(Late)
  BY AtFinite DEF LateInv, Requests, IInv, TypeOK
<1>4. CASE Requests' = Requests /\ (IsLate(q) => IsLate(q)')
  <2>1. Late \subseteq Late'
    BY <1>1, <1>4 DEF Late
  <2>2. Cardinality(Late) <= Cardinality(Late')
    BY <1>2, <2>1, FS_Subset
  <2>3. Requests < k + Cardinality(Late')
    BY <1>2, <1>3, <2>2
  <2> QED BY <1>4, <2>3 DEF LateInv
<1>5. CASE Requests' = Requests + 1 /\ ~IsLate(q) /\ IsLate(q)'
  <2>1. Late' = Late \cup {q} /\ q \notin Late
    BY <1>1, <1>5 DEF Late
  <2>2. Cardinality(Late') = Cardinality(Late) + 1
    BY <1>2, <2>1, FS_AddElement
  <2>3. Requests + 1 < k + Cardinality(Late')
    BY <1>2, <1>3, <2>2
  <2> QED BY <1>5, <2>3 DEF LateInv
<1>6. CASE Requests' = Requests /\ req_pending' * Claim < QueueSize \div 2
  <2>1. At("post")' \subseteq Late'
    BY DEF At, Late, IsLate, PostInv, Posts
  <2>2. Cardinality(At("post")') <= Cardinality(Late')
    BY <1>2, <2>1, FS_Subset
  <2>3. IsFiniteSet(At("post")')
    BY FS_Subset, RbdAssumption DEF At
  <2>4. Cardinality(At("post")') \in Nat
    BY <2>3, FS_CardinalityType
  <2>5. TypeOK'
    BY TypeStep DEF Next
  <2>6. PICK p \in Nat : p = req_pending'
    BY <2>5 DEF TypeOK
  <2>7. p < k
    <3>1. p * Claim \in Int /\ k * Claim \in Int /\ Claim \in Nat
      BY <2>6, RbdAssumption
    <3>2. QueueSize \div 2 \in Int
      BY RbdAssumption
    <3>3. PICK a, b, h \in Int : a = p * Claim /\ b = k * Claim /\ h = QueueSize \div 2
      BY <3>1, <3>2
    <3>4. a < b
      BY <1>6, <2>6, <3>3
    <3>5. p >= k => p * Claim >= k * Claim
      BY <3>1, SMT
    <3> QED BY <3>3, <3>4, <3>5
  <2>8. Requests' = p + Cardinality(At("post")')
    BY <2>6 DEF Requests
  <2>9. Requests' < k + Cardinality(Late')
    BY <1>2, <2>2, <2>4, <2>7, <2>8
  <2> QED BY <2>9 DEF LateInv
<1> QED BY <1>4, <1>5, <1>6, LoanHandler

(* A step of a handler leaves the queues owed no more than can be lent. *)
LEMMA LoansHandler ==
  ASSUME IInv, PostInv, Accounts, NEW k \in Nat, LateInv(k), Total(Loans) <= Lendable(k),
         NEW q \in Queues, Handle(q) \/ Close(q)
  PROVE  Total(Loans') <= Lendable(k)
PROOF
<1>0. \A p \in Queues : p # q => pc'[p] = pc[p] /\ rxq'[p] = rxq[p]
  BY HandlerFrame DEF IInv
<1>1. Loans \in [Queues -> Nat] /\ Total(Loans) \in Nat /\ Fulls \in [Queues -> Nat]
  BY LoansType DEF IInv
<1>2. TypeOK'
  BY TypeStep DEF Next
<1>3. Loans' \in [Queues -> Nat]
      /\ \A p \in Queues : Loans'[p] = Loan(rxq'[p], pc'[p]) /\ Loans[p] = Loan(rxq[p], pc[p])
  <2>1. \A p \in Queues : rxq'[p] \in QueueState
    BY <1>2 DEF TypeOK
  <2>2. Loans' = [p \in Queues |-> Loan(rxq'[p], pc'[p])]
    BY DEF Loans, Loan, Owed, AtLeast
  <2>3. Loans' \in [Queues -> Nat]
    BY <2>1, <2>2, LoanType
  <2> QED BY <2>2, <2>3 DEF Loans
<1>4. Lendable(k) \in Nat
  <2>1. Claim \in Nat /\ Claim - 1 \in Nat /\ Cardinality(Queues) \in Nat
    BY FS_CardinalityType, RbdAssumption
  <2>2. k * Claim \in Nat /\ Cardinality(Queues) * (Claim - 1) \in Nat
    BY <2>1
  <2> QED BY <2>2 DEF Lendable
<1>5. CASE Loan(rxq'[q], pc'[q]) <= Loan(rxq[q], pc[q])
  <2>1. \A p \in Queues : Loans'[p] <= Loans[p]
    <3> SUFFICES ASSUME NEW p \in Queues PROVE Loans'[p] <= Loans[p]
      OBVIOUS
    <3>1. CASE p = q
      BY <1>3, <1>5, <3>1
    <3>2. CASE p # q
      <4>1. Loans'[p] = Loans[p] /\ Loans[p] \in Nat
        BY <1>0, <1>1, <1>3, <3>2
      <4> QED BY <4>1
    <3> QED BY <3>1, <3>2
  <2>2. Total(Loans') <= Total(Loans) /\ Total(Loans') \in Nat
    BY <1>1, <1>3, <2>1, TotalMono
  <2> QED BY <1>1, <1>4, <2>2
<1>6. CASE ClaimNone(q)
  <2>1. /\ req_ready = 0 /\ pc[q] = "claim" /\ UNCHANGED rxq
        /\ pc'[q] \in {"tail", "out", "head"}
    BY <1>6 DEF ClaimNone, ToTail, Loop, IInv, TypeOK
  <2>2. Total(Fulls) <= Lendable(k)
    BY <2>1, FullBound DEF Lendable
  <2>3. \A p \in Queues : Loans'[p] <= Fulls[p]
    <3> SUFFICES ASSUME NEW p \in Queues PROVE Loan(rxq'[p], pc'[p]) <= Full(rxq[p], pc[p])
      BY <1>3 DEF Fulls
    <3>1. rxq'[p] = rxq[p] /\ rxq[p].used_count \in Nat
      BY <2>1 DEF IInv, TypeOK, QueueState
    <3>2. pc'[p] = "take" <=> pc[p] = "take"
      BY <1>0, <2>1
    <3> QED BY <3>1, <3>2, RbdAssumption DEF Loan, Owed, Full, AtLeast
  <2>4. Total(Loans') <= Total(Fulls) /\ Total(Loans') \in Nat /\ Total(Fulls) \in Nat
    BY <1>1, <1>3, <2>3, TotalMono
  <2> QED BY <1>4, <2>2, <2>4
<1> QED BY <1>5, <1>6, LoanHandler

(* The invariant about the loans is inductive. *)
LEMMA LoanStep ==
  ASSUME NEW k \in Nat \ {0}, k * Claim >= QueueSize \div 2
  PROVE  IInv /\ Accounts /\ LoanInv(k) /\ [Next]_vars => LoanInv(k)'
PROOF
<1> SUFFICES ASSUME IInv, Accounts, LoanInv(k), [Next]_vars PROVE LoanInv(k)'
  OBVIOUS
<1>0. PostInv /\ RestInv /\ LateInv(k) /\ Total(Loans) <= Lendable(k)
  BY DEF LoanInv
<1>1. RestInv'
  BY <1>0, RestStep
<1>2. Total(Loans)' = Total(Loans') /\ Lendable(k)' = Lendable(k)
  BY DEF Total, Lendable
<1>3. ASSUME NEW q \in Queues, Handle(q) \/ Close(q) PROVE LoanInv(k)'
  <2>1. PostInv'
    <3>1. \A p \in Queues : p # q => pc'[p] = pc[p] /\ rxq'[p] = rxq[p]
      BY <1>3, HandlerFrame DEF IInv
    <3>2. pc'[q] = "post" => Posts(rxq'[q].used_count)
      BY <1>0, <1>3, LoanHandler
    <3> QED BY <1>0, <3>1, <3>2 DEF PostInv, Posts
  <2>2. LateInv(k)'
    BY <1>0, <1>3, <2>1, LateHandler
  <2>3. Total(Loans') <= Lendable(k)
    BY <1>0, <1>3, LoansHandler
  <2> QED BY <1>1, <1>2, <2>1, <2>2, <2>3 DEF LoanInv
<1>4. CASE Work
  <2>1. UNCHANGED <<pc, rxq, run>>
    BY <1>4 DEF Work, WorkStart, WorkSwap, WorkServe, WorkReread, WorkSplice,
        WorkReady, WorkReturn, handlerVars
  <2>2. PostInv' /\ Loans' = Loans /\ Late' = Late /\ At("post")' = At("post")
    BY <1>0, <2>1 DEF PostInv, Posts, Loans, Loan, Owed, AtLeast, Late, IsLate, At
  <2>3. req_pending \in Nat /\ req_pending' \in Nat /\ req_pending' <= req_pending
    <3>1. TypeOK /\ TypeOK'
      BY TypeStep DEF IInv
    <3>2. req_pending' = req_pending \/ req_pending' = req_pending - 1
      BY <1>4 DEF Work, WorkStart, WorkSwap, WorkServe, WorkReread, WorkSplice,
          WorkReady, WorkReturn, rbaVars
    <3> QED BY <3>1, <3>2 DEF TypeOK
  <2>4. LateInv(k)'
    <3>1. PICK c, l, p, p2 \in Nat :
            /\ c = Cardinality(At("post")) /\ l = Cardinality(Late)
            /\ p = req_pending /\ p2 = req_pending' /\ p2 <= p
      BY <2>3, AtFinite, LateFinite
    <3>2. p + c < k + l
      BY <1>0, <3>1 DEF LateInv, Requests
    <3>3. p2 + c < k + l
      BY <3>1, <3>2
    <3>4. Requests' = p2 + c /\ Cardinality(Late)' = l
      BY <2>2, <3>1 DEF Requests
    <3> QED BY <3>3, <3>4 DEF LateInv
  <2> QED BY <1>0, <1>1, <1>2, <2>2, <2>4 DEF LoanInv
<1>5. CASE Reinit
  <2>1. /\ \A q \in Queues : pc'[q] = "idle" /\ rxq'[q].used_count = 0
        /\ req_pending' = 0
    BY <1>5 DEF Reinit, Restocked, FilledQueue, EmptyQueue
  <2>2. Loans' = [q \in Queues |-> Claim - 1]
    <3>1. ~(0 >= Claim)
      BY RbdAssumption
    <3> QED BY <2>1, <3>1 DEF Loans, Loan, Owed, AtLeast
  <2>3. Total(Loans') <= Lendable(k)
    BY <2>2, LoansFresh
  <2>4. Requests' = 0
    <3>1. At("post")' = {}
      BY <2>1 DEF At
    <3> QED BY <2>1, <3>1, FS_EmptySet DEF Requests
  <2>5. Cardinality(Late') \in Nat
    <3>1. IsFiniteSet(Late')
      BY FS_Subset, RbdAssumption DEF Late
    <3> QED BY <3>1, FS_CardinalityType
  <2>6. LateInv(k)'
    BY <2>4, <2>5 DEF LateInv
  <2> QED BY <1>1, <1>2, <2>1, <2>3, <2>6 DEF LoanInv, PostInv
<1>6. CASE Stop \/ UNCHANGED vars
  <2>1. UNCHANGED <<pc, rxq, run, req_pending>>
    BY <1>6 DEF Stop, vars, handlerVars, rbaVars
  <2>2. PostInv' /\ Loans' = Loans /\ Late' = Late /\ Requests' = Requests
    BY <1>0, <2>1 DEF PostInv, Posts, Loans, Loan, Owed, AtLeast, Late, IsLate, At, Requests
  <2>3. LateInv(k)'
    BY <1>0, <2>2 DEF LateInv
  <2> QED BY <1>0, <1>1, <1>2, <2>2, <2>3 DEF LoanInv
<1> QED BY <1>3, <1>4, <1>5, <1>6 DEF Next

(* When no handler runs and nothing is left to handle, the device has all  *)
(* but what is lent and what waits for the write pointer to move.          *)
LEMMA IdleBalance ==
  ASSUME IInv, Conserved, LedgerInv, UntrackedInv, Accounts, RestInv,
         enabled, faults = 0, \A q \in Queues : pc[q] = "idle" /\ rxq[q].closed = 0
  PROVE  \E h \in Nat :
           /\ h <= Cardinality(Queues) * (Grain - 1)
           /\ hw + h + Total(Lent) = QueueSize - 1
PROOF
<1> DEFINE Held == [q \in Queues |-> rxq[q].held]
           X == [q \in Queues |-> Has[q] + Spare[q]]
           G == [q \in Queues |-> Grain - 1]
<1>0. TypeOK /\ \A q \in Queues : rxq[q] \in QueueState
  BY DEF IInv, TypeOK
<1>1. /\ Rounds \in [Queues -> Nat] /\ Lent \in [Queues -> Nat]
      /\ Asked \in Nat /\ Ready \in Nat
      /\ \A q \in Queues : Rounds[q] = Round(rxq[q]) /\ Lent[q] = rxq[q].used_count
  BY <1>0, AccountsTypes
<1>2. Has \in [Queues -> Nat] /\ Spare \in [Queues -> Nat]
  <2>1. \A q \in Queues : InRound(rxq[q])
    BY DEF LedgerInv, RoundInv
  <2> QED BY <1>0, <2>1, HasType, SparesFacts DEF Spare, TypeOK
<1>3. Held \in [Queues -> Nat] /\ G \in [Queues -> Nat]
      /\ \A q \in Queues : Held[q] <= G[q] /\ Held[q] = rxq[q].held /\ G[q] = Grain - 1
  BY <1>0, RbdAssumption DEF QueueState
<1>4. X \in [Queues -> Nat] /\ \A q \in Queues : X[q] = Has[q] + Spare[q]
  BY <1>2
<1>5. \A q \in Queues : X[q] = Held[q] + Rounds[q]
  <2> SUFFICES ASSUME NEW q \in Queues PROVE Has[q] + Spare[q] = rxq[q].held + Round(rxq[q])
    BY <1>1, <1>3, <1>4
  <2>1. rxq[q].closed = 0 /\ rxq[q].free = 0
    BY DEF RestInv
  <2>2. /\ rxq[q].used \in Nat /\ rxq[q].extra \in Nat /\ rxq[q].held \in Nat
        /\ Round(rxq[q]) \in Nat
    BY <1>0, <1>3, RoundFacts DEF QueueState
  <2>3. rxq[q].extra = 0
    <3>1. pc[q] = "idle" /\ ~run[q].emergency
      BY DEF RestInv
    <3> QED BY <2>2, <3>1 DEF UntrackedInv
  <2>4. Has[q] = rxq[q].used + rxq[q].held
    BY <2>1, <2>2 DEF Has, Listed
  <2>5. Spare[q] = Round(rxq[q]) - rxq[q].used
    BY <2>2, <2>3 DEF Spare, Spares, Kept
  <2> QED BY <2>2, <2>4, <2>5
<1>6. Total(G) = Cardinality(Queues) * (Grain - 1)
  <2>1. Grain - 1 \in Nat
    BY RbdAssumption
  <2> HIDE DEF G
  <2> QED BY <1>3, <2>1, TotalConstant
<1> HIDE DEF Held, X, G
<1>7. Total(X) = Total(Has) + Total(Spare)
  BY <1>2, <1>4, TotalAdd
<1>8. Total(X) = Total(Held) + Total(Rounds)
  BY <1>1, <1>3, <1>4, <1>5, TotalAdd
<1>9. Total(Held) <= Total(G) /\ Total(Held) \in Nat
  BY <1>3, TotalMono
<1>10. /\ Total(Has) \in Nat /\ Total(Spare) \in Nat /\ Total(Rounds) \in Nat
       /\ Total(Lent) \in Nat
  <2>1. Total(Has) \in Nat /\ Total(Spare) \in Nat
    BY <1>2, TotalMono
  <2>2. Total(Rounds) \in Nat /\ Total(Lent) \in Nat
    BY <1>1, TotalMono
  <2> QED BY <2>1, <2>2
<1>11. PICK H, S, R, L, h, w, e, g \in Nat :
         /\ H = Total(Has) /\ S = Total(Spare) /\ R = Total(Rounds) /\ L = Total(Lent)
         /\ h = Total(Held) /\ w = hw
         /\ e = rbd_empty + local_empty /\ g = local_allocated + rbd_allocated
  <2>1. hw \in Nat /\ rbd_empty + local_empty \in Nat /\ local_allocated + rbd_allocated \in Nat
    BY <1>0 DEF TypeOK
  <2> QED BY <1>9, <1>10, <2>1
<1>12. w + H + e + g = (QueueSize - 1) + Pool
  <2>1. Has = [q \in Queues |-> rxq[q].closed + rxq[q].used + rxq[q].free + rxq[q].held]
    BY DEF Has, Listed
  <2>2. hw + Total(Has) + rbd_empty + local_empty + local_allocated + rbd_allocated
          = QueueSize - 1 + Pool
    BY <2>1 DEF Conserved
  <2>3. /\ rbd_empty \in Nat /\ local_empty \in Nat /\ local_allocated \in Nat
        /\ rbd_allocated \in Nat /\ Pool \in Nat /\ QueueSize \in Nat
    BY <1>0, PoolType, RbdAssumption DEF TypeOK
  <2> QED BY <1>11, <2>2, <2>3
<1>13. leaked = 0
  BY DEF UntrackedInv
<1>14. PICK p, t, r, f \in Nat :
         /\ p = Requests /\ t = Cardinality(At("take")) /\ r = req_ready /\ f = Finishing
  BY <1>0, AtFinite DEF Requests, TypeOK, Finishing
<1>15. e = Claim * p + S
  <2>1. Claim * p \in Nat
    BY <1>14, Multiples
  <2> QED BY <1>11, <1>13, <1>14, <2>1 DEF LedgerInv, Ledger
<1>16. g = Claim * (r + t + f)
  <2>1. ClaimFinds
    BY GrantedFinds
  <2> QED BY <1>0, <1>11, <1>14, <2>1 DEF ClaimFinds, TypeOK
<1>17. Claim * ((p + f) + (r + t)) + R = L + Pool
  <2>1. Asked = p + f /\ Ready = r + t
    BY <1>14 DEF Asked, Ready, Requests
  <2> QED BY <1>11, <2>1 DEF Accounts
<1>18. Claim * ((p + f) + (r + t)) = Claim * p + Claim * (r + t + f)
  BY RbdAssumption
<1>19. H + S = h + R
  BY <1>7, <1>8, <1>11
<1>20. w + h + L = QueueSize - 1
  <2>1. PICK c, d \in Nat : c = Claim * p /\ d = Claim * (r + t + f)
    BY <1>14, Multiples
  <2>2. (c + d) + R = L + Pool /\ e = c + S /\ g = d
    BY <1>15, <1>16, <1>17, <1>18, <2>1
  <2>3. Pool \in Nat /\ QueueSize \in Nat
    BY PoolType, RbdAssumption
  <2> QED BY <1>12, <1>19, <2>2, <2>3
<1>21. h <= Cardinality(Queues) * (Grain - 1)
  BY <1>6, <1>9, <1>11
<1> QED BY <1>11, <1>20, <1>21

(* The ring has room for what k requests, at which a handler turns to      *)
(* emergency mode, what every queue may be owed beside them and what every *)
(* queue may hold back from the device.                                    *)
Roomy(k) ==
  /\ k * Claim >= QueueSize \div 2
  /\ Lendable(k) + Cardinality(Queues) * (Grain - 1) < QueueSize - 1

(* RX never stops for good in a ring with room, whatever the number of     *)
(* queues (iwl_pcie_rx_handle, iwl_pcie_rx_reuse_rbd): when every handler  *)
(* is done and no page allocation has failed, the device has a buffer to   *)
(* fill, for the queues turn to emergency mode before they have lent all.  *)
THEOREM DeviceKeepsBuffers ==
  ASSUME NEW k \in Nat, Roomy(k)
  PROVE  Spec => []NeverStalls
PROOF
<1>0. k \in Nat \ {0} /\ k * Claim >= QueueSize \div 2
  <2>1. Claim \in Nat /\ Claim - 1 \in Nat /\ Grain - 1 \in Nat /\ Cardinality(Queues) \in Nat
        /\ QueueSize \in Nat \ {0}
    BY FS_CardinalityType, RbdAssumption
  <2>2. k * Claim \in Nat /\ Cardinality(Queues) * (Claim - 1) \in Nat
        /\ Cardinality(Queues) * (Grain - 1) \in Nat
    BY <2>1
  <2>3. QueueSize - 1 > 0
    BY <2>1, <2>2 DEF Roomy, Lendable
  <2>4. QueueSize \div 2 >= 1 /\ QueueSize \div 2 \in Int
    BY <2>1, <2>3
  <2>5. k = 0 => k * Claim = 0
    BY <2>1
  <2> QED BY <2>2, <2>4, <2>5 DEF Roomy
<1>1. Init => LoanInv(k)
  BY <1>0, LoanInit
<1>2. IInv /\ Accounts /\ LoanInv(k) /\ [Next]_vars => LoanInv(k)'
  BY <1>0, LoanStep
<1>3. IInv /\ Conserved /\ LedgerInv /\ UntrackedInv /\ Accounts /\ LoanInv(k) => NeverStalls
  <2> SUFFICES ASSUME IInv, Conserved, LedgerInv, UntrackedInv, Accounts, LoanInv(k),
                      enabled, faults = 0,
                      \A q \in Queues : pc[q] = "idle" /\ rxq[q].closed = 0
               PROVE  hw > 0
    BY DEF NeverStalls
  <2>1. RestInv /\ Total(Loans) <= Lendable(k)
    BY DEF LoanInv
  <2>2. PICK h \in Nat : /\ h <= Cardinality(Queues) * (Grain - 1)
                         /\ hw + h + Total(Lent) = QueueSize - 1
    BY <2>1, IdleBalance
  <2>3. TypeOK
    BY DEF IInv
  <2>4. /\ Loans \in [Queues -> Nat] /\ Total(Loans) \in Nat /\ Lent \in [Queues -> Nat]
        /\ \A q \in Queues : Lent[q] = rxq[q].used_count
    BY <2>3, LoansType, AccountsTypes
  <2>5. \A q \in Queues : Lent[q] <= Loans[q]
    <3> SUFFICES ASSUME NEW q \in Queues PROVE rxq[q].used_count <= Loan(rxq[q], pc[q])
      BY <2>4 DEF Loans
    <3>1. rxq[q].used_count \in Nat /\ pc[q] = "idle"
      BY <2>3 DEF TypeOK, QueueState
    <3> QED BY <3>1, RbdAssumption DEF Loan, Owed, AtLeast
  <2>6. Total(Lent) <= Total(Loans) /\ Total(Lent) \in Nat
    BY <2>4, <2>5, TotalMono
  <2>7. Cardinality(Queues) \in Nat /\ Claim \in Nat /\ Claim - 1 \in Nat /\ Grain - 1 \in Nat
    BY FS_CardinalityType, RbdAssumption
  <2>8. PICK g, l, L, M \in Nat :
          /\ g = Cardinality(Queues) * (Grain - 1) /\ l = Lendable(k)
          /\ L = Total(Lent) /\ M = Total(Loans)
    <3>1. Cardinality(Queues) * (Grain - 1) \in Nat /\ k * Claim \in Nat
          /\ Cardinality(Queues) * (Claim - 1) \in Nat
      BY <2>7
    <3>2. Lendable(k) \in Nat
      BY <3>1 DEF Lendable
    <3> QED BY <2>4, <2>6, <3>1, <3>2
  <2>9. l + g < QueueSize - 1 /\ h <= g /\ L <= M /\ M <= l /\ hw + h + L = QueueSize - 1
    BY <2>1, <2>2, <2>6, <2>8 DEF Roomy
  <2>10. hw \in Nat /\ QueueSize \in Nat
    BY <2>3, RbdAssumption DEF TypeOK
  <2> QED BY <2>9, <2>10
<1>4. Spec => []Conserved
  BY RbdsConserved
<1>5. Init => UntrackedInv
  BY DEF Init, UntrackedInv, Restocked, FilledQueue, EmptyQueue
<1> QED BY <1>1, <1>2, <1>3, <1>4, <1>5, LedgerInit, LedgerStep, UntrackedStep, AccountsInit,
      AccountsStep, Invariant, PTL DEF Spec

(* The sizes of the driver (RX_CLAIM_REQ_ALLOC, a write pointer in         *)
(* multiples of 8, IWL_MAX_RX_HW_QUEUES, the num_rbds of the devices with  *)
(* several receive queues) leave room: such a device never stalls.         *)
THEOREM DriverNeverStalls ==
  ASSUME Claim = 8, Grain = 8, Cardinality(Queues) <= 16,
         QueueSize \in {512, 2048, 4096}
  PROVE  Spec => []NeverStalls
PROOF
<1>1. PICK n \in Nat : n = Cardinality(Queues) /\ n <= 16
  BY FS_CardinalityType, RbdAssumption
<1>2. PICK k \in Nat : k * 8 = QueueSize \div 2
  <2>1. CASE QueueSize = 512
    <3>1. 32 * 8 = QueueSize \div 2 /\ 32 \in Nat
      BY <2>1
    <3> QED BY <3>1
  <2>2. CASE QueueSize = 2048
    <3>1. 128 * 8 = QueueSize \div 2 /\ 128 \in Nat
      BY <2>2
    <3> QED BY <3>1
  <2>3. CASE QueueSize = 4096
    <3>1. 256 * 8 = QueueSize \div 2 /\ 256 \in Nat
      BY <2>3
    <3> QED BY <3>1
  <2> QED BY <2>1, <2>2, <2>3
<1>3. k * 8 + n * (8 - 1) + n * (8 - 1) < QueueSize - 1
  BY <1>1, <1>2
<1>4. Roomy(k)
  BY <1>1, <1>2, <1>3 DEF Roomy, Lendable
<1> QED BY <1>4, DeviceKeepsBuffers
============================================================================
