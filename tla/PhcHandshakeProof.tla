-------------------------- MODULE PhcHandshakeProof --------------------------
(* Proofs about PhcHandshake, for any number of readers. *)
EXTENDS PhcHandshake, TLAPS

USE PhcAssumption

(* The invariant holds before any call. *)
LEMMA InitIInv == Init => IInv
  BY DEF Init, IInv, TypeOK, LockOwner, OneOwner, FlagOwner, DoneWasAnswered,
     RunningHasNoResult, SuccessIsFresh, Critical, PCs, Ops, Rets, Threads

(* Every step keeps the types. *)
LEMMA TypeStep == TypeOK /\ [Next]_vars => TypeOK'
  <1> SUFFICES ASSUME TypeOK, [Next]_vars PROVE TypeOK'
    OBVIOUS
  <1> USE DEF TypeOK, PCs, Ops, Rets, threadVars, handlerVars
  <1>1. ASSUME NEW t \in Threads, Call(t) PROVE TypeOK'
    BY <1>1 DEF Call, Enter, SleepBudget
  <1>2. ASSUME NEW t \in Threads, WaitFree(t) PROVE TypeOK'
    BY <1>2 DEF WaitFree, Return
  <1>3. ASSUME NEW t \in Threads, Lock(t) PROVE TypeOK'
    BY <1>3 DEF Lock, SleepBudget, Pending
  <1>4. ASSUME NEW t \in Threads, Send(t) PROVE TypeOK'
    BY <1>4 DEF Send
  <1>5. ASSUME NEW t \in Threads, SendOk(t) \/ SendFails(t) PROVE TypeOK'
    BY <1>5 DEF SendOk, SendFails, Release, Return
  <1>6. ASSUME NEW t \in Threads, WaitDone(t) PROVE TypeOK'
    BY <1>6 DEF WaitDone, Release, Return
  <1>7. ASSUME NEW t \in Threads, ReadDevice(t) \/ ReadSystem(t) PROVE TypeOK'
    BY <1>7 DEF ReadDevice, ReadSystem, Return
  <1>8. CASE MacStart
    BY <1>8 DEF MacStart, Enter, SleepBudget, Threads
  <1>9. CASE MacStartReset
    BY <1>9 DEF MacStartReset, Threads
  <1>10. CASE NotifGP2
    BY <1>10 DEF NotifGP2
  <1>11. CASE NotifART
    BY <1>11 DEF NotifART
  <1>12. CASE NotifDone
    BY <1>12 DEF NotifDone
  <1>13. CASE UNCHANGED vars
    BY <1>13 DEF vars
  <1> QED
    BY <1>1, <1>2, <1>3, <1>4, <1>5, <1>6, <1>7, <1>8, <1>9, <1>10, <1>11,
       <1>12, <1>13 DEF Next, ThreadStep

(* The lock, the flag and the critical sections. *)
LEMMA OwnerStep ==
  IInv /\ [Next]_vars => LockOwner' /\ OneOwner' /\ FlagOwner'
  <1> SUFFICES ASSUME IInv, [Next]_vars
               PROVE  LockOwner' /\ OneOwner' /\ FlagOwner'
    OBVIOUS
  <1> USE DEF IInv, TypeOK, LockOwner, OneOwner, FlagOwner, Critical,
              threadVars, handlerVars
  <1>1. ASSUME NEW t \in Threads, Call(t) \/ WaitFree(t)
        PROVE LockOwner' /\ OneOwner' /\ FlagOwner'
    BY <1>1 DEF Call, Enter, WaitFree, Return
  <1>2. ASSUME NEW t \in Threads, Lock(t)
        PROVE LockOwner' /\ OneOwner' /\ FlagOwner'
    BY <1>2 DEF Lock, Pending
  <1>3. ASSUME NEW t \in Threads, Send(t) \/ SendOk(t)
        PROVE LockOwner' /\ OneOwner' /\ FlagOwner'
    BY <1>3 DEF Send, SendOk
  <1>4. ASSUME NEW t \in Threads, SendFails(t) \/ WaitDone(t)
        PROVE LockOwner' /\ OneOwner' /\ FlagOwner'
    BY <1>4 DEF SendFails, WaitDone, Release, Return
  <1>5. ASSUME NEW t \in Threads, ReadDevice(t) \/ ReadSystem(t)
        PROVE LockOwner' /\ OneOwner' /\ FlagOwner'
    BY <1>5 DEF ReadDevice, ReadSystem, Return
  <1>6. CASE MacStart \/ MacStartReset
    BY <1>6 DEF MacStart, Enter, MacStartReset
  <1>7. CASE NotifGP2 \/ NotifART \/ NotifDone \/ UNCHANGED vars
    BY <1>7 DEF NotifGP2, NotifART, NotifDone, vars
  <1> QED
    BY <1>1, <1>2, <1>3, <1>4, <1>5, <1>6, <1>7 DEF Next, ThreadStep

(* A result is there only once the call has returned. *)
LEMMA ResultStep == IInv /\ [Next]_vars => RunningHasNoResult'
  <1> SUFFICES ASSUME IInv, [Next]_vars PROVE RunningHasNoResult'
    OBVIOUS
  <1> USE DEF IInv, TypeOK, RunningHasNoResult, threadVars, handlerVars
  <1>1. ASSUME NEW t \in Threads, Call(t) \/ WaitFree(t) \/ Lock(t)
        PROVE RunningHasNoResult'
    BY <1>1 DEF Call, Enter, WaitFree, Return, Lock
  <1>2. ASSUME NEW t \in Threads, Send(t) \/ SendOk(t) \/ SendFails(t)
        PROVE RunningHasNoResult'
    BY <1>2 DEF Send, SendOk, SendFails, Return
  <1>3. ASSUME NEW t \in Threads, WaitDone(t) \/ ReadDevice(t) \/ ReadSystem(t)
        PROVE RunningHasNoResult'
    BY <1>3 DEF WaitDone, ReadDevice, ReadSystem, Return
  <1>4. CASE MacStart \/ MacStartReset
    BY <1>4 DEF MacStart, Enter, MacStartReset
  <1>5. CASE NotifGP2 \/ NotifART \/ NotifDone \/ UNCHANGED vars
    BY <1>5 DEF NotifGP2, NotifART, NotifDone, vars
  <1> QED
    BY <1>1, <1>2, <1>3, <1>4, <1>5 DEF Next, ThreadStep

(* Completion of an answer, and what a successful call has seen. *)
LEMMA FreshStep == IInv /\ [Next]_vars => DoneWasAnswered' /\ SuccessIsFresh'
  <1> SUFFICES ASSUME IInv, [Next]_vars
               PROVE  DoneWasAnswered' /\ SuccessIsFresh'
    OBVIOUS
  <1> USE DEF IInv, TypeOK, LockOwner, OneOwner, DoneWasAnswered,
              RunningHasNoResult, SuccessIsFresh, Critical, threadVars, handlerVars
  <1>1. ASSUME NEW t \in Threads, Call(t)
        PROVE DoneWasAnswered' /\ SuccessIsFresh'
    BY <1>1 DEF Call, Enter
  <1>2. ASSUME NEW t \in Threads, WaitFree(t)
        PROVE DoneWasAnswered' /\ SuccessIsFresh'
    BY <1>2 DEF WaitFree, Return
  <1>3. ASSUME NEW t \in Threads, Lock(t)
        PROVE DoneWasAnswered' /\ SuccessIsFresh'
    BY <1>3 DEF Lock, Pending
  <1>4. ASSUME NEW t \in Threads, Send(t) \/ SendOk(t)
        PROVE DoneWasAnswered' /\ SuccessIsFresh'
    BY <1>4 DEF Send, SendOk
  <1>5. ASSUME NEW t \in Threads, SendFails(t)
        PROVE DoneWasAnswered' /\ SuccessIsFresh'
    BY <1>5 DEF SendFails, Release, Return
  <1>6. ASSUME NEW t \in Threads, WaitDone(t)
        PROVE DoneWasAnswered' /\ SuccessIsFresh'
    BY <1>6 DEF WaitDone, Release, Return
  <1>7. ASSUME NEW t \in Threads, ReadDevice(t) \/ ReadSystem(t)
        PROVE DoneWasAnswered' /\ SuccessIsFresh'
    BY <1>7 DEF ReadDevice, ReadSystem, Return
  <1>8. CASE MacStart \/ MacStartReset
    BY <1>8 DEF MacStart, Enter, MacStartReset
  <1>9. CASE NotifGP2 \/ NotifART \/ UNCHANGED vars
    BY <1>9 DEF NotifGP2, NotifART, vars
  <1>10. CASE NotifDone
    BY <1>10 DEF NotifDone
  <1> QED
    BY <1>1, <1>2, <1>3, <1>4, <1>5, <1>6, <1>7, <1>8, <1>9, <1>10
    DEF Next, ThreadStep

(* IInv is an invariant of the handshake. *)
THEOREM IInvInvariant == Spec => []IInv
  <1>1. IInv /\ [Next]_vars => IInv'
    BY TypeStep, OwnerStep, ResultStep, FreshStep DEF IInv
  <1> QED
    BY <1>1, InitIInv, PTL DEF Spec

(* Type correctness of the PHC handshake. *)
THEOREM TypeCorrect == Spec => []TypeOK
  <1>1. IInv => TypeOK
    BY DEF IInv
  <1> QED
    BY <1>1, IInvInvariant, PTL

(* firmware_operation_done is "pending" only inside the critical section   *)
(* of the call that set it, and there is one such call at a time.          *)
THEOREM PendingCorrect == Spec => []PendingIsOwned
  <1>1. IInv => PendingIsOwned
    BY DEF IInv, TypeOK, LockOwner, OneOwner, FlagOwner, PendingIsOwned
  <1> QED
    BY <1>1, IInvInvariant, PTL

(* A call of the clock succeeds only if an answer was completed after it   *)
(* had taken systim_lock.                                                  *)
THEOREM FreshCorrect == Spec => []SuccessIsFresh
  <1>1. IInv => SuccessIsFresh
    BY DEF IInv
  <1> QED
    BY <1>1, IInvInvariant, PTL
=============================================================================
