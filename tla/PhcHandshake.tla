---------------------------- MODULE PhcHandshake ----------------------------
(***************************************************************************)
(* The PTP hardware clock of an integrated (CNVi) device: how the readers  *)
(* of the clock (mvm/ptp.c) and the firmware notification that answers     *)
(* them (mvm/timing_measurement.c) hand over the value of the device time  *)
(* GP2 and of the platform time ART through mvm->firmware_operation_done.  *)
(*                                                                         *)
(* A reader is a thread inside iwl_mvm_phc_get_syncdevicetime (operation   *)
(* READ_BOTH) or iwl_mvm_cyclecounter_read (READ_FIRMWARE_TIME), called by *)
(* the PTP character device or by the overflow work.  One more thread,     *)
(* Starter, is mac80211 starting the interface, again after every firmware *)
(* restart: its timecounter_init reads the clock too, and it then clears   *)
(* the flag whatever the readers are doing.                                *)
(*                                                                         *)
(* A time value is represented by the number of the request whose answer   *)
(* brought it; 0 is the value the handler stores when the firmware reports *)
(* an error.                                                               *)
(***************************************************************************)
EXTENDS Naturals, FiniteSets

CONSTANTS
  Readers,           \* threads that read the clock
  Starter,           \* the thread that runs iwl_mvm_mac_start
  MAX_FW_WAIT_COUNT, \* sleeps before a wait gives up
  MaxCalls           \* bound: calls of the clock in a behaviour

Threads == Readers \cup {Starter}

ASSUME PhcAssumption ==
  /\ Starter \notin Readers
  /\ MAX_FW_WAIT_COUNT \in Nat
  /\ MaxCalls \in Nat

Ops == {"READ_BOTH", "READ_FIRMWARE_TIME"}
Rets == {"none", "ok", "busy", "fwerror", "timeout"}

VARIABLES
  pc,        \* per thread: where it is
  op,        \* per thread: the operation it performs
  sleep_cnt, \* per thread: sleeps left
  ret,       \* per thread: what its last call returned
  device,    \* per thread: the device time it read
  system,    \* per thread: the system time it read
  flag,      \* mvm->firmware_operation_done
  lock,      \* holder of systim_lock, as a set of at most one
  GP2_ns,
  ART_ns,
  fwq,       \* requests the firmware has yet to answer
  rx,        \* the answer the handler is at, as a set of at most one
  rxpc,      \* "idle", "art" or "done": what the handler does next
  nreq,      \* requests sent
  ncalls,    \* calls begun
  answered,  \* history, per thread: an answer was completed since its request
  overlap    \* history, per thread: an operation was in progress during the
             \* wait for the flag to be free

threadVars == <<pc, op, sleep_cnt, ret, device, system>>
handlerVars == <<GP2_ns, ART_ns, rx, rxpc>>
vars == <<threadVars, flag, lock, handlerVars, fwq, nreq, ncalls, answered,
          overlap>>

Init ==
  /\ pc = [t \in Threads |-> "idle"]
  /\ op = [t \in Threads |-> "READ_FIRMWARE_TIME"]
  /\ sleep_cnt = [t \in Threads |-> 0]
  /\ ret = [t \in Threads |-> "none"]
  /\ device = [t \in Threads |-> 0]
  /\ system = [t \in Threads |-> 0]
  /\ flag = 0
  /\ lock = {}
  /\ GP2_ns = 0
  /\ ART_ns = 0
  /\ fwq = {}
  /\ rx = {}
  /\ rxpc = "idle"
  /\ nreq = 0
  /\ ncalls = 0
  /\ answered = [t \in Threads |-> FALSE]
  /\ overlap = [t \in Threads |-> FALSE]

-----------------------------------------------------------------------------
(* Where a call goes when it returns: timecounter_init is followed by the  *)
(* rest of iwl_mvm_mac_start.                                              *)
Return(t, r) ==
  /\ pc' = [pc EXCEPT ![t] = IF t = Starter THEN "reset" ELSE "idle"]
  /\ ret' = [ret EXCEPT ![t] = r]

(* The number of sleeps a wait is allowed. *)
SleepBudget == MAX_FW_WAIT_COUNT

(* A call of the clock begins. *)
Enter(t, o) ==
  /\ pc[t] = "idle"
  /\ ncalls < MaxCalls
  /\ ncalls' = ncalls + 1
  /\ pc' = [pc EXCEPT ![t] = "free"]
  /\ op' = [op EXCEPT ![t] = o]
  /\ sleep_cnt' = [sleep_cnt EXCEPT ![t] = SleepBudget]
  /\ ret' = [ret EXCEPT ![t] = "none"]
  /\ device' = [device EXCEPT ![t] = 0]
  /\ system' = [system EXCEPT ![t] = 0]
  /\ overlap' = [overlap EXCEPT ![t] = lock # {}]

Call(t) ==
  /\ t # Starter
  /\ \E o \in Ops : Enter(t, o)
  /\ UNCHANGED <<flag, lock, handlerVars, fwq, nreq, answered>>

(* iwl_mvm_mac_start: the firmware has been started (what it had not       *)
(* answered is gone) and timecounter_init reads the clock ...              *)
MacStart ==
  /\ Enter(Starter, "READ_FIRMWARE_TIME")
  /\ fwq' = {}
  /\ UNCHANGED <<flag, lock, handlerVars, nreq, answered>>

(* ... and the state of the handshake is cleared, without the lock. *)
MacStartReset ==
  /\ pc[Starter] = "reset"
  /\ pc' = [pc EXCEPT ![Starter] = "idle"]
  /\ flag' = 0
  /\ UNCHANGED <<op, sleep_cnt, ret, device, system, lock, handlerVars, fwq,
                 nreq, ncalls, answered, overlap>>

(* The loop that waits, without the lock, for a pending operation. *)
WaitFree(t) ==
  /\ pc[t] = "free"
  /\ \/ /\ flag # 0 /\ sleep_cnt[t] = 0
        /\ Return(t, "busy")
        /\ UNCHANGED sleep_cnt
     \/ /\ flag # 0 /\ sleep_cnt[t] > 0
        /\ sleep_cnt' = [sleep_cnt EXCEPT ![t] = @ - 1]
        /\ UNCHANGED <<pc, ret>>
     \/ /\ flag = 0
        /\ pc' = [pc EXCEPT ![t] = "lock"]
        /\ UNCHANGED <<ret, sleep_cnt>>
  /\ UNCHANGED <<op, device, system, flag, lock, handlerVars, fwq, nreq,
                 ncalls, answered, overlap>>

(* The value the flag gets when the lock is taken.  The mutated form       *)
(* leaves it as it is, as if it were known to be 0 since the loop.         *)
PendingAsFound == flag
Pending == 1

(* spin_lock_irqsave, then the operation is marked pending.  Every thread  *)
(* that is still waiting for the flag sees an operation in progress.       *)
Lock(t) ==
  /\ pc[t] = "lock"
  /\ lock = {}
  /\ lock' = {t}
  /\ sleep_cnt' = [sleep_cnt EXCEPT ![t] = SleepBudget]
  /\ flag' = Pending
  /\ answered' = [answered EXCEPT ![t] = FALSE]
  /\ overlap' = [u \in Threads |-> overlap[u] \/ pc[u] = "free"]
  /\ pc' = [pc EXCEPT ![t] = "send"]
  /\ UNCHANGED <<op, ret, device, system, handlerVars, fwq, nreq, ncalls>>

(* iwl_mvm_send_cmd_pdu: the command may reach the firmware or not. *)
Send(t) ==
  /\ pc[t] = "send"
  /\ nreq' = nreq + 1
  /\ \/ /\ fwq' = fwq \cup {[req |-> nreq + 1, op |-> op[t]]}
        /\ pc' = [pc EXCEPT ![t] = "sent"]
     \/ UNCHANGED fwq /\ pc' = [pc EXCEPT ![t] = "unsent"]
  /\ UNCHANGED <<op, sleep_cnt, ret, device, system, flag, lock, handlerVars,
                 ncalls, answered, overlap>>

(* It returns 0 ... *)
SendOk(t) ==
  /\ pc[t] = "sent"
  /\ pc' = [pc EXCEPT ![t] = "wait"]
  /\ UNCHANGED <<op, sleep_cnt, ret, device, system, flag, lock, handlerVars,
                 fwq, nreq, ncalls, answered, overlap>>

(* The operation is over: ready for the next one.  The mutated form leaves *)
(* the flag as it is.                                                      *)
ReleaseLockOnly == lock' = {} /\ UNCHANGED flag
Release == flag' = 0 /\ lock' = {}

(* ... or an error, possibly although the firmware has the command (the    *)
(* wait for the response timed out).                                       *)
SendFails(t) ==
  /\ pc[t] \in {"sent", "unsent"}
  /\ Release
  /\ Return(t, "fwerror")
  /\ UNCHANGED <<op, sleep_cnt, device, system, handlerVars, fwq, nreq,
                 ncalls, answered, overlap>>

(* The loop that waits, with the lock, for the operation to complete. *)
WaitDone(t) ==
  /\ pc[t] = "wait"
  /\ \/ /\ flag # 2 /\ sleep_cnt[t] = 0
        /\ Release
        /\ Return(t, "timeout")
        /\ UNCHANGED sleep_cnt
     \/ /\ flag # 2 /\ sleep_cnt[t] > 0
        /\ sleep_cnt' = [sleep_cnt EXCEPT ![t] = @ - 1]
        /\ UNCHANGED <<flag, lock, pc, ret>>
     \/ /\ flag = 2
        /\ Release
        /\ pc' = [pc EXCEPT ![t] = "device"]
        /\ UNCHANGED <<ret, sleep_cnt>>
  /\ UNCHANGED <<op, device, system, handlerVars, fwq, nreq, ncalls,
                 answered, overlap>>

(* The values are read after the lock has been released: the device time   *)
(* and, for READ_BOTH, then the system time.                               *)
ReadDevice(t) ==
  /\ pc[t] = "device"
  /\ device' = [device EXCEPT ![t] = GP2_ns]
  /\ IF op[t] = "READ_BOTH"
     THEN pc' = [pc EXCEPT ![t] = "system"] /\ UNCHANGED ret
     ELSE Return(t, "ok")
  /\ UNCHANGED <<op, sleep_cnt, system, flag, lock, handlerVars, fwq, nreq,
                 ncalls, answered, overlap>>

ReadSystem(t) ==
  /\ pc[t] = "system"
  /\ system' = [system EXCEPT ![t] = ART_ns]
  /\ Return(t, "ok")
  /\ UNCHANGED <<op, sleep_cnt, device, flag, lock, handlerVars, fwq, nreq,
                 ncalls, answered, overlap>>

-----------------------------------------------------------------------------
(* iwl_mvm_get_correlated_time_notif, called by the RX path as soon as the *)
(* answer is there: it stores GP2, then ART, then sets the flag.  With an  *)
(* error status (bad) it stores zeroes and sets the flag all the same.     *)
NotifGP2 ==
  /\ rxpc = "idle"
  /\ \E a \in fwq, bad \in BOOLEAN :
       /\ fwq' = fwq \ {a}
       /\ rx' = {[req |-> a.req, op |-> a.op, bad |-> bad]}
       /\ GP2_ns' = IF bad THEN 0 ELSE a.req
  /\ rxpc' = "art"
  /\ UNCHANGED <<threadVars, flag, lock, ART_ns, nreq, ncalls, answered,
                 overlap>>

NotifART ==
  /\ rxpc = "art"
  /\ \E a \in rx :
       ART_ns' = IF a.bad THEN 0
                 ELSE IF a.op = "READ_BOTH" THEN a.req ELSE ART_ns
  /\ rxpc' = "done"
  /\ UNCHANGED <<threadVars, flag, lock, GP2_ns, rx, fwq, nreq, ncalls,
                 answered, overlap>>

NotifDone ==
  /\ rxpc = "done"
  /\ flag' = 2
  /\ rx' = {}
  /\ rxpc' = "idle"
  /\ answered' = [t \in Threads |-> answered[t] \/ t \in lock]
  /\ UNCHANGED <<threadVars, lock, GP2_ns, ART_ns, fwq, nreq, ncalls,
                 overlap>>

-----------------------------------------------------------------------------
ThreadStep(t) ==
  \/ Call(t)
  \/ WaitFree(t)
  \/ Lock(t)
  \/ Send(t)
  \/ SendOk(t)
  \/ SendFails(t)
  \/ WaitDone(t)
  \/ ReadDevice(t)
  \/ ReadSystem(t)

Next ==
  \/ \E t \in Threads : ThreadStep(t)
  \/ MacStart
  \/ MacStartReset
  \/ NotifGP2
  \/ NotifART
  \/ NotifDone

(* No fairness: a reader sleeps (the response of a synchronous command,    *)
(* msleep) with systim_lock held and interrupts off, and another one spins *)
(* for the lock, so nothing obliges a thread to go on.                     *)
Spec == Init /\ [][Next]_vars

-----------------------------------------------------------------------------
PCs == {"idle", "free", "lock", "send", "sent", "unsent", "wait", "device",
        "system", "reset"}

(* A thread between spin_lock_irqsave and spin_unlock_irqrestore. *)
Critical(t) == pc[t] \in {"send", "sent", "unsent", "wait"}

(* Type invariant: in particular no wait sleeps more often than it may.    *)
TypeOK ==
  /\ pc \in [Threads -> PCs]
  /\ op \in [Threads -> Ops]
  /\ sleep_cnt \in [Threads -> 0..MAX_FW_WAIT_COUNT]
  /\ ret \in [Threads -> Rets]
  /\ device \in [Threads -> Nat]
  /\ system \in [Threads -> Nat]
  /\ flag \in 0..2
  /\ lock \subseteq Threads
  /\ GP2_ns \in Nat
  /\ ART_ns \in Nat
  /\ fwq \subseteq [req : Nat, op : Ops]
  /\ rx \subseteq [req : Nat, op : Ops, bad : BOOLEAN]
  /\ rxpc \in {"idle", "art", "done"}
  /\ nreq \in Nat
  /\ ncalls \in 0..MaxCalls
  /\ answered \in [Threads -> BOOLEAN]
  /\ overlap \in [Threads -> BOOLEAN]

(* The flag says "pending" only while the thread that set it is inside the *)
(* critical section of its request: every error path, and an unlocked      *)
(* restart, leaves no pending operation behind, and two threads that both  *)
(* found the flag free never have a request pending together.              *)
PendingIsOwned ==
  /\ flag = 1 => \E t \in Threads : Critical(t)
  /\ \A t, u \in Threads : Critical(t) /\ Critical(u) => t = u

(* A call succeeds only if the firmware completed an answer after the call *)
(* had taken the lock: an answer to an earlier request that set the flag   *)
(* between the check and the lock is never taken for the answer.           *)
SuccessIsFresh ==
  \A t \in Threads : pc[t] \in {"device", "system"} \/ ret[t] = "ok"
                       => answered[t]

-----------------------------------------------------------------------------
(* The inductive invariant of the proofs in PhcHandshakeProof. *)
LockOwner == \A t \in Threads : t \in lock <=> Critical(t)
OneOwner == \A t, u \in lock : t = u
FlagOwner == flag = 1 => lock # {}
DoneWasAnswered ==
  \A t \in Threads : Critical(t) /\ flag = 2 => answered[t]
RunningHasNoResult ==
  \A t \in Threads : ret[t] = "ok" => pc[t] \in {"idle", "reset"}

(* The holder of systim_lock is the thread in its critical section, a      *)
(* pending flag needs a holder, and a completed one found by the holder    *)
(* was completed since it took the lock.                                   *)
IInv ==
  /\ TypeOK
  /\ LockOwner
  /\ OneOwner
  /\ FlagOwner
  /\ DoneWasAnswered
  /\ RunningHasNoResult
  /\ SuccessIsFresh

-----------------------------------------------------------------------------
(* What the comments promise and the handshake does not keep.              *)

(* "@system: system counter value read synchronously with device time":    *)
(* the two values a cross timestamp returns come from one answer.          *)
ReadSynchronously ==
  \A t \in Readers :
    ret[t] = "ok" /\ op[t] = "READ_BOTH" => device[t] = system[t]

(* "wait for any pending firmware operations to complete": a call gives up *)
(* in that wait only if an operation was in progress at some time of it.   *)
BusyIsReal == \A t \in Readers : ret[t] = "busy" => overlap[t]
=============================================================================
