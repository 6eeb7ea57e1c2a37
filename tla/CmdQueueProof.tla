---------------------------- MODULE CmdQueueProof ----------------------------
(***************************************************************************)
(* Proofs about CmdQueue for every ring, window, set of kinds and number   *)
(* of calls; where a bound on faults matters the theorem says so.  The     *)
(* second half needs the two index spaces of the ring: the positions,      *)
(* modulo QueueSize, and the entries behind them, modulo Window.           *)
(***************************************************************************)
EXTENDS CmdQueue, TLAPS

\* The two locks do their work: of the synchronous calls under the mutex there
\* is one at a time, and of those of the PTP clock.
TwoLocks ==
  \A c, d \in Calls :
    InSync(c) /\ InSync(d) /\ ("NO_MUTEX" \in kind[c] <=> "NO_MUTEX" \in kind[d])
      => c = d

\* Asynchronous calls neither wait nor set the active bit.
AsyncPath ==
  \A c \in Calls : pc[c] \in {"send", "wait", "nmi", "check", "cancel"}
                     => "ASYNC" \notin kind[c]

\* The active bit belongs to a synchronous call that is enqueueing or waiting.
ActiveOwned ==
  "SYNC_HCMD_ACTIVE" \in status =>
    \E c \in Calls : pc[c] \in {"enqueue", "wait"} /\ "ASYNC" \notin kind[c]

\* The invariant RefusedForAnother is proved with.
ActiveInv == TypeOK /\ TwoLocks /\ AsyncPath /\ ActiveOwned

-----------------------------------------------------------------------------
(* Type correctness.                                                       *)

\* Positions of the ring and indices of entries stay in range.
LEMMA Ranges ==
  /\ \A i \in Int : i % QueueSize \in Positions
  /\ \A i \in Int : i % Window \in Slots
  /\ Positions \subseteq Int /\ Slots \subseteq Int
  /\ 0 \in Positions /\ 0 \in Slots
  /\ None \notin Calls
BY CmdQueueAssumption DEF Calls, None, Positions, Slots

\* The entry a call fills in has the type of an entry.
LEMMA FilledType ==
  ASSUME TypeOK, NEW c \in Calls
  PROVE  Filled(c) \in Entry /\ Source(c) \in CallOrNone
BY DEF Filled, Source, TypeOK, Entry, CallOrNone

\* Changing one field of an entry leaves it an entry.
LEMMA EntryField ==
  ASSUME NEW e \in Entry, NEW x \in CallOrNone, NEW fl \in SUBSET Flags
  PROVE  /\ [e EXCEPT !.free_buf = x] \in Entry
         /\ [e EXCEPT !.flags = fl] \in Entry
         /\ \A c \in CallOrNone :
              [e EXCEPT !.call = c, !.flags = fl, !.source = x] \in Entry
         /\ e.flags \in SUBSET Flags /\ e.source \in CallOrNone
BY DEF Entry

\* The initial state is well typed.
LEMMA InitType == Init => TypeOK
<1>1. NoCmd \in Entry
  BY DEF NoCmd, Entry, CallOrNone
<1>2. RxIdle \in [pc : {"idle", "taken", "locked"}, index : Positions,
                  call : CallOrNone, source : CallOrNone]
      /\ RxIdle.pc = "idle"
  BY Ranges DEF RxIdle, CallOrNone
<1>3. Init => /\ sent \in Seq(Message) /\ status \subseteq StatusBits
              /\ entries \in [Slots -> Entry]
  BY <1>1 DEF Init, Slots
<1>4. Init => /\ pc \in [Calls -> Places] /\ kind \in [Calls -> SUBSET Flags]
              /\ cmd_idx \in [Calls -> Slots] /\ resp \in [Calls -> CallOrNone]
              /\ ret \in [Calls -> Errors \cup {"none", "0"}]
  BY Ranges DEF Init, CallOrNone, Places
<1> QED
  BY <1>2, <1>3, <1>4, Ranges DEF Init, TypeOK

\* What the steps of a sender change stays well typed.
LEMMA SenderType ==
  ASSUME TypeOK, NEW c \in Calls, iwl_trans_send_cmd(c) \/ CallStep(c)
  PROVE  TypeOK'
<1>1. CASE iwl_trans_send_cmd(c)
  <2>1. PICK fl \in Kinds :
          /\ kind' = [kind EXCEPT ![c] = fl]
          /\ \/ Return(c, Refusal(fl))
             \/ \E p \in {"enqueue", "send"} : pc' = [pc EXCEPT ![c] = p]
                                               /\ ret' = ret
    BY <1>1 DEF iwl_trans_send_cmd
  <2>2. fl \in SUBSET Flags /\ Refusal(fl) \in Errors \cup {"none"}
    BY CmdQueueAssumption DEF Refusal, Errors
  <2>3. kind' \in [Calls -> SUBSET Flags]
    BY <2>1, <2>2 DEF TypeOK
  <2>4. pc' \in [Calls -> Places] /\ ret' \in [Calls -> Errors \cup {"none", "0"}]
    BY <2>1, <2>2 DEF TypeOK, Return, Places
  <2>5. disturbed' \subseteq Calls
    <3>1. DisturbedBy(c) \subseteq Calls
      BY Zenon DEF DisturbedBy
    <3>2. disturbed' \in {disturbed, disturbed \cup DisturbedBy(c)}
      BY <1>1 DEF iwl_trans_send_cmd
    <3> QED
      BY <3>1, <3>2 DEF TypeOK
  <2> QED
    BY <1>1, <2>3, <2>4, <2>5 DEF TypeOK, iwl_trans_send_cmd, ringVars
<1>2. CASE send_hcmd_sync(c)
  BY <1>2 DEF TypeOK, send_hcmd_sync, Return, ringVars, histVars, Errors,
              StatusBits, Places
<1>3. CASE iwl_pcie_enqueue_hcmd(c)
  <2>1. Slot \in Slots /\ iwl_queue_inc_wrap(write_ptr) \in Positions
    <3>1. write_ptr \in Int
      BY Ranges DEF TypeOK
    <3> QED
      BY <3>1, Ranges DEF Slot, iwl_pcie_get_cmd_index, iwl_queue_inc_wrap
  <2>2. ASSUME NEW r \in Errors, EnqueueFails(c, r)
        PROVE  /\ pc' \in [Calls -> Places]
               /\ ret' \in [Calls -> Errors \cup {"none", "0"}]
               /\ status' \subseteq StatusBits
               /\ UNCHANGED <<read_ptr, write_ptr, hold, sent, cmd_idx>>
    BY <2>2 DEF EnqueueFails, Return, TypeOK, Places
  <2>3. CASE NoSpace(c)
    BY <1>3, <2>2, <2>3 DEF NoSpace, TypeOK, iwl_pcie_enqueue_hcmd, histVars,
                            Errors
  <2>4. CASE MapFails(c)
    <3>1. entries[Slot] \in Entry /\ c \in CallOrNone
      BY <2>1 DEF TypeOK, CallOrNone
    <3>2. [entries[Slot] EXCEPT !.call = c, !.flags = {}, !.source = Source(c)]
            \in Entry
      BY <3>1, FilledType, EntryField
    <3>3. entries' \in [Slots -> Entry]
      BY <2>1, <2>4, <3>2 DEF MapFails, TypeOK
    <3> QED
      BY <1>3, <2>2, <2>4, <3>3 DEF MapFails, TypeOK, iwl_pcie_enqueue_hcmd,
                                    histVars, Errors
  <2>5. CASE InFlightFails(c)
    <3>1. entries' \in [Slots -> Entry]
      BY <2>1, <2>5, FilledType DEF InFlightFails, TypeOK
    <3> QED
      BY <1>3, <2>2, <2>5, <3>1 DEF InFlightFails, TypeOK,
                                    iwl_pcie_enqueue_hcmd, histVars, Errors
  <2>6. CASE Enqueued(c)
    <3>1. entries' \in [Slots -> Entry]
      BY <2>1, <2>6, FilledType DEF Enqueued, TypeOK
    <3>2. sent' \in Seq(Message)
      <4>1. [index |-> write_ptr, call |-> c] \in Message
        BY DEF Message, TypeOK
      <4> QED
        BY <2>6, <4>1 DEF Enqueued, TypeOK
    <3>3. hold' \in BOOLEAN
      BY <2>6, CmdQueueAssumption DEF Enqueued, TypeOK
    <3>4. pc' \in [Calls -> Places] /\ ret' \in [Calls -> Errors \cup {"none", "0"}]
      BY <2>6 DEF Enqueued, Return, TypeOK, Places
    <3> QED
      BY <1>3, <2>1, <2>6, <3>1, <3>2, <3>3, <3>4
         DEF Enqueued, TypeOK, iwl_pcie_enqueue_hcmd, histVars
  <2> QED
    BY <1>3, <2>3, <2>4, <2>5, <2>6 DEF iwl_pcie_enqueue_hcmd
<1>4. CASE Woken(c)
  BY <1>4 DEF TypeOK, Woken, ringVars, histVars, Places
<1>5. CASE TimesOut(c)
  BY <1>5 DEF TypeOK, TimesOut, ringVars, histVars, Errors, Places
<1>6. CASE iwl_trans_pcie_sync_nmi(c)
  BY <1>6 DEF TypeOK, iwl_trans_pcie_sync_nmi, ringVars, histVars, StatusBits,
              Places
<1>7. CASE Check(c)
  <2>1. Verdict(c) \in Errors \cup {"none"}
    BY DEF Verdict, Errors
  <2> QED
    BY <1>7, <2>1 DEF TypeOK, Check, Return, ringVars, histVars, Places
<1>8. CASE Cancel(c)
  <2>1. entries' \in [Slots -> Entry]
    <3>1. entries[cmd_idx[c]] \in Entry /\ None \in CallOrNone
      BY DEF TypeOK, CallOrNone
    <3>2. [entries[cmd_idx[c]] EXCEPT
             !.flags = entries[cmd_idx[c]].flags \ {"WANT_SKB"}] \in Entry
      BY <3>1, EntryField
    <3> QED
      BY <1>8, <3>2 DEF TypeOK, Cancel
  <2> QED
    BY <1>8, <2>1 DEF TypeOK, Cancel, Return, histVars, CallOrNone, Places
<1> QED
  BY <1>1, <1>2, <1>3, <1>4, <1>5, <1>6, <1>7, <1>8 DEF CallStep

\* What the receive handler changes stays well typed.
LEMMA ReceiveType == ASSUME TypeOK, RxStep PROVE TypeOK'
<1>1. CASE iwl_pcie_rx_handle_rb
  <2>1. Head(sent) \in Message /\ Tail(sent) \in Seq(Message)
    BY <1>1 DEF iwl_pcie_rx_handle_rb, TypeOK
  <2>2. Head(sent).index \in Positions /\ Head(sent).call \in Calls
    BY <2>1 DEF Message
  <2>3. iwl_pcie_get_cmd_index(Head(sent).index) \in Slots
    BY <2>2, Ranges DEF iwl_pcie_get_cmd_index
  <2>4. entries' \in [Slots -> Entry]
    <3> DEFINE i == iwl_pcie_get_cmd_index(Head(sent).index)
    <3>1. [entries[i] EXCEPT !.free_buf = None] \in Entry
      BY <2>3, EntryField DEF TypeOK, CallOrNone
    <3> QED
      BY <1>1, <2>3, <3>1 DEF iwl_pcie_rx_handle_rb, TypeOK
  <2> QED
    BY <1>1, <2>1, <2>2, <2>4 DEF iwl_pcie_rx_handle_rb, TypeOK, callVars,
                                  histVars, CallOrNone
<1>2. CASE hcmd_complete_lock
  <2>1. entries[iwl_pcie_get_cmd_index(rx.index)] \in Entry
    BY Ranges DEF TypeOK, iwl_pcie_get_cmd_index
  <2>2. entries[iwl_pcie_get_cmd_index(rx.index)].source \in CallOrNone
    BY <2>1 DEF Entry
  <2> QED
    BY <1>2, <2>2 DEF hcmd_complete_lock, TypeOK, ringVars, callVars, histVars,
                      CallOrNone
<1>3. CASE hcmd_complete
  <2>1. /\ iwl_pcie_get_cmd_index(rx.index) \in Slots
        /\ iwl_pcie_get_cmd_index(read_ptr) \in Int
        /\ iwl_pcie_get_cmd_index(rx.index) \in Int
    BY Ranges DEF TypeOK, iwl_pcie_get_cmd_index
  <2>2. read_ptr' \in Positions /\ hold' \in BOOLEAN
    <3>1. Freed(rx.index) \in Int /\ read_ptr \in Int
      <4>1. \A i \in Int : iwl_queue_inc_wrap(i) \in Int
        BY CmdQueueAssumption DEF iwl_queue_inc_wrap
      <4>2. Freed(rx.index) \in Int
        BY <2>1, <4>1, CmdQueueAssumption DEF Freed
      <4> QED
        BY <4>2, Ranges DEF TypeOK
    <3>2. ReadPtrAfter(rx.index) \in Positions
      BY <3>1, Ranges DEF ReadPtrAfter
    <3> QED
      BY <1>3, <3>2 DEF hcmd_complete, iwl_pcie_cmdq_reclaim, TypeOK
  <2>3. entries' \in [Slots -> Entry]
    <3> DEFINE i == iwl_pcie_get_cmd_index(rx.index)
    <3>1. [entries[i] EXCEPT !.flags = {}] \in Entry
      BY <2>1, EntryField DEF TypeOK, CallOrNone
    <3> QED
      BY <1>3, <2>1, <3>1 DEF hcmd_complete, TypeOK
  <2>4. rx.call \in Calls /\ rx.source \in CallOrNone
    BY <1>3 DEF hcmd_complete, TypeOK
  <2>5. resp' \in [Calls -> CallOrNone]
    BY <1>3, <2>4 DEF hcmd_complete, TypeOK, CallOrNone
  <2>6. /\ rx' \in [pc : {"idle", "taken", "locked"}, index : Positions,
                   call : CallOrNone, source : CallOrNone]
        /\ rx'.pc = "idle"
    BY <1>3, Ranges DEF hcmd_complete, RxIdle, CallOrNone
  <2>7. wild' \in BOOLEAN
    BY <1>3 DEF hcmd_complete, TypeOK
  <2>8. answered' \subseteq Calls /\ status' \subseteq StatusBits
    BY <1>3, <2>4 DEF hcmd_complete, TypeOK
  <2> QED
    BY <1>3, <2>2, <2>3, <2>5, <2>6, <2>7, <2>8 DEF hcmd_complete, TypeOK
<1> QED
  BY <1>1, <1>2, <1>3 DEF RxStep

\* What interrupts, stop and start change stays well typed.
LEMMA DeviceType ==
  ASSUME TypeOK,
         \/ SkipAnswer \/ irq_handle_error \/ irq_error_wake
         \/ iwl_pcie_handle_rfkill_irq \/ TransDead \/ stop_device \/ start_fw
  PROVE  TypeOK'
<1> USE DEF ringVars, callVars, histVars
<1>1. CASE SkipAnswer
  <2>1. Tail(sent) \in Seq(Message)
    <3>1. sent # <<>>
      BY <1>1 DEF SkipAnswer
    <3> QED
      BY <3>1 DEF TypeOK
  <2> QED
    BY <1>1, <2>1 DEF SkipAnswer, TypeOK
<1>2. CASE irq_handle_error
  BY <1>2 DEF irq_handle_error, TypeOK, StatusBits
<1>3. CASE irq_error_wake
  BY <1>3 DEF irq_error_wake, TypeOK
<1>4. CASE iwl_pcie_handle_rfkill_irq
  BY <1>4 DEF iwl_pcie_handle_rfkill_irq, rfkill_on, rfkill_off, TypeOK, StatusBits
<1>5. CASE TransDead
  BY <1>5 DEF TransDead, TypeOK, StatusBits
<1>6. CASE stop_device
  <2>1. sent' \in Seq(Message) /\ hold' \in BOOLEAN /\ status' \subseteq StatusBits
    BY <1>6 DEF stop_device, TypeOK
  <2> QED
    BY <1>6, <2>1 DEF stop_device, TypeOK
<1>7. CASE start_fw
  BY <1>7, Ranges DEF start_fw, TypeOK
<1> QED
  BY <1>1, <1>2, <1>3, <1>4, <1>5, <1>6, <1>7

\* Every step keeps the state well typed.
LEMMA StepType == ASSUME TypeOK, [Next]_vars PROVE TypeOK'
<1>1. CASE UNCHANGED vars
  BY <1>1 DEF vars, ringVars, callVars, histVars, TypeOK
<1>2. CASE Next
  BY <1>2, SenderType, ReceiveType, DeviceType DEF Next
<1> QED
  BY <1>1, <1>2

\* The state of the command queue keeps its type (iwl_pcie_txq_entry,
\* iwl_trans_status, the ring pointers), for every ring and window.
THEOREM TypeCorrect == Spec => []TypeOK
<1>1. Init => TypeOK
  BY InitType
<1>2. TypeOK /\ [Next]_vars => TypeOK'
  BY StepType
<1> QED
  BY <1>1, <1>2, PTL DEF Spec

-----------------------------------------------------------------------------
(* The NIC is awake while commands are pending.                            *)

\* A queue whose pointers are equal has no used position.
LEMMA EmptyIsUnused ==
  ASSUME TypeOK, NEW i \in Positions, read_ptr = write_ptr
  PROVE  ~iwl_queue_used(i)
<1>1. /\ iwl_pcie_get_cmd_index(i) \in Int
      /\ iwl_pcie_get_cmd_index(read_ptr) \in Int
  BY Ranges DEF iwl_pcie_get_cmd_index, TypeOK
<1> QED
  BY <1>1 DEF iwl_queue_used

\* The NIC is held awake while the command queue is not empty
\* (iwl_pcie_set_cmd_in_flight, iwl_pcie_clear_cmd_in_flight).
THEOREM AwakeCorrect == Spec => []PendingKeepsAwake
<1>1. Init => PendingKeepsAwake
  BY DEF Init, PendingKeepsAwake
<1>2. ASSUME TypeOK, PendingKeepsAwake, [Next]_vars
      PROVE  PendingKeepsAwake'
  <2>0. SUFFICES ASSUME ApmgWakeUpWa, (read_ptr # write_ptr)'
                 PROVE  hold'
    BY DEF PendingKeepsAwake
  <2>1. CASE UNCHANGED <<read_ptr, write_ptr, hold>>
    BY <1>2, <2>0, <2>1 DEF PendingKeepsAwake
  <2>2. ASSUME NEW c \in Calls, iwl_trans_send_cmd(c) \/ CallStep(c)
        PROVE  hold'
    <3>1. CASE iwl_pcie_enqueue_hcmd(c)
      <4>1. CASE Enqueued(c)
        BY <2>0, <4>1 DEF Enqueued
      <4>2. CASE NoSpace(c) \/ MapFails(c) \/ InFlightFails(c)
        BY <2>1, <4>2 DEF NoSpace, MapFails, InFlightFails, EnqueueFails
      <4> QED
        BY <3>1, <4>1, <4>2 DEF iwl_pcie_enqueue_hcmd
    <3>2. CASE ~iwl_pcie_enqueue_hcmd(c)
      BY <2>1, <2>2, <3>2
         DEF CallStep, iwl_trans_send_cmd, send_hcmd_sync, Woken, TimesOut,
             iwl_trans_pcie_sync_nmi, Check, Cancel, ringVars
    <3> QED
      BY <3>1, <3>2
  <2>3. CASE RxStep
    <3>1. CASE hcmd_complete
      <4>1. rx.index \in Positions
        BY <1>2 DEF TypeOK
      <4>2. CASE iwl_queue_used(rx.index)
        <5>1. read_ptr # write_ptr
          BY <1>2, <4>1, <4>2, EmptyIsUnused
        <5> QED
          BY <1>2, <2>0, <3>1, <4>2, <5>1
             DEF hcmd_complete, iwl_pcie_cmdq_reclaim, PendingKeepsAwake
      <4>3. CASE ~iwl_queue_used(rx.index)
        BY <2>1, <3>1, <4>3 DEF hcmd_complete, iwl_pcie_cmdq_reclaim
      <4> QED
        BY <4>2, <4>3
    <3>2. CASE ~hcmd_complete
      BY <2>1, <2>3, <3>2
         DEF RxStep, iwl_pcie_rx_handle_rb, hcmd_complete_lock, ringVars
    <3> QED
      BY <3>1, <3>2
  <2>4. CASE stop_device \/ start_fw
    BY <2>0, <2>4 DEF stop_device, start_fw
  <2>5. CASE \/ SkipAnswer \/ irq_handle_error \/ irq_error_wake
             \/ iwl_pcie_handle_rfkill_irq \/ TransDead \/ UNCHANGED vars
    BY <2>1, <2>5
       DEF SkipAnswer, irq_handle_error, irq_error_wake, TransDead,
           iwl_pcie_handle_rfkill_irq, vars, ringVars
  <2> QED
    BY <1>2, <2>2, <2>3, <2>4, <2>5 DEF Next
<1> QED
  BY <1>1, <1>2, TypeCorrect, PTL DEF Spec

-----------------------------------------------------------------------------
(* The active bit.                                                         *)

\* A step of a sender changes the state of its own call only.
LEMMA SenderFrame ==
  ASSUME TypeOK, NEW c \in Calls, iwl_trans_send_cmd(c) \/ CallStep(c)
  PROVE  /\ \A d \in Calls : d # c =>
              /\ pc'[d] = pc[d] /\ kind'[d] = kind[d] /\ ret'[d] = ret[d]
              /\ resp'[d] = resp[d]
         /\ CallStep(c) => /\ kind' = kind /\ disturbed' = disturbed
                           /\ pc[c] \notin {"idle", "done"}
         /\ state' = state /\ rx' = rx /\ answered' = answered
<1> USE DEF TypeOK
<1>1. CASE iwl_trans_send_cmd(c)
  BY <1>1 DEF iwl_trans_send_cmd, Return, histVars, CallStep, send_hcmd_sync,
              iwl_pcie_enqueue_hcmd, Woken, TimesOut, iwl_trans_pcie_sync_nmi,
              Check, Cancel
<1>2. CASE send_hcmd_sync(c)
  BY <1>2 DEF send_hcmd_sync, Return, histVars
<1>3. CASE iwl_pcie_enqueue_hcmd(c)
  BY <1>3 DEF iwl_pcie_enqueue_hcmd, NoSpace, MapFails, InFlightFails, Enqueued,
              EnqueueFails, Return, histVars
<1>4. CASE Woken(c) \/ TimesOut(c) \/ iwl_trans_pcie_sync_nmi(c) \/ Check(c)
  BY <1>4 DEF Woken, TimesOut, iwl_trans_pcie_sync_nmi, Check, Return, histVars
<1>5. CASE Cancel(c)
  BY <1>5 DEF Cancel, Return, histVars
<1> QED
  BY <1>1, <1>2, <1>3, <1>4, <1>5 DEF CallStep

\* The steps that are no sender's leave the calls alone.
LEMMA OtherFrame ==
  ASSUME [Next]_vars, ~\E c \in Calls : iwl_trans_send_cmd(c) \/ CallStep(c)
  PROVE  UNCHANGED <<pc, kind, ret>> /\ (hcmd_complete \/ UNCHANGED resp)
BY DEF Next, RxStep, iwl_pcie_rx_handle_rb, hcmd_complete_lock, hcmd_complete,
       SkipAnswer, irq_handle_error, irq_error_wake,
       iwl_pcie_handle_rfkill_irq, TransDead, stop_device, start_fw, vars,
       callVars

\* Steps that leave the calls alone and do not set the bit keep the parts of
\* the invariant.
LEMMA BitOnlyCleared ==
  ASSUME ActiveInv, UNCHANGED <<pc, kind>>,
         "SYNC_HCMD_ACTIVE" \in status' => "SYNC_HCMD_ACTIVE" \in status
  PROVE  (TwoLocks /\ AsyncPath /\ ActiveOwned)'
BY DEF ActiveInv, TwoLocks, InSync, AsyncPath, ActiveOwned

\* A sender takes the lock of its kind when it is accepted, and leaves the
\* enqueue or the wait only with the bit clear: it may have been another's.
LEMMA SenderActive ==
  ASSUME ActiveInv, NEW c \in Calls, iwl_trans_send_cmd(c) \/ CallStep(c)
  PROVE  (TwoLocks /\ AsyncPath /\ ActiveOwned)'
<1> USE DEF ActiveInv
<1>0. pc \in [Calls -> Places] /\ kind \in [Calls -> SUBSET Flags]
  BY DEF TypeOK
<1>1. CASE iwl_trans_send_cmd(c)
  <2>1. PICK fl \in Kinds :
          /\ \/ "ASYNC" \in fl
             \/ "NO_MUTEX" \in fl /\ SystimLockFree
             \/ "NO_MUTEX" \notin fl /\ MutexFree
          /\ kind' = [kind EXCEPT ![c] = fl]
          /\ \/ Return(c, Refusal(fl))
             \/ pc' = [pc EXCEPT ![c] = IF "ASYNC" \in fl
                                          THEN "enqueue" ELSE "send"]
    BY <1>1 DEF iwl_trans_send_cmd
  <2>2. pc[c] = "idle" /\ status' = status
    BY <1>1 DEF iwl_trans_send_cmd
  <2>3. \A d \in Calls : d # c => pc'[d] = pc[d] /\ kind'[d] = kind[d]
    BY <1>0, <2>1 DEF Return
  <2>4. /\ pc'[c] \in {"done", "enqueue", "send"} /\ kind'[c] = fl
        /\ pc'[c] = "enqueue" => "ASYNC" \in fl
        /\ pc'[c] = "send" => "ASYNC" \notin fl
    BY <1>0, <2>1 DEF Return
  <2>5. ASSUME NEW d \in Calls, d # c, InSync(c)', InSync(d)'
        PROVE  ~("NO_MUTEX" \in kind'[c] <=> "NO_MUTEX" \in kind'[d])
    BY <2>1, <2>3, <2>4, <2>5 DEF InSync, MutexFree, SystimLockFree
  <2>6. TwoLocks'
    <3>1. \A d \in Calls : d # c => (InSync(d)' <=> InSync(d))
      BY <2>3 DEF InSync
    <3> QED
      BY <2>3, <2>5, <3>1 DEF TwoLocks
  <2>7. AsyncPath'
    BY <2>3, <2>4 DEF AsyncPath
  <2>8. ActiveOwned'
    BY <2>2, <2>3 DEF ActiveOwned
  <2> QED
    BY <2>6, <2>7, <2>8
<1>2. ASSUME NEW p \in Places \ {"idle"},
             pc' = [pc EXCEPT ![c] = p], kind' = kind,
             pc[c] \notin {"idle", "done"},
             "ASYNC" \in kind[c] => p = "done",
             p \in {"enqueue", "wait"} \/ "SYNC_HCMD_ACTIVE" \notin status'
               \/ (status' \ {"FW_ERROR"} = status \ {"FW_ERROR"}
                     /\ ("ASYNC" \in kind[c] \/ pc[c] \notin {"enqueue", "wait"}))
      PROVE  (TwoLocks /\ AsyncPath /\ ActiveOwned)'
  <2>1. \A d \in Calls : InSync(d)' => InSync(d)
    BY <1>0, <1>2 DEF InSync
  <2>2. TwoLocks'
    BY <1>2, <2>1 DEF TwoLocks
  <2>3. AsyncPath'
    BY <1>0, <1>2 DEF AsyncPath
  <2>4. ActiveOwned'
    <3>1. CASE p \in {"enqueue", "wait"}
      BY <1>0, <1>2, <3>1 DEF ActiveOwned
    <3>2. CASE "SYNC_HCMD_ACTIVE" \notin status'
      BY <3>2 DEF ActiveOwned
    <3>3. CASE /\ status' \ {"FW_ERROR"} = status \ {"FW_ERROR"}
               /\ "ASYNC" \in kind[c] \/ pc[c] \notin {"enqueue", "wait"}
      <4>1. SUFFICES ASSUME "SYNC_HCMD_ACTIVE" \in status'
                     PROVE  \E d \in Calls : /\ pc'[d] \in {"enqueue", "wait"}
                                             /\ "ASYNC" \notin kind'[d]
        BY DEF ActiveOwned
      <4>2. PICK d \in Calls : /\ pc[d] \in {"enqueue", "wait"}
                               /\ "ASYNC" \notin kind[d]
        BY <3>3, <4>1 DEF ActiveOwned
      <4> QED
        BY <1>0, <1>2, <3>3, <4>2
    <3> QED
      BY <1>2, <3>1, <3>2, <3>3
  <2> QED
    BY <2>2, <2>3, <2>4
<1>3. CASE send_hcmd_sync(c)
  <2>1. "ASYNC" \notin kind[c] /\ pc[c] = "send" /\ kind' = kind
    BY <1>3 DEF send_hcmd_sync, AsyncPath
  <2>2. PICK p \in {"done", "enqueue"} :
          /\ pc' = [pc EXCEPT ![c] = p]
          /\ p = "done" => status' = status
    BY <1>3 DEF send_hcmd_sync, Return
  <2> QED
    BY <1>2, <2>1, <2>2 DEF Places
<1>4. CASE iwl_pcie_enqueue_hcmd(c)
  <2>0. pc[c] = "enqueue" /\ kind' = kind
    BY <1>4 DEF iwl_pcie_enqueue_hcmd
  <2>1. ASSUME NEW r, EnqueueFails(c, r)
        PROVE  (TwoLocks /\ AsyncPath /\ ActiveOwned)'
    <3>1. /\ pc' = [pc EXCEPT ![c] = "done"]
          /\ status' = status \/ "SYNC_HCMD_ACTIVE" \notin status'
          /\ "ASYNC" \notin kind[c] => "SYNC_HCMD_ACTIVE" \notin status'
      BY <2>1 DEF EnqueueFails, Return
    <3> QED
      BY <1>2, <2>0, <3>1 DEF Places
  <2>2. CASE NoSpace(c) \/ MapFails(c) \/ InFlightFails(c)
    BY <2>1, <2>2 DEF NoSpace, MapFails, InFlightFails
  <2>3. CASE Enqueued(c)
    <3>1. /\ pc' = [pc EXCEPT ![c] = IF "ASYNC" \in kind[c] THEN "done" ELSE "wait"]
          /\ status' = status
      BY <2>3 DEF Enqueued, Return
    <3> QED
      BY <1>2, <2>0, <3>1 DEF Places
  <2> QED
    BY <1>4, <2>2, <2>3 DEF iwl_pcie_enqueue_hcmd
<1>5. CASE \/ Woken(c) \/ TimesOut(c) \/ iwl_trans_pcie_sync_nmi(c)
           \/ Check(c) \/ Cancel(c)
  <2>1. /\ pc[c] \in {"wait", "nmi", "check", "cancel"} /\ kind' = kind
        /\ \E p \in {"check", "nmi", "cancel", "done"} : pc' = [pc EXCEPT ![c] = p]
        /\ pc[c] = "wait" => "SYNC_HCMD_ACTIVE" \notin status'
        /\ pc[c] # "wait" => status' \ {"FW_ERROR"} = status \ {"FW_ERROR"}
    BY <1>5 DEF Woken, TimesOut, iwl_trans_pcie_sync_nmi, Check, Cancel, Return
  <2>2. "ASYNC" \notin kind[c]
    BY <2>1 DEF AsyncPath
  <2> QED
    BY <1>2, <2>1, <2>2 DEF Places
<1> QED
  BY <1>1, <1>3, <1>4, <1>5 DEF CallStep

\* The locks, the bit and its owner fit together in every state.
LEMMA ActiveInit == Init => ActiveInv
BY InitType DEF Init, ActiveInv, TwoLocks, InSync, AsyncPath, ActiveOwned

LEMMA ActiveStep == ASSUME ActiveInv, [Next]_vars PROVE ActiveInv'
<1>0. TypeOK'
  BY StepType DEF ActiveInv
<1>1. ASSUME NEW c \in Calls, iwl_trans_send_cmd(c) \/ CallStep(c)
      PROVE  ActiveInv'
  BY <1>0, <1>1, SenderActive DEF ActiveInv
<1>2. CASE RxStep
  <2>1. UNCHANGED <<pc, kind>> /\ status' \subseteq status
    BY <1>2 DEF RxStep, iwl_pcie_rx_handle_rb, hcmd_complete_lock,
                hcmd_complete, callVars
  <2> QED
    BY <1>0, <2>1, BitOnlyCleared DEF ActiveInv
<1>3. CASE \/ SkipAnswer \/ irq_handle_error \/ irq_error_wake
           \/ iwl_pcie_handle_rfkill_irq \/ TransDead \/ stop_device
           \/ start_fw \/ UNCHANGED vars
  <2>1. /\ UNCHANGED <<pc, kind>>
        /\ "SYNC_HCMD_ACTIVE" \in status' => "SYNC_HCMD_ACTIVE" \in status
    BY <1>3 DEF SkipAnswer, irq_handle_error, irq_error_wake, TransDead,
                iwl_pcie_handle_rfkill_irq, rfkill_on, rfkill_off, stop_device,
                start_fw, vars, callVars
  <2> QED
    BY <1>0, <2>1, BitOnlyCleared DEF ActiveInv
<1> QED
  BY <1>1, <1>2, <1>3 DEF Next

\* The test of the bit is the one place that refuses a call for another.
LEMMA RefusedThere ==
  ASSUME TypeOK, [Next]_vars, NEW c \in Calls,
         ret'[c] = "already active", ret[c] # "already active"
  PROVE  send_hcmd_sync(c) /\ "SYNC_HCMD_ACTIVE" \in status
<1>1. iwl_trans_send_cmd(c) \/ CallStep(c)
  <2>1. PICK d \in Calls : iwl_trans_send_cmd(d) \/ CallStep(d)
    BY OtherFrame
  <2> QED
    BY <2>1, SenderFrame
<1>2. iwl_trans_send_cmd(c) => FALSE
  <2>1. SUFFICES ASSUME iwl_trans_send_cmd(c) PROVE FALSE
    OBVIOUS
  <2>2. PICK fl \in Kinds : ret' = ret \/ Return(c, Refusal(fl))
    BY <2>1 DEF iwl_trans_send_cmd
  <2>3. Refusal(fl) # "already active"
    BY DEF Refusal
  <2> QED
    BY <2>2, <2>3 DEF Return, TypeOK
<1>3. iwl_pcie_enqueue_hcmd(c) => FALSE
  BY DEF iwl_pcie_enqueue_hcmd, NoSpace, MapFails, InFlightFails, Enqueued,
         EnqueueFails, Return, TypeOK
<1>4. Woken(c) \/ TimesOut(c) \/ iwl_trans_pcie_sync_nmi(c) \/ Cancel(c) => FALSE
  BY DEF Woken, TimesOut, iwl_trans_pcie_sync_nmi, Cancel, Return, TypeOK
<1>5. Check(c) => FALSE
  BY DEF Check, Verdict, Return, TypeOK
<1>6. send_hcmd_sync(c)
  BY <1>1, <1>2, <1>3, <1>4, <1>5 DEF CallStep
<1> QED
  BY <1>6 DEF send_hcmd_sync

\* A synchronous call finds STATUS_SYNC_HCMD_ACTIVE set (the WARN of
\* iwl_pcie_send_hcmd_sync) only while another one is enqueueing or waiting,
\* and one of the two is of the PTP clock, which does not take the mutex: for
\* every ring and set of kinds, through timeouts, failed enqueues, interrupts
\* and restarts no call leaves the bit behind.
THEOREM ActiveCorrect == Spec => RefusedForAnother
<1>1. ActiveInv /\ [Next]_vars => ActiveInv'
  BY ActiveStep
<1>2. ActiveInv /\ [Next]_vars =>
        [\A c \in Calls :
           ret'[c] = "already active" /\ ret[c] # "already active" =>
             \E d \in Calls \ {c} :
               /\ pc[d] \in {"enqueue", "wait"} /\ "ASYNC" \notin kind[d]
               /\ "NO_MUTEX" \in kind[c] \cup kind[d]]_vars
  <2> SUFFICES ASSUME ActiveInv, [Next]_vars, NEW c \in Calls,
                      ret'[c] = "already active", ret[c] # "already active"
               PROVE  \E d \in Calls \ {c} :
                        /\ pc[d] \in {"enqueue", "wait"} /\ "ASYNC" \notin kind[d]
                        /\ "NO_MUTEX" \in kind[c] \cup kind[d]
    OBVIOUS
  <2>1. pc[c] = "send" /\ "SYNC_HCMD_ACTIVE" \in status
    BY RefusedThere DEF ActiveInv, send_hcmd_sync
  <2>2. PICK d \in Calls : pc[d] \in {"enqueue", "wait"} /\ "ASYNC" \notin kind[d]
    BY <2>1 DEF ActiveInv, ActiveOwned
  <2>3. InSync(c) /\ InSync(d) /\ c # d
    BY <2>1, <2>2 DEF ActiveInv, AsyncPath, InSync
  <2> QED
    BY <2>2, <2>3 DEF ActiveInv, TwoLocks
<1> QED
  BY <1>1, <1>2, ActiveInit, PTL DEF Spec, RefusedForAnother

-----------------------------------------------------------------------------
(* Arithmetic of the two index spaces.                                     *)

\* a and b are positions, or distances, of the same entry.
Congruent(a, b) == \E k \in Int : a - b = Window * k

\* Taking a position modulo the ring or modulo the window keeps its entry:
\* the window divides the ring.
LEMMA CongruentMod ==
  ASSUME NEW x \in Int
  PROVE  Congruent(x % QueueSize, x) /\ Congruent(x % Window, x)
<1>1. (x % Window) - x = Window * (0 - (x \div Window))
  BY CmdQueueAssumption
<1>2. (x % QueueSize) - x = QueueSize * (0 - (x \div QueueSize))
  BY CmdQueueAssumption
<1>3. QueueSize = Window * (QueueSize \div Window)
  BY CmdQueueAssumption
<1>4. /\ x \div Window \in Int /\ x \div QueueSize \in Int
      /\ QueueSize \div Window \in Int /\ Window \in Int
  BY CmdQueueAssumption
<1>5. \A a, b, c \in Int : (a * b) * c = a * (b * c)
  OBVIOUS
<1>6. (x % QueueSize) - x
        = Window * ((QueueSize \div Window) * (0 - (x \div QueueSize)))
  BY <1>2, <1>3, <1>4, <1>5
<1>7. /\ (QueueSize \div Window) * (0 - (x \div QueueSize)) \in Int
      /\ 0 - (x \div Window) \in Int
  BY <1>4
<1>8. Congruent(x % QueueSize, x)
  BY <1>6, <1>7, Zenon DEF Congruent
<1>9. Congruent(x % Window, x)
  BY <1>1, <1>7, Zenon DEF Congruent
<1> QED
  BY <1>8, <1>9

\* Congruence is an equivalence that sums and differences respect.
LEMMA CongruentSum ==
  ASSUME NEW a \in Int, NEW b \in Int, NEW c \in Int, NEW d \in Int,
         Congruent(a, b), Congruent(c, d)
  PROVE  /\ Congruent(a + c, b + d) /\ Congruent(a - c, b - d)
         /\ Congruent(b, a)
<1>1. PICK k \in Int : a - b = Window * k
  BY DEF Congruent
<1>2. PICK l \in Int : c - d = Window * l
  BY DEF Congruent
<1>3. Window \in Int
  BY CmdQueueAssumption
<1>4. /\ (a + c) - (b + d) = Window * (k + l)
      /\ (a - c) - (b - d) = Window * (k - l)
      /\ b - a = Window * (0 - k)
  BY <1>1, <1>2, <1>3
<1> QED
  BY <1>4 DEF Congruent

LEMMA CongruentSelf == \A x \in Int : Congruent(x, x)
<1>1. \A x \in Int : x - x = Window * 0
  BY CmdQueueAssumption
<1> QED
  BY <1>1 DEF Congruent

LEMMA CongruentTrans ==
  ASSUME NEW a \in Int, NEW b \in Int, NEW c \in Int,
         Congruent(a, b), Congruent(b, c)
  PROVE  Congruent(a, c)
<1>2. PICK k \in Int : a - b = Window * k
  BY DEF Congruent
<1>3. PICK l \in Int : b - c = Window * l
  BY DEF Congruent
<1>4. a - c = Window * (k + l)
  BY <1>2, <1>3, CmdQueueAssumption
<1> QED
  BY <1>4 DEF Congruent

\* Congruent numbers less than a window apart are equal, and one that is not
\* negative is not below one that is below the window.
LEMMA CongruentNear ==
  ASSUME NEW a \in Int, NEW b \in Int, Congruent(a, b)
  PROVE  /\ a - b < Window /\ b - a < Window => a = b
         /\ 0 <= a /\ b < Window => b <= a
<1>1. PICK k \in Int : a - b = Window * k
  BY DEF Congruent
<1>2. Window \in Int /\ Window >= 1
  BY CmdQueueAssumption
<1>3. /\ k >= 1 => Window * k >= Window
      /\ k <= -1 => Window * k <= 0 - Window
      /\ k = 0 => Window * k = 0
  BY <1>2
<1> QED
  BY <1>1, <1>2, <1>3

\* How many positions p is behind the write pointer w.
Dist(w, p) == (w - p) % QueueSize

LEMMA DistRange ==
  ASSUME NEW w \in Positions, NEW p \in Positions
  PROVE  /\ Dist(w, p) \in 0..(QueueSize - 1)
         /\ Dist(w, p) = IF w >= p THEN w - p ELSE w - p + QueueSize
         /\ Congruent(Dist(w, p), w - p)
<1>1. /\ w - p \in Int /\ QueueSize \in Int /\ QueueSize > 0
      /\ -QueueSize < w - p /\ w - p < QueueSize
  BY CmdQueueAssumption DEF Positions
<1>2. Congruent(Dist(w, p), w - p)
  BY <1>1, CongruentMod DEF Dist
<1>3. /\ w - p >= 0 => (w - p) % QueueSize = w - p
      /\ w - p < 0 => (w - p) % QueueSize = w - p + QueueSize
  BY <1>1
<1> QED
  BY <1>1, <1>2, <1>3 DEF Dist, Positions

\* A command put on the ring is one behind the write pointer, and pushes the
\* others one further.
LEMMA DistPut ==
  ASSUME NEW w \in Positions, NEW p \in Positions, Dist(w, p) < QueueSize - 1
  PROVE  /\ iwl_queue_inc_wrap(w) \in Positions
         /\ Dist(iwl_queue_inc_wrap(w), p) = Dist(w, p) + 1
         /\ Dist(iwl_queue_inc_wrap(w), w) = 1
<1>1. w + 1 \in Int /\ w \in Int /\ QueueSize \in Int /\ w \in 0..(QueueSize - 1)
  BY CmdQueueAssumption DEF Positions
<1>2. iwl_queue_inc_wrap(w) = IF w + 1 < QueueSize THEN w + 1 ELSE 0
  <2>1. w + 1 < QueueSize => (w + 1) % QueueSize = w + 1
    BY <1>1
  <2>2. w + 1 >= QueueSize => (w + 1) % QueueSize = 0
    BY <1>1
  <2> QED
    BY <1>1, <2>1, <2>2 DEF iwl_queue_inc_wrap
<1>3. iwl_queue_inc_wrap(w) \in Positions
  BY <1>1, <1>2 DEF Positions
<1>4. \A v, q \in Positions : Dist(v, q) = IF v >= q THEN v - q ELSE v - q + QueueSize
  BY DistRange
<1>5. Dist(w, p) >= 0
  BY DistRange, <1>1
<1> QED
  BY <1>1, <1>2, <1>3, <1>4, <1>5 DEF Positions

\* The position after p is one less behind.
LEMMA DistNext ==
  ASSUME NEW w \in Positions, NEW p \in Positions, 1 <= Dist(w, p)
  PROVE  /\ iwl_queue_inc_wrap(p) \in Positions
         /\ Dist(w, iwl_queue_inc_wrap(p)) = Dist(w, p) - 1
<1>1. /\ p + 1 \in Int /\ w \in Int /\ QueueSize \in Int
      /\ w \in 0..(QueueSize - 1) /\ p \in 0..(QueueSize - 1)
  BY CmdQueueAssumption DEF Positions
<1>2. iwl_queue_inc_wrap(p) = IF p + 1 < QueueSize THEN p + 1 ELSE 0
  <2>1. p + 1 < QueueSize => (p + 1) % QueueSize = p + 1
    BY <1>1
  <2>2. p + 1 >= QueueSize => (p + 1) % QueueSize = 0
    BY <1>1
  <2> QED
    BY <1>1, <2>1, <2>2 DEF iwl_queue_inc_wrap
<1>3. iwl_queue_inc_wrap(p) \in Positions
  BY <1>1, <1>2 DEF Positions
<1>4. \A q \in Positions : Dist(w, q) = IF w >= q THEN w - q ELSE w - q + QueueSize
  BY DistRange
<1> QED
  BY <1>1, <1>2, <1>3, <1>4 DEF Positions

\* Positions less than a window apart have entries of their own.
LEMMA DistSlot ==
  ASSUME NEW w \in Positions, NEW p \in Positions, NEW q \in Positions,
         Dist(w, p) - Dist(w, q) < Window, Dist(w, q) - Dist(w, p) < Window,
         p % Window = q % Window
  PROVE  Dist(w, p) = Dist(w, q)
<1>1. /\ p \in Int /\ q \in Int /\ w \in Int /\ w - p \in Int /\ w - q \in Int
      /\ Dist(w, p) \in Int /\ Dist(w, q) \in Int /\ p % Window \in Int
      /\ q % Window \in Int
  BY DistRange, CmdQueueAssumption DEF Positions
<1>2. Congruent(p % Window, p) /\ Congruent(q % Window, q)
  BY <1>1, CongruentMod
<1>3. Congruent(p, q)
  <2>1. Congruent(p, p % Window)
    BY <1>1, <1>2, CongruentSum
  <2> QED
    BY <1>1, <1>2, <2>1, CongruentTrans
<1>4. Congruent(w - p, w - q)
  <2>1. Congruent(w, w)
    BY <1>1, CongruentSelf
  <2> QED
    BY <1>1, <1>3, <2>1, CongruentSum
<1>5. Congruent(Dist(w, p), w - p) /\ Congruent(Dist(w, q), w - q)
  BY DistRange
<1>6. Congruent(w - q, Dist(w, q))
  BY <1>1, <1>5, CongruentSum
<1>7. Congruent(Dist(w, p), Dist(w, q))
  BY <1>1, <1>4, <1>5, <1>6, CongruentTrans
<1> QED
  BY <1>1, <1>7, CongruentNear

\* iwl_pcie_cmdq_reclaim steps an entry index around the ring of positions.
\* Wherever that takes the read pointer, it is in the entry after the one of
\* the answered command p, so that the commands after p stay in use.
LEMMA DistReclaim ==
  ASSUME NEW w \in Positions, NEW r \in Positions, NEW p \in Positions,
         Dist(w, p) \in 1..Window,
         NEW f, f = ((((p % Window) + 1) % QueueSize) - (r % Window)) % QueueSize,
         NEW n, n = (r + f) % QueueSize
  PROVE  n \in Positions /\ Dist(w, n) >= Dist(w, p) - 1
<1>1. w \in Int /\ r \in Int /\ p \in Int
  BY Ranges
<1>2. /\ p % Window \in Int /\ r % Window \in Int
      /\ ((p % Window) + 1) % QueueSize \in Int
  BY <1>1, CmdQueueAssumption
<1>4. f \in Int /\ r + f \in Int
  BY <1>1, <1>2, CmdQueueAssumption
<1>5. n \in Positions /\ n \in Int
  BY <1>4, Ranges
<1>6. Congruent(((p % Window) + 1) % QueueSize, p + 1)
  <2>1. Congruent(p % Window, p) /\ Congruent(1, 1)
    BY <1>1, CongruentSelf, CongruentMod
  <2>2. Congruent((p % Window) + 1, p + 1)
    BY <1>1, <1>2, <2>1, CongruentSum
  <2>3. Congruent(((p % Window) + 1) % QueueSize, (p % Window) + 1)
    BY <1>2, CongruentMod
  <2> QED
    BY <1>1, <1>2, <2>2, <2>3, CongruentTrans
<1>7. Congruent(f, p + 1 - r)
  <2>1. Congruent(r % Window, r)
    BY <1>1, CongruentMod
  <2>2. Congruent((((p % Window) + 1) % QueueSize) - (r % Window), p + 1 - r)
    BY <1>1, <1>2, <1>6, <2>1, CongruentSum
  <2>3. Congruent(f, (((p % Window) + 1) % QueueSize) - (r % Window))
    BY <1>2, CongruentMod
  <2> QED
    BY <1>1, <1>2, <1>4, <2>2, <2>3, CongruentTrans
<1>8. Congruent(n, p + 1)
  <2>1. Congruent(r, r)
    BY <1>1, CongruentSelf
  <2>2. Congruent(r + f, r + (p + 1 - r))
    BY <1>1, <1>4, <1>7, <2>1, CongruentSum
  <2>3. Congruent(n, r + f)
    BY <1>4, CongruentMod
  <2>4. r + (p + 1 - r) = p + 1 /\ p + 1 \in Int
    BY <1>1
  <2> QED
    BY <1>4, <1>5, <2>2, <2>3, <2>4, CongruentTrans
<1>9. Congruent(w - n, w - (p + 1))
  <2>1. Congruent(w, w) /\ p + 1 \in Int
    BY <1>1, CongruentSelf
  <2> QED
    BY <1>1, <1>5, <1>8, <2>1, CongruentSum
<1> DEFINE d == Dist(w, p)
           e == Dist(w, n)
<1>10. /\ Congruent(d, w - p) /\ d \in Int /\ d <= Window
       /\ Congruent(e, w - n) /\ e \in Int /\ e >= 0
  BY <1>1, <1>5, DistRange, CmdQueueAssumption
<1>11. Congruent(w - (p + 1), d - 1)
  <2>1. Congruent(1, 1)
    BY CongruentSelf
  <2>2. Congruent(d - 1, (w - p) - 1)
    BY <1>1, <1>10, <2>1, CongruentSum
  <2>3. (w - p) - 1 = w - (p + 1) /\ w - (p + 1) \in Int /\ d - 1 \in Int
    BY <1>1, <1>10
  <2> QED
    BY <2>1, <2>2, <2>3, CongruentSum
<1>12. /\ w - n \in Int /\ w - (p + 1) \in Int /\ d - 1 \in Int
       /\ d - 1 < Window
  BY <1>1, <1>5, <1>10, CmdQueueAssumption
<1> HIDE DEF d, e
<1>13. Congruent(w - n, d - 1)
  BY <1>9, <1>11, <1>12, CongruentTrans
<1>14. Congruent(e, d - 1)
  BY <1>10, <1>12, <1>13, CongruentTrans
<1>15. d - 1 <= e
  BY <1>10, <1>12, <1>14, CongruentNear
<1> QED
  BY <1>5, <1>10, <1>15 DEF d, e

-----------------------------------------------------------------------------
(* The commands the firmware has not answered, and their entries.          *)

\* The response that is being completed.
RxMsg == [index |-> rx.index, call |-> rx.call]

\* m is unanswered, or its answer is being completed.
Pending(m) ==
  (\E i \in DOMAIN sent : m = sent[i]) \/ (rx.pc # "idle" /\ m = RxMsg)

\* Answers to m come before answers to n.
Precedes(m, n) ==
  \/ \E i, j \in DOMAIN sent : i < j /\ m = sent[i] /\ n = sent[j]
  \/ rx.pc # "idle" /\ m = RxMsg /\ \E j \in DOMAIN sent : n = sent[j]

\* Where a call is before its command is on the ring.
NotYet == {"idle", "send", "enqueue"}

\* A pending command is among the last Window ones, not behind the read
\* pointer, and its entry holds it.
Held(m) ==
  /\ Dist(write_ptr, m.index) \in 1..Window
  /\ Dist(write_ptr, m.index) <= Used
  /\ entries[m.index % Window].call = m.call
  /\ "ASYNC" \in entries[m.index % Window].flags <=> "ASYNC" \in kind[m.call]
  /\ pc[m.call] \notin NotYet

\* m is further behind the write pointer than n.
Older(m, n) ==
  Dist(write_ptr, n.index) < Dist(write_ptr, m.index) /\ m.call # n.call

\* The invariant EntryIntact is proved with.
RingInv ==
  /\ state = "NO_FW" => sent = <<>>
  /\ state = "FW_ALIVE" =>
       /\ \A m \in Message : Pending(m) => Held(m)
       /\ \A m, n \in Message : Precedes(m, n) => Older(m, n)

\* Steps that leave the ring alone, and of the entries at most the other
\* fields, keep the invariant: a call whose command is on the ring does not
\* go back.
LEMMA RingLeft ==
  ASSUME TypeOK, RingInv, UNCHANGED <<read_ptr, write_ptr, sent, state>>,
         rx'.index = rx.index, rx'.call = rx.call,
         rx'.pc = "idle" <=> rx.pc = "idle",
         \A s \in Slots :
           /\ entries'[s].call = entries[s].call
           /\ "ASYNC" \in entries'[s].flags <=> "ASYNC" \in entries[s].flags,
         \A c \in Calls : pc[c] \notin NotYet
                            => pc'[c] \notin NotYet /\ kind'[c] = kind[c]
  PROVE  RingInv'
<1>1. ASSUME state' = "NO_FW" PROVE sent' = <<>>
  BY <1>1 DEF RingInv
<1>2. ASSUME state' = "FW_ALIVE", NEW m \in Message, Pending(m)'
      PROVE  Held(m)'
  <2>1. Pending(m)
    BY <1>2 DEF Pending, RxMsg
  <2>2. Held(m)
    BY <1>2, <2>1 DEF RingInv
  <2>3. m.index % Window \in Slots /\ m.call \in Calls
    BY Ranges DEF Message
  <2>4. Dist(write_ptr, m.index)' = Dist(write_ptr, m.index) /\ Used' = Used
    BY DEF Dist, Used
  <2> QED
    BY <2>2, <2>3, <2>4 DEF Held
<1>3. ASSUME state' = "FW_ALIVE", NEW m \in Message, NEW n \in Message,
             Precedes(m, n)'
      PROVE  Older(m, n)'
  <2>1. Precedes(m, n)
    BY <1>3 DEF Precedes, RxMsg
  <2> QED
    BY <1>3, <2>1 DEF RingInv, Older, Dist
<1> QED
  BY <1>1, <1>2, <1>3 DEF RingInv

\* Room for a command means that fewer than Window positions are used.
LEMMA RoomMeans ==
  ASSUME TypeOK, iwl_queue_space >= 1
  PROVE  /\ Used \in Nat /\ Used < QueueSize - 1 /\ Used < Window
         /\ Used = Dist(write_ptr, read_ptr)
         /\ write_ptr \in Positions /\ read_ptr \in Positions
<1>1. write_ptr \in Positions /\ read_ptr \in Positions
  BY DEF TypeOK
<1>2. Used = Dist(write_ptr, read_ptr)
  BY DEF Used, Dist
<1>3. Used \in 0..(QueueSize - 1)
  BY <1>1, <1>2, DistRange
<1>4. MaxUsed \in Int /\ MaxUsed <= Window /\ MaxUsed <= QueueSize - 1
  BY CmdQueueAssumption DEF MaxUsed
<1> QED
  BY <1>1, <1>2, <1>3, <1>4, CmdQueueAssumption DEF iwl_queue_space

LEMMA RoomFor ==
  ASSUME TypeOK, NEW c \in Calls, iwl_queue_space >= Needed(c)
  PROVE  iwl_queue_space >= 1
<1>1. Used \in Int
  BY DistRange DEF Used, Dist, TypeOK
<1>2. iwl_queue_space \in Int
  BY <1>1, CmdQueueAssumption DEF iwl_queue_space, MaxUsed
<1> QED
  BY <1>2 DEF Needed

\* Then the entry the next command will take is not that of a pending one.
LEMMA SlotIsFree ==
  ASSUME TypeOK, NEW m \in Message, Held(m), iwl_queue_space >= 1
  PROVE  m.index % Window # Slot
<1>1. write_ptr \in Positions /\ m.index \in Positions
  BY DEF TypeOK, Message
<1>2. /\ Dist(write_ptr, m.index) \in 1..Window
      /\ Dist(write_ptr, m.index) <= Used
  BY DEF Held
<1>3. Dist(write_ptr, write_ptr) = 0
  BY <1>1, DistRange, Ranges
<1>4. m.index % Window # write_ptr % Window
  BY <1>1, <1>2, <1>3, RoomMeans, DistSlot, CmdQueueAssumption
<1> QED
  BY <1>4 DEF Slot, iwl_pcie_get_cmd_index

\* A failed enqueue spoils no entry of a pending command.
LEMMA RingEnqueueFails ==
  ASSUME TypeOK, RingInv, NEW c \in Calls, NEW e \in Entry, NEW r,
         pc[c] = "enqueue", iwl_queue_space >= 1, EnqueueFails(c, r),
         entries' = [entries EXCEPT ![Slot] = e],
         UNCHANGED <<state, rx, kind>>
  PROVE  RingInv'
<1>1. /\ UNCHANGED <<read_ptr, write_ptr, sent>>
      /\ pc' = [pc EXCEPT ![c] = "done"]
  BY DEF EnqueueFails, Return
<1>2. ASSUME state' = "FW_ALIVE", NEW m \in Message, Pending(m)'
      PROVE  Held(m)'
  <2>1. Pending(m)
    BY <1>1, <1>2 DEF Pending, RxMsg
  <2>2. Held(m)
    BY <1>2, <2>1 DEF RingInv
  <2>3. m.index % Window \in Slots /\ m.call \in Calls
    BY Ranges DEF Message
  <2>4. entries'[m.index % Window] = entries[m.index % Window]
    BY <2>2, <2>3, SlotIsFree DEF TypeOK
  <2>5. Dist(write_ptr, m.index)' = Dist(write_ptr, m.index) /\ Used' = Used
    BY <1>1 DEF Dist, Used
  <2>6. pc'[m.call] \notin NotYet
    BY <1>1, <2>2, <2>3 DEF Held, NotYet, TypeOK
  <2> QED
    BY <2>2, <2>3, <2>4, <2>5, <2>6 DEF Held
<1>3. ASSUME state' = "FW_ALIVE", NEW m \in Message, NEW n \in Message,
             Precedes(m, n)'
      PROVE  Older(m, n)'
  <2>1. Precedes(m, n)
    BY <1>1, <1>3 DEF Precedes, RxMsg
  <2> QED
    BY <1>1, <1>3, <2>1 DEF RingInv, Older, Dist
<1> QED
  BY <1>1, <1>2, <1>3 DEF RingInv

\* A command put on the ring is the youngest one, and in an entry of its own.
LEMMA RingEnqueued ==
  ASSUME TypeOK, RingInv, NEW c \in Calls, pc[c] = "enqueue", Enqueued(c),
         UNCHANGED <<state, rx, kind>>
  PROVE  RingInv'
<1>0. PICK new \in Message : new = [index |-> write_ptr, call |-> c]
  BY DEF Message, TypeOK
<1>1. iwl_queue_space >= 1
  BY RoomFor DEF Enqueued
<1>2. ASSUME state' = "NO_FW" PROVE sent' = <<>>
  BY <1>2 DEF Enqueued, RingInv
<1> SUFFICES ASSUME state = "FW_ALIVE" PROVE RingInv'
  BY <1>2 DEF RingInv
<1>3. /\ write_ptr' = iwl_queue_inc_wrap(write_ptr) /\ read_ptr' = read_ptr
      /\ sent' = Append(sent, new)
      /\ entries' = [entries EXCEPT ![Slot] = Filled(c)]
      /\ \E l \in {"done", "wait"} : pc' = [pc EXCEPT ![c] = l]
  BY <1>0 DEF Enqueued, Return
<1>4. Used' = Used + 1
  <2>1. Dist(iwl_queue_inc_wrap(write_ptr), read_ptr)
          = Dist(write_ptr, read_ptr) + 1
    BY <1>1, RoomMeans, DistPut
  <2> QED
    BY <1>1, <1>3, <2>1, RoomMeans DEF Used, Dist
<1>5. ASSUME NEW m \in Message, Held(m)
      PROVE  /\ Held(m)' /\ m.call # c
             /\ Dist(write_ptr, m.index)' = Dist(write_ptr, m.index) + 1
             /\ Dist(write_ptr, m.index) \in Nat \ {0}
  <2>1. m.index % Window \in Slots /\ m.call \in Calls /\ m.index \in Positions
    BY Ranges DEF Message
  <2>2. /\ Dist(write_ptr, m.index) \in 1..Window
        /\ Dist(write_ptr, m.index) <= Used /\ Used < QueueSize - 1
        /\ Used < Window
    BY <1>1, <1>5, RoomMeans DEF Held
  <2>3. Dist(write_ptr, m.index)' = Dist(write_ptr, m.index) + 1
    <3>1. Dist(iwl_queue_inc_wrap(write_ptr), m.index)
            = Dist(write_ptr, m.index) + 1
      BY <1>1, <2>1, <2>2, RoomMeans, DistPut, CmdQueueAssumption
    <3> QED
      BY <1>3, <3>1 DEF Dist
  <2>4. entries'[m.index % Window] = entries[m.index % Window]
    BY <1>1, <1>3, <1>5, <2>1, SlotIsFree DEF TypeOK
  <2>5. m.call # c /\ pc'[m.call] \notin NotYet
    BY <1>3, <1>5, <2>1 DEF Held, NotYet, TypeOK
  <2>6. Held(m)'
    <3>1. Dist(write_ptr, m.index)' \in 1..Window
          /\ Dist(write_ptr, m.index)' <= Used'
      BY <1>1, <1>4, <2>2, <2>3, RoomMeans, CmdQueueAssumption
    <3> QED
      BY <1>5, <2>1, <2>4, <2>5, <3>1 DEF Held
  <2> QED
    BY <2>2, <2>3, <2>5, <2>6, CmdQueueAssumption
<1>6. Held(new)' /\ Dist(write_ptr, new.index)' = 1
  <2>1. Dist(iwl_queue_inc_wrap(write_ptr), write_ptr) = 1
    BY <1>1, RoomMeans, DistPut
  <2>2. Dist(write_ptr, new.index)' = 1
    BY <1>0, <1>3, <2>1 DEF Dist
  <2>3. new.index % Window = Slot /\ Slot \in Slots
    BY <1>0, Ranges DEF Slot, iwl_pcie_get_cmd_index, TypeOK
  <2>4. entries'[Slot] = Filled(c) /\ pc'[c] \notin NotYet
    BY <1>3, <2>3 DEF TypeOK, NotYet
  <2>5. 1 \in 1..Window /\ 1 <= Used'
    BY <1>1, <1>4, RoomMeans, CmdQueueAssumption
  <2>6. entries'[new.index % Window] = Filled(c)
    BY <2>3, <2>4
  <2>7. Filled(c).call = c /\ Filled(c).flags = kind[c]
    BY DEF Filled
  <2>8. /\ (entries[new.index % Window].call = new.call)'
        /\ ("ASYNC" \in entries[new.index % Window].flags)'
              <=> ("ASYNC" \in kind[new.call])'
        /\ (pc[new.call] \notin NotYet)'
    BY <1>0, <1>3, <2>4, <2>6, <2>7
  <2> QED
    BY <2>2, <2>5, <2>8 DEF Held
<1>7. \A m \in Message : Pending(m)' => Pending(m) \/ m = new
  BY <1>3 DEF Pending, RxMsg, TypeOK
<1>8. \A m, n \in Message :
        Precedes(m, n)' => Precedes(m, n) \/ (Pending(m) /\ n = new)
  BY <1>3 DEF Pending, Precedes, RxMsg, TypeOK
<1>9. \A m, n \in Message : Precedes(m, n) => Pending(m) /\ Pending(n)
  BY DEF Pending, Precedes
<1>10. ASSUME NEW m \in Message, NEW n \in Message, Precedes(m, n)'
       PROVE  Older(m, n)'
  <2>1. CASE Precedes(m, n)
    <3>1. Older(m, n) /\ Held(m) /\ Held(n)
      BY <1>9, <2>1 DEF RingInv
    <3> QED
      BY <1>5, <3>1 DEF Older
  <2>2. CASE Pending(m) /\ n = new
    <3>1. Held(m)
      BY <2>2 DEF RingInv
    <3>2. /\ Dist(write_ptr, m.index)' = Dist(write_ptr, m.index) + 1
          /\ Dist(write_ptr, m.index) \in Nat \ {0} /\ m.call # c
      BY <1>5, <3>1
    <3>3. Dist(write_ptr, n.index)' = 1 /\ n.call = c
      BY <1>0, <1>6, <2>2
    <3> QED
      BY <3>2, <3>3 DEF Older
  <2> QED
    BY <1>8, <1>10, <2>1, <2>2
<1>11. ASSUME NEW m \in Message, Pending(m)' PROVE Held(m)'
  BY <1>5, <1>6, <1>7, <1>11 DEF RingInv
<1> QED
  BY <1>10, <1>11 DEF RingInv

\* Taking the next response, or the firmware going past a command, drops the
\* oldest one and reorders none.
LEMMA SentTail ==
  ASSUME TypeOK, sent # <<>>, sent' = Tail(sent)
  PROVE  /\ \A i \in DOMAIN sent' : i + 1 \in DOMAIN sent /\ sent'[i] = sent[i + 1]
         /\ 1 \in DOMAIN sent /\ Head(sent) = sent[1] /\ Head(sent) \in Message
         /\ DOMAIN sent \subseteq Int /\ DOMAIN sent' \subseteq Nat \ {0}
BY DEF TypeOK

LEMMA RingReceive ==
  ASSUME TypeOK, RingInv, iwl_pcie_rx_handle_rb
  PROVE  RingInv'
<1>1. PICK h \in Message : h = Head(sent)
  BY SentTail DEF iwl_pcie_rx_handle_rb
<1>2. /\ sent # <<>> /\ sent' = Tail(sent) /\ rx.pc = "idle"
      /\ rx'.pc = "taken" /\ rx'.index = h.index /\ rx'.call = h.call
      /\ entries' = [entries EXCEPT ![h.index % Window].free_buf = None]
      /\ UNCHANGED <<read_ptr, write_ptr, state, pc, kind>>
  BY <1>1 DEF iwl_pcie_rx_handle_rb, iwl_pcie_get_cmd_index, callVars
<1>3. [index |-> h.index, call |-> h.call] = h
  BY DEF Message
<1>4. ASSUME NEW m \in Message, Pending(m)' PROVE Pending(m)
  BY <1>1, <1>2, <1>3, <1>4, SentTail DEF Pending, RxMsg
<1>5. ASSUME NEW m \in Message, NEW n \in Message, Precedes(m, n)'
      PROVE  Precedes(m, n)
  <2>1. CASE \E i, j \in DOMAIN sent' : i < j /\ m = sent'[i] /\ n = sent'[j]
    <3>1. PICK i, j \in DOMAIN sent' : i < j /\ m = sent'[i] /\ n = sent'[j]
      BY <2>1
    <3>2. /\ i + 1 \in DOMAIN sent /\ j + 1 \in DOMAIN sent /\ i + 1 < j + 1
          /\ m = sent[i + 1] /\ n = sent[j + 1]
      BY <1>2, <3>1, SentTail
    <3> QED
      BY <3>2 DEF Precedes
  <2>2. CASE m = RxMsg' /\ \E j \in DOMAIN sent' : n = sent'[j]
    <3>1. PICK j \in DOMAIN sent' : n = sent'[j]
      BY <2>2
    <3>2. /\ m = sent[1] /\ 1 \in DOMAIN sent
          /\ j + 1 \in DOMAIN sent /\ 1 < j + 1 /\ n = sent[j + 1]
      BY <1>1, <1>2, <1>3, <2>2, <3>1, SentTail DEF RxMsg
    <3> QED
      BY <3>2 DEF Precedes
  <2> QED
    BY <1>5, <2>1, <2>2 DEF Precedes
<1>6. \A s \in Slots : /\ entries'[s].call = entries[s].call
                       /\ entries'[s].flags = entries[s].flags
  BY <1>2 DEF TypeOK, Entry
<1>7. ASSUME NEW m \in Message, Held(m) PROVE Held(m)'
  <2>1. m.index % Window \in Slots
    BY Ranges DEF Message
  <2> QED
    BY <1>2, <1>6, <1>7, <2>1 DEF Held, Dist, Used
<1>8. state' = "NO_FW" => sent' = <<>>
  BY <1>2 DEF RingInv
<1> QED
  BY <1>2, <1>4, <1>5, <1>7, <1>8 DEF RingInv, Older, Dist

LEMMA RingSkip ==
  ASSUME TypeOK, RingInv, SkipAnswer
  PROVE  RingInv'
<1>1. /\ sent # <<>> /\ sent' = Tail(sent)
      /\ UNCHANGED <<rx, read_ptr, write_ptr, entries, state, pc, kind>>
  BY DEF SkipAnswer, ringVars, callVars
<1>2. ASSUME NEW m \in Message, Pending(m)' PROVE Pending(m)
  BY <1>1, <1>2, SentTail DEF Pending, RxMsg
<1>3. ASSUME NEW m \in Message, NEW n \in Message, Precedes(m, n)'
      PROVE  Precedes(m, n)
  <2>1. CASE \E i, j \in DOMAIN sent' : i < j /\ m = sent'[i] /\ n = sent'[j]
    <3>1. PICK i, j \in DOMAIN sent' : i < j /\ m = sent'[i] /\ n = sent'[j]
      BY <2>1
    <3>2. /\ i + 1 \in DOMAIN sent /\ j + 1 \in DOMAIN sent /\ i + 1 < j + 1
          /\ m = sent[i + 1] /\ n = sent[j + 1]
      BY <1>1, <3>1, SentTail
    <3> QED
      BY <3>2 DEF Precedes
  <2>2. CASE rx.pc # "idle" /\ m = RxMsg /\ \E j \in DOMAIN sent' : n = sent'[j]
    BY <1>1, <2>2, SentTail DEF Precedes
  <2> QED
    BY <1>1, <1>3, <2>1, <2>2 DEF Precedes, RxMsg
<1>4. ASSUME NEW m \in Message, Held(m) PROVE Held(m)'
  BY <1>1, <1>4 DEF Held, Dist, Used
<1> QED
  BY <1>1, <1>2, <1>3, <1>4 DEF RingInv, Older, Dist

\* A completion clears the flags of one entry, and wherever the reclaim
\* takes the read pointer the younger commands stay in front of it.
LEMMA RingComplete ==
  ASSUME TypeOK, RingInv, hcmd_complete
  PROVE  RingInv'
<1>1. /\ rx.pc = "locked" /\ rx'.pc = "idle"
      /\ iwl_pcie_cmdq_reclaim(rx.index)
      /\ entries' = [entries EXCEPT ![rx.index % Window].flags = {}]
      /\ UNCHANGED <<write_ptr, state, sent, pc, kind>>
  BY DEF hcmd_complete, RxIdle, iwl_pcie_get_cmd_index
<1>2. state' = "NO_FW" => sent' = <<>>
  BY <1>1 DEF RingInv
<1> SUFFICES ASSUME state = "FW_ALIVE" PROVE RingInv'
  BY <1>1, <1>2 DEF RingInv
<1>3. PICK r \in Message : r = RxMsg
  BY <1>1 DEF TypeOK, RxMsg, Message
<1>4. r.index = rx.index /\ Pending(r)
  BY <1>1, <1>3 DEF RxMsg, Pending
<1>5. Held(r)
  BY <1>4 DEF RingInv
<1>6. /\ write_ptr \in Positions /\ read_ptr \in Positions
      /\ rx.index \in Positions
  BY DEF TypeOK
<1>7. Used' >= Dist(write_ptr, rx.index) - 1 /\ Used' \in Int
  <2>1. CASE read_ptr' = read_ptr
    <3>1. Used' = Used /\ Used \in Int
      BY <1>1, <1>6, <2>1, DistRange DEF Used, Dist
    <3>2. Dist(write_ptr, rx.index) <= Used /\ Dist(write_ptr, rx.index) \in Int
      BY <1>4, <1>5 DEF Held
    <3> QED
      BY <3>1, <3>2
  <2>2. CASE read_ptr' = ReadPtrAfter(rx.index)
    <3>1. Dist(write_ptr, rx.index) \in 1..Window
      BY <1>4, <1>5 DEF Held
    <3>2. /\ read_ptr' \in Positions
          /\ Dist(write_ptr, read_ptr') >= Dist(write_ptr, rx.index) - 1
      BY <1>6, <2>2, <3>1, DistReclaim
         DEF ReadPtrAfter, Freed, iwl_queue_inc_wrap, iwl_pcie_get_cmd_index
    <3>3. Used' = Dist(write_ptr, read_ptr')
      BY <1>1 DEF Used, Dist
    <3>4. Dist(write_ptr, read_ptr') \in Int
      BY <1>6, <3>2, DistRange
    <3> QED
      BY <3>2, <3>3, <3>4
  <2> QED
    BY <1>1, <2>1, <2>2 DEF iwl_pcie_cmdq_reclaim
<1>8. ASSUME NEW m \in Message, Pending(m)'
      PROVE  Held(m)' /\ Pending(m)
  <2>1. Pending(m) /\ Precedes(r, m)
    BY <1>1, <1>3, <1>8 DEF Pending, Precedes
  <2>2. Held(m) /\ Older(r, m)
    BY <2>1 DEF RingInv
  <2>3. /\ Dist(write_ptr, m.index) \in 1..Window
        /\ Dist(write_ptr, r.index) \in 1..Window
        /\ Dist(write_ptr, m.index) < Dist(write_ptr, r.index)
    BY <1>5, <2>2 DEF Held, Older
  <2>4. Dist(write_ptr, m.index)' <= Used'
        /\ Dist(write_ptr, m.index)' = Dist(write_ptr, m.index)
    BY <1>1, <1>4, <1>7, <2>3 DEF Dist
  <2>5. m.index % Window \in Slots /\ m.index \in Positions
    BY Ranges DEF Message
  <2>6. m.index % Window # rx.index % Window
    BY <1>4, <1>6, <2>3, <2>5, DistSlot, CmdQueueAssumption
  <2>7. entries'[m.index % Window] = entries[m.index % Window]
    BY <1>1, <2>5, <2>6 DEF TypeOK
  <2> QED
    BY <1>1, <2>1, <2>2, <2>4, <2>7 DEF Held
<1>9. ASSUME NEW m \in Message, NEW n \in Message, Precedes(m, n)'
      PROVE  Older(m, n)'
  <2>1. Precedes(m, n)
    BY <1>1, <1>9 DEF Precedes
  <2> QED
    BY <1>1, <2>1 DEF RingInv, Older, Dist
<1> QED
  BY <1>1, <1>8, <1>9 DEF RingInv

\* The entries of pending commands survive every step.
LEMMA RingStep == ASSUME TypeOK, RingInv, [Next]_vars PROVE RingInv'
<1>1. ASSUME NEW c \in Calls, iwl_trans_send_cmd(c) \/ CallStep(c)
      PROVE  RingInv'
  <2> USE DEF ringVars, NotYet
  <2>0. pc \in [Calls -> Places] /\ kind \in [Calls -> SUBSET Flags]
    BY DEF TypeOK
  <2>1. CASE iwl_trans_send_cmd(c)
    <3>1. /\ pc[c] = "idle"
          /\ UNCHANGED <<read_ptr, write_ptr, entries, sent, state, rx>>
          /\ \E fl : kind' = [kind EXCEPT ![c] = fl]
          /\ \E l : pc' = [pc EXCEPT ![c] = l]
      BY <2>1 DEF iwl_trans_send_cmd, Return
    <3>2. \A d \in Calls : d # c => pc'[d] = pc[d] /\ kind'[d] = kind[d]
      BY <2>0, <3>1
    <3> QED
      BY <3>1, <3>2, RingLeft
  <2>2. CASE send_hcmd_sync(c)
    <3>1. /\ pc[c] = "send"
          /\ UNCHANGED <<read_ptr, write_ptr, entries, sent, state, rx, kind>>
          /\ \E l : pc' = [pc EXCEPT ![c] = l]
      BY <2>2 DEF send_hcmd_sync, Return
    <3> QED
      BY <2>0, <3>1, RingLeft
  <2>3. CASE iwl_pcie_enqueue_hcmd(c)
    <3>1. pc[c] = "enqueue" /\ UNCHANGED <<state, rx, kind>>
      BY <2>3 DEF iwl_pcie_enqueue_hcmd
    <3>2. CASE NoSpace(c)
      <4>1. /\ UNCHANGED <<read_ptr, write_ptr, entries, sent>>
            /\ pc' = [pc EXCEPT ![c] = "done"]
        BY <3>2 DEF NoSpace, EnqueueFails, Return
      <4> QED
        BY <2>0, <3>1, <4>1, RingLeft
    <3>3. CASE MapFails(c)
      <4>1. PICK e : e = [entries[Slot] EXCEPT !.call = c, !.flags = {},
                                               !.source = Source(c)]
        OBVIOUS
      <4>2. e \in Entry
        <5>1. Slot \in Slots /\ c \in CallOrNone
          BY Ranges DEF Slot, iwl_pcie_get_cmd_index, TypeOK, CallOrNone
        <5> QED
          BY <4>1, <5>1, FilledType, EntryField DEF TypeOK
      <4>3. entries' = [entries EXCEPT ![Slot] = e] /\ iwl_queue_space >= 1
        BY <3>3, <4>1, RoomFor DEF MapFails
      <4> QED
        BY <3>1, <3>3, <4>2, <4>3, RingEnqueueFails DEF MapFails
    <3>4. CASE InFlightFails(c)
      <4>1. /\ entries' = [entries EXCEPT ![Slot] = Filled(c)]
            /\ iwl_queue_space >= 1 /\ Filled(c) \in Entry
        BY <3>4, RoomFor, FilledType DEF InFlightFails
      <4> QED
        BY <3>1, <3>4, <4>1, RingEnqueueFails DEF InFlightFails
    <3>5. CASE Enqueued(c)
      BY <3>1, <3>5, RingEnqueued
    <3> QED
      BY <2>3, <3>2, <3>3, <3>4, <3>5 DEF iwl_pcie_enqueue_hcmd
  <2>4. CASE Woken(c) \/ TimesOut(c) \/ iwl_trans_pcie_sync_nmi(c) \/ Check(c)
    <3>1. /\ UNCHANGED <<read_ptr, write_ptr, entries, sent, state, rx, kind>>
          /\ \E l \in {"check", "nmi", "cancel", "done"} : pc' = [pc EXCEPT ![c] = l]
      BY <2>4 DEF Woken, TimesOut, iwl_trans_pcie_sync_nmi, Check, Return
    <3> QED
      BY <2>0, <3>1, RingLeft
  <2>5. CASE Cancel(c)
    <3>1. /\ UNCHANGED <<read_ptr, write_ptr, sent, state, rx, kind>>
          /\ pc' = [pc EXCEPT ![c] = "done"]
      BY <2>5 DEF Cancel, Return
    <3>2. \A s \in Slots :
            /\ entries'[s].call = entries[s].call
            /\ "ASYNC" \in entries'[s].flags <=> "ASYNC" \in entries[s].flags
      BY <2>5 DEF Cancel, TypeOK, Entry
    <3> QED
      BY <2>0, <3>1, <3>2, RingLeft
  <2> QED
    BY <1>1, <2>1, <2>2, <2>3, <2>4, <2>5 DEF CallStep
<1>2. CASE RxStep
  <2>1. CASE hcmd_complete_lock
    <3>1. /\ rx'.index = rx.index /\ rx'.call = rx.call
          /\ rx'.pc # "idle" /\ rx.pc # "idle"
          /\ UNCHANGED <<read_ptr, write_ptr, entries, sent, state, pc, kind>>
      BY <2>1 DEF hcmd_complete_lock, TypeOK, ringVars, callVars
    <3> QED
      BY <3>1, RingLeft
  <2> QED
    BY <1>2, <2>1, RingReceive, RingComplete DEF RxStep
<1>3. CASE \/ irq_handle_error \/ irq_error_wake \/ iwl_pcie_handle_rfkill_irq
           \/ TransDead \/ UNCHANGED vars
  <2>1. UNCHANGED <<read_ptr, write_ptr, entries, sent, state, rx, pc, kind>>
    BY <1>3 DEF irq_handle_error, irq_error_wake, iwl_pcie_handle_rfkill_irq,
                TransDead, vars, ringVars, callVars
  <2> QED
    BY <2>1, RingLeft
<1>4. CASE stop_device
  BY <1>4 DEF stop_device, RingInv
<1>5. CASE start_fw
  <2>1. state = "NO_FW" /\ sent' = sent /\ rx' = rx /\ rx.pc = "idle"
    BY <1>5 DEF start_fw
  <2>2. sent' = <<>> /\ rx'.pc = "idle"
    BY <2>1 DEF RingInv
  <2>3. DOMAIN sent' = {}
    BY <2>2
  <2> QED
    BY <2>2, <2>3 DEF RingInv, Pending, Precedes
<1> QED
  BY <1>1, <1>2, <1>3, <1>4, <1>5, RingSkip DEF Next

\* The initial ring holds nothing.
LEMMA RingInit == Init => RingInv
<1> SUFFICES ASSUME Init PROVE RingInv
  OBVIOUS
<1>1. sent = <<>> /\ DOMAIN sent = {} /\ rx.pc = "idle"
  BY DEF Init, RxIdle
<1> QED
  BY <1>1 DEF RingInv, Pending, Precedes

\* While the firmware runs, the entry of an unanswered command holds that
\* command, whatever the firmware skips and however the reclaim
\* (iwl_pcie_cmdq_reclaim) mixes positions and entries, for every ring and
\* every window that divides it.
THEOREM EntryCorrect == Spec => []EntryIntact
<1>1. Init => RingInv
  BY RingInit
<1>2. TypeOK /\ RingInv /\ [Next]_vars => RingInv'
  BY RingStep
<1>3. TypeOK /\ RingInv => EntryIntact
  <2> SUFFICES ASSUME TypeOK, RingInv, state = "FW_ALIVE"
               PROVE  \A e \in {sent[i] : i \in DOMAIN sent}
                        \cup {x \in {RxMsg} : rx.pc # "idle"} :
                        entries[iwl_pcie_get_cmd_index(e.index)].call = e.call
    BY DEF EntryIntact, RxMsg
  <2>1. ASSUME NEW i \in DOMAIN sent
        PROVE  Pending(sent[i]) /\ sent[i] \in Message
    BY <2>1 DEF Pending, TypeOK
  <2>2. rx.pc # "idle" => Pending(RxMsg) /\ RxMsg \in Message
    BY DEF Pending, RxMsg, TypeOK, Message
  <2> QED
    BY <2>1, <2>2 DEF RingInv, Held, iwl_pcie_get_cmd_index
<1> QED
  BY <1>1, <1>2, <1>3, TypeCorrect, PTL DEF Spec

-----------------------------------------------------------------------------
(* The answer a sender is given.                                           *)

\* While the firmware is down the only synchronous calls in the transport are
\* of the PTP clock: the device is stopped under the op-mode's mutex.
Quiet == state = "NO_FW" => MutexFree

\* A call that has not returned has not been told 0, and an asynchronous one
\* that was accepted, or one of the PTP clock, did not ask for the packet.
Underway(c) ==
  /\ pc[c] # "done" => ret[c] # "0"
  /\ pc[c] \notin {"idle", "done"} /\ kind[c] \cap {"ASYNC", "NO_MUTEX"} # {}
       => "WANT_SKB" \notin kind[c]

\* The pointer in an entry that may be used is that of the entry's command.
SourceOwn ==
  \A s \in Slots : "WANT_SKB" \in entries[s].flags
                     => entries[s].source = entries[s].call

\* The handler will not take, or has not taken, the pointer of another call.
RxOwn ==
  /\ rx.pc = "taken" =>
       LET e == entries[rx.index % Window]
       IN  e.call = rx.call \/ "WANT_SKB" \notin e.flags
  /\ rx.pc = "locked" => rx.source \in {None, rx.call}

\* The invariant AnswerIsOwn is proved with, beside ActiveInv and RingInv.
AnswerInv ==
  Quiet /\ AnswerIsOwn /\ (\A c \in Calls : Underway(c)) /\ SourceOwn /\ RxOwn

\* What a sender's first step does to its call.
LEMMA Accepted ==
  ASSUME TypeOK, NEW c \in Calls, iwl_trans_send_cmd(c)
  PROVE  /\ pc[c] = "idle" /\ resp' = resp /\ entries' = entries
         /\ \/ pc'[c] = "done" /\ ret'[c] # "0"
            \/ /\ state = "FW_ALIVE" /\ "FW_ERROR" \notin status
               /\ pc'[c] \in {"enqueue", "send"} /\ ret'[c] = ret[c]
               /\ kind'[c] \cap {"ASYNC", "NO_MUTEX"} # {}
                    => "WANT_SKB" \notin kind'[c]
               /\ pc'[c] = "enqueue" => "ASYNC" \in kind'[c]
<1>1. PICK fl \in Kinds :
        /\ kind' = [kind EXCEPT ![c] = fl]
        /\ IF Refusal(fl) # "none"
             THEN Return(c, Refusal(fl))
             ELSE /\ pc' = [pc EXCEPT ![c] = IF "ASYNC" \in fl
                                               THEN "enqueue" ELSE "send"]
                  /\ UNCHANGED ret
  BY DEF iwl_trans_send_cmd
<1>2. Refusal(fl) # "0"
  BY DEF Refusal
<1>3. Refusal(fl) = "none" =>
        /\ state = "FW_ALIVE" /\ "FW_ERROR" \notin status
        /\ fl \cap {"ASYNC", "NO_MUTEX"} # {} => "WANT_SKB" \notin fl
  <2>1. "NO_MUTEX" \in fl => fl = {"NO_MUTEX"}
    BY CmdQueueAssumption
  <2> QED
    BY <2>1 DEF Refusal
<1> QED
  BY <1>1, <1>2, <1>3 DEF iwl_trans_send_cmd, Return, TypeOK, ringVars

\* The device goes down only when no call is underway under the mutex, and
\* none begins before it is up again.
LEMMA QuietStep == ASSUME TypeOK, Quiet, [Next]_vars PROVE Quiet'
<1>1. ASSUME NEW c \in Calls, iwl_trans_send_cmd(c) \/ CallStep(c)
      PROVE  Quiet'
  BY <1>1, SenderFrame, Accepted DEF Quiet, InSync, MutexFree
<1>2. CASE ~\E c \in Calls : iwl_trans_send_cmd(c) \/ CallStep(c)
  <2>1. pc' = pc /\ kind' = kind
    BY <1>2, OtherFrame
  <2>2. state' = "NO_FW" => state = "NO_FW" \/ MutexFree
    BY <1>2 DEF Next, RxStep, iwl_pcie_rx_handle_rb, hcmd_complete_lock,
       hcmd_complete, SkipAnswer, irq_handle_error, irq_error_wake,
       iwl_pcie_handle_rfkill_irq, TransDead, stop_device, start_fw, vars
  <2> QED
    BY <2>1, <2>2 DEF Quiet, InSync, MutexFree
<1> QED
  BY <1>1, <1>2
\* The entry an enqueue leaves behind, if it leaves one, points to its own
\* call.
LEMMA EnqueueEntry ==
  ASSUME TypeOK, NEW c \in Calls, iwl_pcie_enqueue_hcmd(c)
  PROVE  \A s \in Slots :
           \/ entries'[s] = entries[s]
           \/ /\ entries'[s].call = c /\ entries'[s].flags \in {{}, kind[c]}
              /\ "WANT_SKB" \in entries'[s].flags => entries'[s].source = c
<1> SUFFICES ASSUME NEW s \in Slots
             PROVE  \/ entries'[s] = entries[s]
                    \/ /\ entries'[s].call = c
                       /\ entries'[s].flags \in {{}, kind[c]}
                       /\ "WANT_SKB" \in entries'[s].flags
                            => entries'[s].source = c
  OBVIOUS
<1>1. entries[s] \in Entry
  BY DEF TypeOK
<1>2. CASE NoSpace(c)
  BY <1>2 DEF NoSpace
<1>3. CASE MapFails(c)
  <2>1. entries' = [entries EXCEPT ![Slot] = [entries[Slot] EXCEPT
                      !.call = c, !.flags = {}, !.source = Source(c)]]
    BY <1>3 DEF MapFails
  <2> QED
    BY <1>1, <2>1 DEF TypeOK, Entry
<1>4. CASE InFlightFails(c) \/ Enqueued(c)
  <2>1. entries' = [entries EXCEPT ![Slot] = Filled(c)]
    BY <1>4 DEF InFlightFails, Enqueued
  <2> QED
    BY <2>1 DEF TypeOK, Filled, Source
<1> QED
  BY <1>2, <1>3, <1>4 DEF iwl_pcie_enqueue_hcmd

\* What a completion does to the packets of the senders.
LEMMA RespStored ==
  ASSUME TypeOK, RxOwn, hcmd_complete
  PROVE  \A c \in Calls : \/ resp'[c] = resp[c]
                          \/ resp'[c] = c /\ pc[c] # "done"
<1>1. rx.source \in {None, rx.call} /\ rx.call \in Calls
  BY DEF hcmd_complete, RxOwn, TypeOK
<1>2. resp' = IF rx.source # None /\ pc[rx.source] # "done"
                THEN [resp EXCEPT ![rx.source] = rx.call] ELSE resp
  BY DEF hcmd_complete
<1> QED
  BY <1>1, <1>2 DEF TypeOK

\* The steps of a sender keep what AnswerInv says of the calls.
LEMMA SenderAnswer ==
  ASSUME TypeOK, AsyncPath, AnswerInv, NEW c \in Calls,
         iwl_trans_send_cmd(c) \/ CallStep(c)
  PROVE  (AnswerIsOwn /\ \A d \in Calls : Underway(d))'
<1> USE DEF TypeOK
<1>0. ASSUME /\ resp'[c] \in {None, c}
             /\ pc'[c] # "done" => ret'[c] # "0"
             /\ (pc'[c] \notin {"idle", "done"}
                   /\ kind'[c] \cap {"ASYNC", "NO_MUTEX"} # {})
                  => "WANT_SKB" \notin kind'[c]
             /\ pc'[c] = "done" /\ ret'[c] = "0" /\ "WANT_SKB" \in kind'[c]
                  => resp'[c] = c
      PROVE  (AnswerIsOwn /\ \A d \in Calls : Underway(d))'
  BY <1>0, SenderFrame DEF AnswerInv, AnswerIsOwn, Underway
<1>1. CASE iwl_trans_send_cmd(c)
  BY <1>0, <1>1, Accepted DEF AnswerInv, AnswerIsOwn, Underway
<1>2. CASE send_hcmd_sync(c) \/ Woken(c) \/ TimesOut(c)
           \/ iwl_trans_pcie_sync_nmi(c)
  BY <1>0, <1>2 DEF send_hcmd_sync, Woken, TimesOut, iwl_trans_pcie_sync_nmi,
                    Return, AnswerInv, AnswerIsOwn, Underway, AsyncPath
<1>3. CASE iwl_pcie_enqueue_hcmd(c)
  <2>1. resp' = resp /\ kind' = kind /\ pc[c] = "enqueue"
    BY <1>3 DEF iwl_pcie_enqueue_hcmd
  <2>2. \/ pc'[c] = "done" /\ ret'[c] # "0"
        \/ pc'[c] = "done" /\ "ASYNC" \in kind[c]
        \/ pc'[c] = "wait" /\ ret'[c] = ret[c] /\ "ASYNC" \notin kind[c]
    BY <1>3 DEF iwl_pcie_enqueue_hcmd, NoSpace, MapFails, InFlightFails,
                Enqueued, EnqueueFails, Return
  <2> QED
    BY <1>0, <2>1, <2>2 DEF AnswerInv, AnswerIsOwn, Underway
<1>4. CASE Check(c)
  <2>1. resp' = resp /\ kind' = kind /\ pc[c] = "check"
    BY <1>4 DEF Check
  <2>2. \/ pc'[c] = "done" /\ ("WANT_SKB" \in kind[c] => resp[c] # None)
        \/ pc'[c] = "cancel" /\ ret'[c] # "0"
    BY <1>4 DEF Check, Verdict, Return
  <2> QED
    BY <1>0, <2>1, <2>2 DEF AnswerInv, AnswerIsOwn, Underway
<1>5. CASE Cancel(c)
  BY <1>0, <1>5 DEF Cancel, Return, AnswerInv, Underway
<1> QED
  BY <1>1, <1>2, <1>3, <1>4, <1>5 DEF CallStep

\* Only the receive handler changes what it is at.
LEMMA RxFrame == ASSUME [Next]_vars, ~RxStep PROVE rx' = rx
BY DEF Next, CallStep, iwl_trans_send_cmd, send_hcmd_sync,
       iwl_pcie_enqueue_hcmd, Woken, TimesOut, iwl_trans_pcie_sync_nmi, Check,
       Cancel, SkipAnswer, irq_handle_error, irq_error_wake,
       iwl_pcie_handle_rfkill_irq, TransDead, stop_device, start_fw, vars

\* The invariant is kept by every step.
LEMMA AnswerStep ==
  ASSUME TypeOK, AsyncPath, RingInv, AnswerInv, [Next]_vars
  PROVE  AnswerInv'
<1>0. TypeOK' /\ RingInv' /\ Quiet'
  BY StepType, RingStep, QuietStep DEF AnswerInv
<1>1. (AnswerIsOwn /\ \A d \in Calls : Underway(d))'
  <2>1. ASSUME NEW c \in Calls, iwl_trans_send_cmd(c) \/ CallStep(c)
        PROVE  (AnswerIsOwn /\ \A d \in Calls : Underway(d))'
    BY <2>1, SenderAnswer
  <2>2. CASE ~\E c \in Calls : iwl_trans_send_cmd(c) \/ CallStep(c)
    <3>1. \A c \in Calls : resp'[c] = resp[c] \/ (resp'[c] = c /\ pc[c] # "done")
      BY <2>2, OtherFrame, RespStored DEF AnswerInv
    <3> QED
      BY <2>2, <3>1, OtherFrame DEF AnswerInv, AnswerIsOwn, Underway
  <2> QED
    BY <2>1, <2>2
<1> DEFINE Narrowed(s) == /\ entries'[s].call = entries[s].call
                          /\ entries'[s].source = entries[s].source
                          /\ entries'[s].flags \subseteq entries[s].flags
           Written(s) == \E c \in Calls :
                           /\ pc[c] = "enqueue" /\ state' = state
                           /\ entries'[s].flags \in {{}, kind[c]}
                           /\ "WANT_SKB" \in entries'[s].flags =>
                                entries'[s].source = c /\ entries'[s].call = c
<1>2. ASSUME NEW s \in Slots
      PROVE  Narrowed(s) \/ Written(s)
  <2>0. entries[s] \in Entry /\ entries \in [Slots -> Entry]
    BY DEF TypeOK
  <2>1. ASSUME NEW c \in Calls, iwl_pcie_enqueue_hcmd(c)
        PROVE  Narrowed(s) \/ Written(s)
    BY <2>1, EnqueueEntry DEF iwl_pcie_enqueue_hcmd
  <2>2. ASSUME NEW c \in Calls, Cancel(c)
        PROVE  Narrowed(s)
    BY <2>0, <2>2 DEF Cancel, Entry
  <2>3. CASE iwl_pcie_rx_handle_rb \/ hcmd_complete
    BY <2>0, <2>3 DEF iwl_pcie_rx_handle_rb, hcmd_complete, Entry
  <2>4. CASE entries' = entries
    BY <2>4
  <2> QED
    BY <2>1, <2>2, <2>3, <2>4
       DEF Next, CallStep, RxStep, iwl_trans_send_cmd, send_hcmd_sync, Woken,
           TimesOut, iwl_trans_pcie_sync_nmi, Check, hcmd_complete_lock,
           SkipAnswer, irq_handle_error, irq_error_wake, TransDead,
           iwl_pcie_handle_rfkill_irq, stop_device, start_fw, vars, ringVars
<1>3. SourceOwn'
  BY <1>2 DEF AnswerInv, SourceOwn
<1>4. RxOwn'
  <2>1. rx.index % Window \in Slots /\ rx'.index % Window \in Slots
    BY <1>0, Ranges DEF TypeOK
  <2>2. ASSUME rx'.pc = "taken"
        PROVE  LET e == entries'[rx'.index % Window]
               IN  e.call = rx'.call \/ "WANT_SKB" \notin e.flags
    <3>1. CASE state' = "FW_ALIVE"
      <4>1. Pending(RxMsg)' /\ RxMsg' \in Message
        BY <1>0, <2>2 DEF Pending, RxMsg, TypeOK, Message
      <4>2. Held(RxMsg)'
        BY <1>0, <3>1, <4>1 DEF RingInv
      <4> QED
        BY <4>2 DEF Held, RxMsg
    <3>2. CASE state' = "NO_FW"
      <4>1. rx' = rx
        <5>1. iwl_pcie_rx_handle_rb => FALSE
          BY <3>2 DEF iwl_pcie_rx_handle_rb, RingInv
        <5>2. hcmd_complete_lock \/ hcmd_complete => rx'.pc # "taken"
          <6>1. hcmd_complete_lock => rx'.pc = "locked"
            BY DEF hcmd_complete_lock, TypeOK
          <6>2. hcmd_complete => rx'.pc = "idle"
            BY DEF hcmd_complete, RxIdle
          <6> QED
            BY <6>1, <6>2
        <5> QED
          BY <2>2, <5>1, <5>2, RxFrame DEF RxStep
      <4>2. CASE Narrowed(rx.index % Window)
        BY <2>1, <2>2, <4>1, <4>2 DEF AnswerInv, RxOwn
      <4>3. CASE Written(rx.index % Window)
        <5>1. PICK c \in Calls :
                /\ pc[c] = "enqueue" /\ state' = state
                /\ entries'[rx.index % Window].flags \in {{}, kind[c]}
          BY <4>3
        <5>2. "WANT_SKB" \notin kind[c]
          <6>1. kind[c] \cap {"ASYNC", "NO_MUTEX"} # {}
            BY <3>2, <5>1 DEF AnswerInv, Quiet, MutexFree, InSync
          <6> QED
            BY <5>1, <6>1 DEF AnswerInv, Underway
        <5> QED
          BY <4>1, <5>1, <5>2
      <4> QED
        BY <1>2, <2>1, <4>2, <4>3
    <3> QED
      BY <1>0, <3>1, <3>2 DEF TypeOK
  <2>3. ASSUME rx'.pc = "locked" PROVE rx'.source \in {None, rx'.call}
    <3>1. CASE rx' = rx
      BY <2>3, <3>1 DEF AnswerInv, RxOwn
    <3>2. CASE hcmd_complete_lock
      <4>1. /\ rx.pc = "taken" /\ rx'.call = rx.call
            /\ rx'.source = IF "WANT_SKB" \in entries[rx.index % Window].flags
                              THEN entries[rx.index % Window].source ELSE None
        BY <3>2 DEF hcmd_complete_lock, iwl_pcie_get_cmd_index, TypeOK
      <4> QED
        BY <2>1, <4>1 DEF AnswerInv, RxOwn, SourceOwn
    <3>3. iwl_pcie_rx_handle_rb \/ hcmd_complete => rx'.pc # "locked"
      BY DEF iwl_pcie_rx_handle_rb, hcmd_complete, RxIdle
    <3> QED
      BY <2>3, <3>1, <3>2, <3>3, RxFrame DEF RxStep
  <2> QED
    BY <2>2, <2>3 DEF RxOwn
<1> QED
  BY <1>0, <1>1, <1>3, <1>4 DEF AnswerInv

LEMMA AnswerInit == Init => AnswerInv
<1> SUFFICES ASSUME Init PROVE AnswerInv
  OBVIOUS
<1>1. \A s \in Slots : entries[s] = NoCmd
  BY DEF Init, Slots
<1>2. rx.pc = "idle" /\ NoCmd.flags = {}
  BY DEF Init, RxIdle, NoCmd
<1> QED
  BY <1>1, <1>2 DEF Init, AnswerInv, Quiet, AnswerIsOwn, Underway, SourceOwn,
                    RxOwn

\* A sender that asked for the response packet and was told 0 has the packet
\* of its own command, and no sender is ever handed the packet of another's
\* (iwl_pcie_hcmd_complete, and the cancel path of iwl_pcie_send_hcmd_sync):
\* for every ring and window, with any number of timeouts, firmware errors,
\* rfkill interrupts, skipped commands and restarts.
THEOREM AnswerCorrect == Spec => []AnswerIsOwn
<1>1. Init => AnswerInv
  BY AnswerInit
<1>2. ActiveInv /\ RingInv /\ AnswerInv /\ [Next]_vars => AnswerInv'
  BY AnswerStep DEF ActiveInv
<1>3. ActiveInv /\ [Next]_vars => ActiveInv'
  BY ActiveStep
<1>4. ActiveInv /\ RingInv /\ [Next]_vars => RingInv'
  BY RingStep DEF ActiveInv
<1>5. AnswerInv => AnswerIsOwn
  BY DEF AnswerInv
<1> QED
  BY <1>1, <1>2, <1>3, <1>4, <1>5, ActiveInit, RingInit, PTL DEF Spec
-----------------------------------------------------------------------------
(* A synchronous call that is told 0 was answered.                         *)

\* While a synchronous call is under way that nothing disturbs, the firmware
\* is up.
Alive == \A c \in Calls \ disturbed : InSync(c) => state = "FW_ALIVE"

\* A call is pending, or answered, only after it has begun, and while nothing
\* disturbs it only after it has put its command on the ring.
Begun ==
  /\ \A m \in Message : Pending(m) => pc[m.call] # "idle"
  /\ \A c \in answered : /\ pc[c] # "idle"
                         /\ InSync(c) /\ c \notin disturbed => pc[c] \notin NotYet

\* The sender of an unanswered command still waits for it, has just given up
\* and is about to stop the firmware, was disturbed, or does not care.
Waits(c) ==
  \/ "ASYNC" \in kind[c] \/ c \in disturbed \/ pc[c] = "nmi"
  \/ pc[c] = "wait" /\ "SYNC_HCMD_ACTIVE" \in status /\ c \notin answered

\* Unless the firmware has failed or rfkill came, the senders of pending
\* commands wait.
SendersWait ==
  state = "FW_ALIVE" /\ status \cap {"FW_ERROR", "RFKILL_OPMODE"} = {} =>
    \A m \in Message : Pending(m) => Waits(m.call)

\* What the sender of a woken call will take for a failure.
Failed(c) == "FW_ERROR" \in status \/ Killed(kind[c])

\* A synchronous call that nothing disturbs and that will not fail, until it
\* is answered.
Holds(c) ==
  /\ InSync(c) /\ c \notin disturbed /\ ~Failed(c)
  /\ pc[c] \in {"send", "enqueue"} \/ (pc[c] = "wait" /\ c \notin answered)

\* Such a call has the bit, once it has taken it: no other is where it could
\* clear it, and no answer but its own may come.  Until then no other call is
\* under way.
Holder(c) ==
  Holds(c) =>
    /\ pc[c] # "send" => "SYNC_HCMD_ACTIVE" \in status
    /\ \A d \in Calls \ {c} :
         InSync(d) => pc[c] # "send" /\ pc[d] \notin {"enqueue", "wait"}
    /\ \A m \in Message :
         Pending(m) /\ "ASYNC" \notin kind[m.call] => m.call = c

\* When its wait is over, it was answered.
Told(c) ==
  pc[c] = "check" /\ InSync(c) /\ c \notin disturbed /\ ~Failed(c)
    => c \in answered

\* The invariant SuccessIsAnswered is proved with, beside ActiveInv, RingInv
\* and AnswerInv.
CallsInv ==
  /\ Alive /\ Begun /\ SendersWait
  /\ (\A c \in Calls : Holder(c) /\ Told(c)) /\ SuccessIsAnswered
SuccessInv == (err => "FW_ERROR" \in status) /\ CallsInv

\* Only an enqueue makes a command pending.
LEMMA PendingFrame ==
  ASSUME TypeOK, [Next]_vars, NEW m \in Message, Pending(m)',
         \A c \in Calls : ~(iwl_pcie_enqueue_hcmd(c) /\ Enqueued(c))
  PROVE  Pending(m)
<1>1. CASE iwl_pcie_rx_handle_rb
  <2>1. /\ sent # <<>> /\ sent' = Tail(sent) /\ rx'.index = Head(sent).index
        /\ rx'.call = Head(sent).call
    BY <1>1 DEF iwl_pcie_rx_handle_rb
  <2>2. RxMsg' = sent[1]
    BY <2>1, SentTail DEF RxMsg, Message
  <2> QED
    BY <2>1, <2>2, SentTail DEF Pending
<1>2. CASE SkipAnswer
  <2>1. sent # <<>> /\ sent' = Tail(sent) /\ rx' = rx
    BY <1>2 DEF SkipAnswer
  <2> QED
    BY <2>1, SentTail DEF Pending, RxMsg
<1>3. CASE hcmd_complete_lock \/ hcmd_complete
  <2>1. /\ sent' = sent
        /\ \/ rx'.pc = "idle"
           \/ rx.pc # "idle" /\ rx'.index = rx.index /\ rx'.call = rx.call
    <3>1. CASE hcmd_complete_lock
      BY <3>1 DEF hcmd_complete_lock, TypeOK
    <3>2. CASE hcmd_complete
      BY <3>2 DEF hcmd_complete, RxIdle
    <3> QED
      BY <1>3, <3>1, <3>2
  <2> QED
    BY <2>1 DEF Pending, RxMsg
<1>4. CASE stop_device
  <2>1. sent' = <<>> /\ DOMAIN sent' = {} /\ rx' = rx
    BY <1>4 DEF stop_device
  <2> QED
    BY <2>1 DEF Pending, RxMsg
<1>5. CASE sent' = sent /\ rx' = rx
  BY <1>5 DEF Pending, RxMsg
<1> QED
  BY <1>1, <1>2, <1>3, <1>4, <1>5
     DEF Next, CallStep, RxStep, iwl_trans_send_cmd, send_hcmd_sync,
         iwl_pcie_enqueue_hcmd, NoSpace, MapFails, InFlightFails, EnqueueFails,
         Woken, TimesOut, iwl_trans_pcie_sync_nmi, Check, Cancel,
         irq_handle_error, irq_error_wake, iwl_pcie_handle_rfkill_irq,
         TransDead, start_fw, vars, ringVars

\* The calls of pending commands are those whose answer is owed.
LEMMA PendingOwed ==
  ASSUME TypeOK, NEW m \in Message, Pending(m), "ASYNC" \notin kind[m.call]
  PROVE  m.call \in Owed
BY DEF Pending, Owed, RxMsg, Message

\* A call begins: those without the bit are disturbed, and it is if another
\* runs or an earlier answer may come that is not accounted for.
LEMMA AcceptedSuccess ==
  ASSUME ActiveInv, RingInv, AnswerInv, SuccessInv, [Next]_vars,
         NEW c \in Calls, iwl_trans_send_cmd(c)
  PROVE  CallsInv'
<1> USE DEF ActiveInv
<1>1. /\ pc[c] = "idle" /\ UNCHANGED <<state, status, sent, rx, answered>>
      /\ disturbed \subseteq disturbed'
  BY DEF iwl_trans_send_cmd
<1>2. \A d \in Calls : d # c =>
        pc'[d] = pc[d] /\ kind'[d] = kind[d] /\ ret'[d] = ret[d]
  BY SenderFrame
<1>3. \/ pc'[c] = "done" /\ ret'[c] # "0"
      \/ /\ state = "FW_ALIVE" /\ "FW_ERROR" \notin status
         /\ pc'[c] \in {"enqueue", "send"}
         /\ pc'[c] = "enqueue" => "ASYNC" \in kind'[c]
  BY Accepted
<1>4. InSync(c)' => disturbed' = disturbed \cup DisturbedBy(c)
  <2>1. PICK fl \in Kinds :
          /\ kind' = [kind EXCEPT ![c] = fl]
          /\ \/ Return(c, Refusal(fl))
             \/ disturbed' = IF "ASYNC" \in fl THEN disturbed
                             ELSE disturbed \cup DisturbedBy(c)
    BY DEF iwl_trans_send_cmd
  <2> QED
    BY <2>1 DEF Return, InSync, TypeOK
<1>5. /\ \A d \in Calls : d # c => (InSync(d)' <=> InSync(d))
      /\ InSync(c)' => pc'[c] = "send"
  BY <1>2, <1>3 DEF InSync
<1>6. \A m \in Message :
        Pending(m)' => Pending(m) /\ m.call # c /\ m.call \in Calls
  BY <1>1 DEF Pending, RxMsg, SuccessInv, CallsInv, Begun, Message
<1>7. Alive'
  BY <1>1, <1>3, <1>5 DEF SuccessInv, CallsInv, Alive
<1>8. Begun'
  <2>1. \A m \in Message : Pending(m)' => pc'[m.call] # "idle"
    BY <1>2, <1>6 DEF SuccessInv, CallsInv, Begun
  <2>2. \A d \in answered : d \in Calls /\ d # c
    BY <1>1 DEF SuccessInv, CallsInv, Begun, TypeOK
  <2> QED
    BY <1>1, <1>2, <1>5, <2>1, <2>2 DEF SuccessInv, CallsInv, Begun
<1>9. Holder(c)'
  <2>1. SUFFICES ASSUME Holds(c)' PROVE Holder(c)'
    BY DEF Holder
  <2>2. InSync(c)' /\ pc'[c] = "send"
    BY <1>5, <2>1 DEF Holds
  <2>3. DisturbedBy(c) \subseteq disturbed' /\ c \notin DisturbedBy(c)
    BY <1>4, <2>1, <2>2 DEF Holds
  <2>4. \A d \in Calls \ {c} : ~InSync(d)
    BY <2>3 DEF DisturbedBy
  <2>5. ASSUME NEW m \in Message, Pending(m)', "ASYNC" \notin kind'[m.call]
        PROVE  FALSE
    <3>1. /\ Pending(m) /\ m.call \in Calls \ {c}
          /\ "ASYNC" \notin kind[m.call]
      BY <1>2, <1>6, <2>5
    <3>2. m.call \in Owed
      BY <3>1, PendingOwed
    <3>3. "RFKILL_OPMODE" \notin status /\ m.call \notin disturbed
      BY <2>3, <3>2 DEF DisturbedBy
    <3>4. state = "FW_ALIVE" /\ "FW_ERROR" \notin status
      BY <1>3, <2>2
    <3>5. Waits(m.call)
      BY <3>1, <3>3, <3>4 DEF SuccessInv, CallsInv, SendersWait
    <3> QED
      BY <2>4, <3>1, <3>3, <3>5 DEF Waits, InSync
  <2> QED
    BY <1>5, <2>2, <2>4, <2>5 DEF Holder
<1>10. ASSUME NEW d \in Calls, d # c PROVE Holder(d)'
  <2>1. SUFFICES ASSUME Holds(d)' PROVE Holder(d)'
    BY DEF Holder
  <2>2. Holds(d) /\ pc'[d] = pc[d]
    BY <1>1, <1>2, <1>5, <1>10, <2>1 DEF Holds, Failed, Killed
  <2>3. Holder(d)
    BY DEF SuccessInv, CallsInv
  <2>4. ASSUME InSync(c)' PROVE pc[d] # "send" /\ pc'[c] = "send"
    <3>1. DisturbedBy(c) \subseteq disturbed' /\ d \notin disturbed'
      BY <1>4, <2>1, <2>4 DEF Holds
    <3>2. InSync(d)
      BY <2>2 DEF Holds
    <3> QED
      BY <1>5, <1>10, <2>4, <3>1, <3>2 DEF DisturbedBy
  <2>5. ASSUME NEW e \in Calls \ {d}, InSync(e)'
        PROVE  pc'[d] # "send" /\ pc'[e] \notin {"enqueue", "wait"}
    <3>1. CASE e = c
      BY <2>2, <2>4, <2>5, <3>1
    <3>2. CASE e # c
      BY <1>2, <1>5, <2>2, <2>3, <2>5, <3>2 DEF Holder
    <3> QED
      BY <3>1, <3>2
  <2>6. ASSUME NEW m \in Message, Pending(m)', "ASYNC" \notin kind'[m.call]
        PROVE  m.call = d
    BY <1>2, <1>6, <2>2, <2>3, <2>6 DEF Holder
  <2> QED
    BY <1>1, <2>2, <2>3, <2>5, <2>6 DEF Holder
<1>11. SendersWait'
  <2> SUFFICES ASSUME state' = "FW_ALIVE",
                      status' \cap {"FW_ERROR", "RFKILL_OPMODE"} = {},
                      NEW m \in Message, Pending(m)'
               PROVE  Waits(m.call)'
    BY DEF SendersWait
  <2>1. Waits(m.call) /\ m.call # c /\ m.call \in Calls
    BY <1>1, <1>6 DEF SuccessInv, CallsInv, SendersWait
  <2> QED
    BY <1>1, <1>2, <2>1 DEF Waits
<1>12. ASSUME NEW d \in Calls PROVE Told(d)'
  <2>1. CASE d = c
    BY <1>3, <2>1 DEF Told
  <2>2. CASE d # c
    BY <1>1, <1>2, <1>5, <2>2 DEF SuccessInv, CallsInv, Told, Failed, Killed
  <2> QED
    BY <2>1, <2>2
<1>13. SuccessIsAnswered'
  <2> SUFFICES ASSUME NEW d \in Calls, d \notin disturbed', pc'[d] = "done",
                      ret'[d] = "0", "ASYNC" \notin kind'[d]
               PROVE  d \in answered'
    BY DEF SuccessIsAnswered
  <2> QED
    BY <1>1, <1>2, <1>3 DEF SuccessInv, CallsInv, SuccessIsAnswered
<1> QED
  BY <1>7, <1>8, <1>9, <1>10, <1>11, <1>12, <1>13 DEF CallsInv

\* The step of a sender that puts no command on the ring.
LEMMA SenderSuccess ==
  ASSUME ActiveInv, RingInv, AnswerInv, SuccessInv, [Next]_vars,
         NEW c \in Calls, CallStep(c), ~(iwl_pcie_enqueue_hcmd(c) /\ Enqueued(c))
  PROVE  CallsInv'
<1> USE DEF ActiveInv
<1>1. /\ \A d \in Calls : d # c =>
           pc'[d] = pc[d] /\ kind'[d] = kind[d] /\ ret'[d] = ret[d]
      /\ UNCHANGED <<state, answered, kind, disturbed>>
      /\ pc[c] \notin {"idle", "done"}
  BY SenderFrame
<1>2. \A d \in Calls : InSync(d)' => InSync(d)
  BY <1>1 DEF InSync
<1>3. \A m \in Message : Pending(m)' => Pending(m)
  <2>1. ASSUME NEW d \in Calls, iwl_pcie_enqueue_hcmd(d), Enqueued(d)
        PROVE  FALSE
    <3>1. d # c /\ pc[d] = "enqueue" /\ pc'[d] \in {"done", "wait"}
      BY <2>1 DEF iwl_pcie_enqueue_hcmd, Enqueued, Return, TypeOK
    <3> QED
      BY <1>1, <2>1, <3>1
  <2> QED
    BY <2>1, PendingFrame
<1>4. Alive' /\ Begun'
  <2>1. Alive'
    BY <1>1, <1>2 DEF SuccessInv, CallsInv, Alive
  <2>2. pc'[c] # "idle" /\ (pc'[c] \in NotYet => pc[c] \in NotYet)
    BY DEF CallStep, send_hcmd_sync, iwl_pcie_enqueue_hcmd, NoSpace, MapFails,
           InFlightFails, EnqueueFails, Enqueued, Woken, TimesOut,
           iwl_trans_pcie_sync_nmi, Check, Cancel, Return, NotYet, TypeOK
  <2>3. \A m \in Message : Pending(m)' => pc'[m.call] # "idle"
    BY <1>1, <1>3, <2>2 DEF SuccessInv, CallsInv, Begun, Message
  <2>4. ASSUME NEW d \in answered
        PROVE  /\ pc'[d] # "idle"
               /\ InSync(d)' /\ d \notin disturbed => pc'[d] \notin NotYet
    BY <1>1, <1>2, <2>2 DEF SuccessInv, CallsInv, Begun, TypeOK
  <2> QED
    BY <1>1, <2>1, <2>3, <2>4 DEF Begun
<1>5. ASSUME {"FW_ERROR", "RFKILL_OPMODE"} \cap status \subseteq status',
             "RFKILL_OPMODE" \in status' => "RFKILL_OPMODE" \in status,
             \/ "FW_ERROR" \in status'
             \/ /\ Holder(c)' /\ Told(c)'
                /\ "SYNC_HCMD_ACTIVE" \in status \ status'
                     => InSync(c) /\ pc[c] \in {"enqueue", "wait"}
                /\ pc'[c] \in {"enqueue", "wait"}
                     => "SYNC_HCMD_ACTIVE" \notin status
                /\ pc[c] \in NotYet \/ Waits(c)' \/ ~Waits(c),
             /\ pc'[c] = "done" /\ ret'[c] = "0" /\ "ASYNC" \notin kind[c]
                /\ c \notin disturbed
               => c \in answered
      PROVE  CallsInv'
  <2>1. SuccessIsAnswered'
    BY <1>1, <1>5 DEF SuccessIsAnswered, SuccessInv, CallsInv
  <2>2. ASSUME NEW d \in Calls, d # c, Holds(d), "FW_ERROR" \notin status'
        PROVE  /\ pc[d] # "send" => "SYNC_HCMD_ACTIVE" \in status'
               /\ InSync(c) => pc'[c] \notin {"enqueue", "wait"}
    <3>1. Holder(d)
      BY DEF SuccessInv, CallsInv
    <3> QED
      BY <1>5, <2>2, <3>1 DEF Holder
  <2>3. ASSUME NEW d \in Calls PROVE Holder(d)' /\ Told(d)'
    <3>1. CASE "FW_ERROR" \in status'
      BY <3>1 DEF Holder, Holds, Told, Failed
    <3>2. CASE d = c /\ "FW_ERROR" \notin status'
      BY <1>5, <3>2
    <3>3. CASE d # c /\ "FW_ERROR" \notin status'
      <4>1. Failed(d) => Failed(d)'
        BY <1>1, <1>5 DEF Failed, Killed
      <4>2. Told(d)'
        BY <1>1, <1>2, <3>3, <4>1 DEF Told, SuccessInv, CallsInv
      <4>3. ASSUME Holds(d)' PROVE Holder(d)'
        <5>1. Holds(d) /\ pc'[d] = pc[d]
          BY <1>1, <1>2, <3>3, <4>1, <4>3 DEF Holds
        <5>2. Holder(d)
          BY DEF SuccessInv, CallsInv
        <5>3. pc[d] # "send" => "SYNC_HCMD_ACTIVE" \in status'
          BY <2>2, <3>3, <5>1
        <5>4. ASSUME NEW e \in Calls \ {d}, InSync(e)'
              PROVE  pc'[d] # "send" /\ pc'[e] \notin {"enqueue", "wait"}
          <6>1. InSync(e) /\ pc[d] # "send" /\ pc[e] \notin {"enqueue", "wait"}
            BY <1>2, <5>1, <5>2, <5>4 DEF Holder
          <6>2. CASE e = c
            BY <2>2, <3>3, <5>1, <6>1, <6>2
          <6>3. CASE e # c
            BY <1>1, <5>1, <6>1, <6>3
          <6> QED
            BY <6>2, <6>3
        <5> QED
          BY <1>1, <1>3, <5>1, <5>2, <5>3, <5>4 DEF Holder
      <4> QED
        BY <4>2, <4>3 DEF Holder
    <3> QED
      BY <3>1, <3>2, <3>3
  <2>4. SendersWait'
    <3> SUFFICES ASSUME state' = "FW_ALIVE",
                        status' \cap {"FW_ERROR", "RFKILL_OPMODE"} = {},
                        NEW m \in Message, Pending(m)'
                 PROVE  Waits(m.call)'
      BY DEF SendersWait
    <3>1. Pending(m) /\ m.call \in Calls
      BY <1>3 DEF Message
    <3>2. status \cap {"FW_ERROR", "RFKILL_OPMODE"} = {}
      BY <1>5
    <3>3. Waits(m.call) /\ pc[m.call] \notin NotYet
      BY <1>1, <3>1, <3>2 DEF SuccessInv, CallsInv, SendersWait, RingInv, Held
    <3>4. CASE m.call = c
      BY <1>5, <3>3, <3>4
    <3>5. CASE m.call # c
      <4>1. ASSUME "ASYNC" \notin kind[m.call], m.call \notin disturbed,
                   pc[m.call] = "wait", m.call \notin answered
            PROVE  "SYNC_HCMD_ACTIVE" \in status'
        <5>1. Holds(m.call)
          BY <3>1, <3>2, <4>1 DEF Holds, InSync, Failed, Killed
        <5> QED
          BY <2>2, <3>1, <3>5, <4>1, <5>1
      <4> QED
        BY <1>1, <3>1, <3>3, <3>5, <4>1 DEF Waits
    <3> QED
      BY <3>4, <3>5
  <2> QED
    BY <1>4, <2>1, <2>3, <2>4 DEF CallsInv
<1>6. CASE send_hcmd_sync(c)
  <2>1. /\ pc[c] = "send" /\ "SYNC_HCMD_ACTIVE" \in status'
        /\ status' = status \cup {"SYNC_HCMD_ACTIVE"}
        /\ \/ pc'[c] = "enqueue" /\ "SYNC_HCMD_ACTIVE" \notin status
           \/ pc'[c] = "done" /\ ret'[c] # "0"
    BY <1>6 DEF send_hcmd_sync, Return, TypeOK
  <2>2. ASSUME Holds(c)' PROVE Holder(c)'
    <3>1. Holds(c) /\ Holder(c)
      BY <1>1, <1>2, <2>1, <2>2 DEF Holds, Failed, Killed, SuccessInv, CallsInv
    <3>2. \A d \in Calls \ {c} : ~InSync(d)'
      BY <1>2, <2>1, <3>1 DEF Holder
    <3> QED
      BY <1>1, <1>3, <2>1, <3>1, <3>2 DEF Holder
  <2> QED
    BY <1>5, <2>1, <2>2 DEF Holder, Told, NotYet
<1>7. CASE iwl_pcie_enqueue_hcmd(c)
  <2>1. PICK r \in {"ENOSPC", "ENOMEM", "ENODEV", "EIO"} : EnqueueFails(c, r)
    BY <1>7 DEF iwl_pcie_enqueue_hcmd, NoSpace, MapFails, InFlightFails
  <2>2. pc[c] = "enqueue" /\ pc'[c] = "done" /\ ret'[c] # "0"
    BY <1>7, <2>1 DEF iwl_pcie_enqueue_hcmd, EnqueueFails, Return, TypeOK
  <2>3. /\ status' \in {status, status \ {"SYNC_HCMD_ACTIVE"}}
        /\ "SYNC_HCMD_ACTIVE" \in status \ status' => "ASYNC" \notin kind[c]
    BY <2>1 DEF EnqueueFails
  <2>4. Holder(c)' /\ Told(c)'
    BY <2>2 DEF Holder, Holds, Told
  <2> QED
    BY <1>5, <2>2, <2>3, <2>4 DEF NotYet, InSync
<1>8. CASE Woken(c)
  <2>1. /\ pc[c] = "wait" /\ "SYNC_HCMD_ACTIVE" \notin status /\ status' = status
        /\ pc'[c] = "check"
    BY <1>8 DEF Woken, TypeOK
  <2>2. Holder(c)'
    BY <2>1 DEF Holder, Holds
  <2>3. Told(c)'
    <3>1. Holder(c)
      BY DEF SuccessInv, CallsInv
    <3> QED
      BY <1>1, <1>2, <2>1, <3>1 DEF Told, Holder, Holds, Failed, Killed
  <2>4. Waits(c) => Waits(c)'
    BY <1>1, <2>1 DEF Waits
  <2> QED
    BY <1>5, <2>1, <2>2, <2>3, <2>4
<1>9. CASE TimesOut(c)
  <2>1. /\ pc[c] = "wait" /\ pc'[c] = "nmi"
        /\ status' = status \ {"SYNC_HCMD_ACTIVE"}
    BY <1>9 DEF TimesOut, TypeOK
  <2>2. Holder(c)' /\ Told(c)'
    BY <2>1 DEF Holder, Holds, Told
  <2> QED
    BY <1>5, <2>1, <2>2 DEF Waits, AsyncPath, InSync
<1>10. CASE iwl_trans_pcie_sync_nmi(c)
  <2>1. status' = status \cup {"FW_ERROR"} /\ pc'[c] = "cancel"
    BY <1>10 DEF iwl_trans_pcie_sync_nmi, TypeOK
  <2> QED
    BY <1>5, <2>1
<1>11. CASE Check(c)
  <2>1. /\ pc[c] = "check" /\ status' = status
        /\ pc'[c] \in {"done", "cancel"}
        /\ pc'[c] = "done" => ~Failed(c)
    BY <1>11 DEF Check, Verdict, Return, TypeOK, Failed
  <2>2. pc'[c] = "done" /\ c \notin disturbed /\ "ASYNC" \notin kind[c]
          => c \in answered
    BY <2>1 DEF SuccessInv, CallsInv, Told, InSync
  <2>3. Waits(c) => Waits(c)'
    BY <1>1, <2>1 DEF Waits
  <2>4. Holder(c)' /\ Told(c)'
    BY <2>1 DEF Holder, Holds, Told
  <2> QED
    BY <1>5, <2>1, <2>2, <2>3, <2>4
<1>12. CASE Cancel(c)
  <2>1. /\ pc[c] = "cancel" /\ status' = status /\ pc'[c] = "done"
        /\ ret'[c] # "0"
    BY <1>12 DEF Cancel, Return, TypeOK, AnswerInv, Underway
  <2>2. Waits(c) => Waits(c)'
    BY <1>1, <2>1 DEF Waits
  <2>3. Holder(c)' /\ Told(c)'
    BY <2>1 DEF Holder, Holds, Told
  <2> QED
    BY <1>5, <2>1, <2>2, <2>3
<1> QED
  BY <1>6, <1>7, <1>8, <1>9, <1>10, <1>11, <1>12 DEF CallStep

\* A command put on the ring: its sender waits, and owns the bit.
LEMMA EnqueuedSuccess ==
  ASSUME ActiveInv, RingInv, AnswerInv, SuccessInv, NEW c \in Calls,
         iwl_pcie_enqueue_hcmd(c), Enqueued(c)
  PROVE  CallsInv'
<1> USE DEF ActiveInv
<1>1. /\ pc[c] = "enqueue"
      /\ UNCHANGED <<state, rx, kind, answered, disturbed, status>>
      /\ \A d \in Calls : d # c => pc'[d] = pc[d] /\ ret'[d] = ret[d]
      /\ pc'[c] = IF "ASYNC" \in kind[c] THEN "done" ELSE "wait"
  BY DEF iwl_pcie_enqueue_hcmd, Enqueued, Return, TypeOK, histVars
<1>2. Holder(c)
  BY DEF SuccessInv, CallsInv
<1>3. SuccessIsAnswered'
  BY <1>1 DEF SuccessInv, CallsInv, SuccessIsAnswered
<1>4. \A d \in Calls : InSync(d)' => InSync(d)
  BY <1>1 DEF InSync
<1>5. ASSUME NEW m \in Message, Pending(m)'
      PROVE  Pending(m) \/ m.call = c
  <2>1. PICK new : new = [index |-> write_ptr, call |-> c]
    OBVIOUS
  <2>2. sent' = (IF state = "FW_ALIVE" THEN Append(sent, new) ELSE sent)
        /\ new.call = c
    BY <2>1 DEF Enqueued
  <2>3. \A i \in DOMAIN sent' :
          sent'[i] = new \/ (i \in DOMAIN sent /\ sent'[i] = sent[i])
    BY <2>1, <2>2 DEF TypeOK
  <2> QED
    BY <1>1, <1>5, <2>2, <2>3 DEF Pending, RxMsg
<1>6. Alive'
  BY <1>1, <1>4 DEF SuccessInv, CallsInv, Alive
<1>7. Begun'
  <2>1. pc'[c] \notin NotYet
    BY <1>1 DEF NotYet
  <2>2. \A m \in Message : Pending(m)' => pc'[m.call] # "idle"
    BY <1>1, <1>5 DEF SuccessInv, CallsInv, Begun, Message
  <2> QED
    BY <1>1, <1>4, <2>1, <2>2 DEF SuccessInv, CallsInv, Begun, TypeOK
<1>8. ASSUME NEW d \in Calls PROVE Told(d)'
  BY <1>1, <1>4 DEF SuccessInv, CallsInv, Told, Failed, Killed
<1>9. Holder(c)'
  <2>1. SUFFICES ASSUME Holds(c)' PROVE Holder(c)'
    BY DEF Holder
  <2>2. Holds(c)
    BY <1>1, <1>4, <2>1 DEF Holds, Failed, Killed
  <2> QED
    BY <1>1, <1>2, <1>4, <1>5, <2>2 DEF Holder
<1>10. ASSUME NEW d \in Calls, d # c PROVE Holder(d)'
  <2>1. SUFFICES ASSUME Holds(d)' PROVE Holder(d)'
    BY DEF Holder
  <2>2. Holds(d) /\ pc'[d] = pc[d]
    BY <1>1, <1>4, <1>10, <2>1 DEF Holds, Failed, Killed
  <2>3. Holder(d)
    BY DEF SuccessInv, CallsInv
  <2>4. "ASYNC" \in kind[c] /\ ~InSync(c)
    BY <1>1, <1>10, <2>2, <2>3 DEF Holder, InSync
  <2> QED
    BY <1>1, <1>4, <1>5, <2>2, <2>3, <2>4 DEF Holder
<1>11. ASSUME state' = "FW_ALIVE",
              status' \cap {"FW_ERROR", "RFKILL_OPMODE"} = {},
              NEW m \in Message, Pending(m)'
       PROVE  Waits(m.call)'
  <2>1. CASE m.call = c
    <3>1. SUFFICES ASSUME "ASYNC" \notin kind[c], c \notin disturbed
                   PROVE  Waits(c)'
      BY <1>1, <2>1 DEF Waits
    <3>2. Holds(c)
      BY <1>1, <1>11, <3>1 DEF Holds, InSync, Failed, Killed
    <3>3. c \notin answered
      BY <1>1, <3>2 DEF Holds, NotYet, SuccessInv, CallsInv, Begun
    <3> QED
      BY <1>1, <1>2, <3>1, <3>2, <3>3 DEF Waits, Holder
  <2>2. CASE Pending(m) /\ m.call # c
    <3>1. Waits(m.call) /\ m.call \in Calls
      BY <1>1, <1>11, <2>2 DEF SuccessInv, CallsInv, SendersWait, Message
    <3> QED
      BY <1>1, <2>2, <3>1 DEF Waits
  <2> QED
    BY <1>5, <1>11, <2>1, <2>2
<1>12. SendersWait'
  BY <1>11 DEF SendersWait
<1> QED
  BY <1>3, <1>6, <1>7, <1>8, <1>9, <1>10, <1>12 DEF CallsInv

\* A completion clears the bit for the call it answers.
LEMMA CompleteSuccess ==
  ASSUME ActiveInv, RingInv, AnswerInv, SuccessInv, [Next]_vars, hcmd_complete
  PROVE  CallsInv'
<1> USE DEF ActiveInv
<1>1. /\ rx.pc = "locked" /\ UNCHANGED <<state, sent, pc, kind, ret, disturbed>>
      /\ answered' = answered \cup {rx.call}
      /\ status' = IF "ASYNC" \in entries[rx.index % Window].flags THEN status
                   ELSE status \ {"SYNC_HCMD_ACTIVE"}
      /\ rx' = RxIdle /\ rx'.pc = "idle"
  BY DEF hcmd_complete, iwl_pcie_get_cmd_index, RxIdle
<1>2. RxMsg \in Message /\ Pending(RxMsg) /\ RxMsg.call = rx.call
  BY <1>1 DEF Pending, RxMsg, TypeOK, Message
<1>3. SuccessIsAnswered'
  BY <1>1 DEF SuccessInv, CallsInv, SuccessIsAnswered
<1>4. \A d \in Calls : InSync(d)' <=> InSync(d)
  BY <1>1 DEF InSync
<1>5. Alive'
  BY <1>1, <1>4 DEF SuccessInv, CallsInv, Alive
<1>6. \A m \in Message : Pending(m)' => Pending(m) /\ Precedes(RxMsg, m)
  BY <1>1 DEF Pending, Precedes
<1>7. ASSUME state = "FW_ALIVE" PROVE pc[rx.call] \notin NotYet
  BY <1>2, <1>7 DEF RingInv, Held
<1>8. Begun'
  <2>1. pc[rx.call] # "idle"
    BY <1>2 DEF SuccessInv, CallsInv, Begun
  <2>2. InSync(rx.call) /\ rx.call \notin disturbed => pc[rx.call] \notin NotYet
    BY <1>1, <1>7 DEF SuccessInv, CallsInv, Alive, TypeOK
  <2> QED
    BY <1>1, <1>4, <1>6, <2>1, <2>2 DEF SuccessInv, CallsInv, Begun, TypeOK
<1>9. ASSUME NEW d \in Calls, Holds(d), "SYNC_HCMD_ACTIVE" \in status \ status'
      PROVE  d = rx.call /\ pc[d] \notin NotYet
  <2>1. state = "FW_ALIVE" /\ Holder(d)
    BY <1>9 DEF Holds, SuccessInv, CallsInv, Alive
  <2>2. Held(RxMsg)
    BY <1>2, <2>1 DEF RingInv
  <2>3. "ASYNC" \notin kind[rx.call] /\ pc[rx.call] \notin NotYet
    BY <1>1, <1>9, <2>2 DEF Held, RxMsg
  <2>4. rx.call = d
    BY <1>2, <1>9, <2>1, <2>3 DEF Holder
  <2> QED
    BY <2>3, <2>4
<1>10. ASSUME NEW d \in Calls PROVE Holder(d)' /\ Told(d)'
  <2>1. Told(d)'
    BY <1>1, <1>4 DEF Told, Failed, Killed, SuccessInv, CallsInv
  <2>2. ASSUME Holds(d)' PROVE Holder(d)'
    <3>1. Holds(d) /\ Holder(d)
      BY <1>1, <1>4, <2>2 DEF Holds, Failed, Killed, SuccessInv, CallsInv
    <3>2. "SYNC_HCMD_ACTIVE" \notin status \ status'
      BY <1>1, <1>9, <2>2, <3>1 DEF Holds, NotYet
    <3> QED
      BY <1>1, <1>4, <1>6, <3>1, <3>2 DEF Holder
  <2> QED
    BY <2>1, <2>2 DEF Holder
<1>11. ASSUME state' = "FW_ALIVE",
              status' \cap {"FW_ERROR", "RFKILL_OPMODE"} = {},
              NEW m \in Message, Pending(m)'
       PROVE  Waits(m.call)'
  <2>1. Pending(m) /\ Precedes(RxMsg, m) /\ m.call \in Calls
    BY <1>6, <1>11 DEF Message
  <2>2. /\ status \cap {"FW_ERROR", "RFKILL_OPMODE"} = {}
        /\ state = "FW_ALIVE"
    BY <1>1, <1>11
  <2>3. Waits(m.call)
    BY <2>1, <2>2 DEF SuccessInv, CallsInv, SendersWait
  <2>4. m.call # rx.call
    BY <1>2, <2>1, <2>2 DEF RingInv, Older
  <2>5. ASSUME "ASYNC" \notin kind[m.call], m.call \notin disturbed,
               pc[m.call] = "wait", m.call \notin answered
        PROVE  "SYNC_HCMD_ACTIVE" \notin status \ status'
    <3>1. Holds(m.call)
      BY <2>1, <2>2, <2>5 DEF Holds, InSync, Failed, Killed
    <3> QED
      BY <1>9, <2>1, <2>4, <3>1
  <2> QED
    BY <1>1, <2>3, <2>4, <2>5 DEF Waits
<1>12. SendersWait'
  BY <1>11 DEF SendersWait
<1> QED
  BY <1>3, <1>5, <1>8, <1>10, <1>12 DEF CallsInv

\* Steps that leave the calls alone, clear the bit only with an error or rfkill
\* set, and disturb whom rfkill cannot fail.
LEMMA OtherSuccess ==
  ASSUME ActiveInv, SuccessInv, UNCHANGED <<pc, kind, ret, state, answered>>,
         disturbed \subseteq disturbed',
         \A m \in Message : Pending(m)' => Pending(m),
         {"FW_ERROR", "RFKILL_OPMODE"} \cap status \subseteq status',
         \/ "SYNC_HCMD_ACTIVE" \in status => "SYNC_HCMD_ACTIVE" \in status'
         \/ "FW_ERROR" \in status'
         \/ /\ "RFKILL_OPMODE" \in status'
            /\ \A c \in Calls : InSync(c) /\ "SEND_IN_RFKILL" \in kind[c]
                                  => c \in disturbed'
  PROVE  CallsInv'
<1>1. \A c \in Calls : InSync(c)' <=> InSync(c)
  BY DEF InSync
<1>2. Alive' /\ Begun'
  <2>1. Alive'
    BY <1>1 DEF SuccessInv, CallsInv, Alive
  <2>2. \A m \in Message : Pending(m)' => pc'[m.call] # "idle"
    BY DEF SuccessInv, CallsInv, Begun
  <2>3. \A c \in answered' :
          /\ c \in Calls /\ pc'[c] # "idle"
          /\ InSync(c) /\ c \notin disturbed => pc'[c] \notin NotYet
    BY DEF SuccessInv, CallsInv, Begun, ActiveInv, TypeOK
  <2> QED
    BY <1>1, <2>1, <2>2, <2>3 DEF Begun
<1>3. SendersWait'
  BY DEF SuccessInv, CallsInv, SendersWait, Waits
<1>4. \A c \in Calls : Failed(c) => Failed(c)'
  BY DEF Failed, Killed
<1>5. ASSUME NEW c \in Calls PROVE Holder(c)' /\ Told(c)'
  <2>1. Told(c)'
    BY <1>1, <1>4 DEF Told, SuccessInv, CallsInv
  <2>2. ASSUME Holds(c)' PROVE Holder(c)'
    <3>1. Holds(c) /\ Holder(c)
      BY <1>1, <1>4, <2>2 DEF Holds, SuccessInv, CallsInv
    <3>2. "SYNC_HCMD_ACTIVE" \in status => "SYNC_HCMD_ACTIVE" \in status'
      BY <1>1, <2>2, <3>1 DEF Holds, Failed, Killed
    <3> QED
      BY <1>1, <3>1, <3>2 DEF Holder
  <2> QED
    BY <2>1, <2>2 DEF Holder
<1>6. SuccessIsAnswered'
  BY DEF SuccessInv, CallsInv, SuccessIsAnswered
<1> QED
  BY <1>2, <1>3, <1>5, <1>6 DEF CallsInv

\* Steps with the firmware down on one side leave no call undisturbed.
LEMMA DownSuccess ==
  ASSUME ActiveInv, SuccessInv, UNCHANGED <<pc, kind, ret, answered>>,
         disturbed \subseteq disturbed',
         \/ state = "NO_FW"
         \/ \A c \in Calls : InSync(c) => c \in disturbed',
         \A m \in Message : Pending(m)' => Pending(m) /\ state' # "FW_ALIVE"
  PROVE  CallsInv'
<1>1. \A c \in Calls : InSync(c)' => c \in disturbed'
  BY DEF InSync, SuccessInv, CallsInv, Alive
<1>2. Alive' /\ Begun'
  <2>1. Alive'
    BY <1>1 DEF Alive
  <2>2. \A m \in Message : Pending(m)' => pc'[m.call] # "idle"
    BY DEF SuccessInv, CallsInv, Begun
  <2>3. \A c \in answered' : c \in Calls /\ pc'[c] # "idle"
    BY DEF SuccessInv, CallsInv, Begun, ActiveInv, TypeOK
  <2> QED
    BY <1>1, <2>1, <2>2, <2>3 DEF Begun
<1>3. SendersWait'
  BY DEF SendersWait
<1>4. \A c \in Calls : Holder(c)' /\ Told(c)'
  BY <1>1 DEF Holder, Holds, Told
<1>5. SuccessIsAnswered'
  BY DEF SuccessInv, CallsInv, SuccessIsAnswered
<1> QED
  BY <1>2, <1>3, <1>4, <1>5 DEF CallsInv

\* Every step keeps the invariant.
LEMMA SuccessStep ==
  ASSUME ActiveInv, RingInv, AnswerInv, SuccessInv, [Next]_vars
  PROVE  SuccessInv'
<1>1. (err => "FW_ERROR" \in status)'
  <2>1. err => "FW_ERROR" \in status
    BY DEF SuccessInv
  <2>2. \/ "FW_ERROR" \in status => "FW_ERROR" \in status'
        \/ start_fw
    BY DEF Next, CallStep, RxStep, iwl_trans_send_cmd, send_hcmd_sync,
       iwl_pcie_enqueue_hcmd, NoSpace, MapFails, InFlightFails, EnqueueFails,
       Enqueued, Woken, TimesOut, iwl_trans_pcie_sync_nmi, Check, Cancel,
       iwl_pcie_rx_handle_rb, hcmd_complete_lock, hcmd_complete, SkipAnswer,
       irq_handle_error, irq_error_wake, iwl_pcie_handle_rfkill_irq, rfkill_on,
       rfkill_off, TransDead, stop_device, vars
  <2>3. err' => err \/ "FW_ERROR" \in status'
    BY DEF Next, CallStep, RxStep, iwl_trans_send_cmd, send_hcmd_sync,
       iwl_pcie_enqueue_hcmd, Woken, TimesOut, iwl_trans_pcie_sync_nmi, Check,
       Cancel, iwl_pcie_rx_handle_rb, hcmd_complete_lock, hcmd_complete,
       SkipAnswer, irq_handle_error, irq_error_wake,
       iwl_pcie_handle_rfkill_irq, TransDead, stop_device, start_fw, vars
  <2>4. start_fw => ~err /\ ~err'
    BY DEF start_fw
  <2> QED
    BY <2>1, <2>2, <2>3, <2>4
<1> SUFFICES CallsInv'
  BY <1>1 DEF SuccessInv
<1>2. ASSUME NEW c \in Calls, iwl_trans_send_cmd(c) \/ CallStep(c)
      PROVE  CallsInv'
  <2>1. CASE iwl_trans_send_cmd(c)
    BY <2>1, AcceptedSuccess
  <2>2. CASE iwl_pcie_enqueue_hcmd(c) /\ Enqueued(c)
    BY <2>2, EnqueuedSuccess
  <2>3. CASE CallStep(c) /\ ~(iwl_pcie_enqueue_hcmd(c) /\ Enqueued(c))
    BY <2>3, SenderSuccess
  <2> QED
    BY <1>2, <2>1, <2>2, <2>3
<1>3. ASSUME pc' = pc, NEW m \in Message, Pending(m)'
      PROVE  Pending(m)
  <2>1. ASSUME NEW c \in Calls, iwl_pcie_enqueue_hcmd(c), Enqueued(c)
        PROVE  pc'[c] # pc[c]
    BY <2>1 DEF iwl_pcie_enqueue_hcmd, Enqueued, Return, ActiveInv, TypeOK
  <2> QED
    BY <1>3, <2>1, PendingFrame DEF ActiveInv
<1>4. CASE \/ iwl_pcie_rx_handle_rb \/ hcmd_complete_lock \/ SkipAnswer
           \/ irq_handle_error \/ irq_error_wake \/ TransDead
           \/ UNCHANGED vars
  <2>1. UNCHANGED <<pc, kind, ret, state, answered, disturbed>>
    BY <1>4 DEF iwl_pcie_rx_handle_rb, hcmd_complete_lock, SkipAnswer,
       irq_handle_error, irq_error_wake, TransDead, vars, callVars, histVars
  <2>2. \/ status' \ {"TRANS_DEAD"} = status \ {"TRANS_DEAD"}
        \/ /\ "FW_ERROR" \in status'
           /\ "RFKILL_OPMODE" \in status => "RFKILL_OPMODE" \in status'
    BY <1>4 DEF SuccessInv, iwl_pcie_rx_handle_rb, hcmd_complete_lock,
       SkipAnswer, irq_handle_error, irq_error_wake, TransDead, vars
  <2>3. \A m \in Message : Pending(m)' => Pending(m)
    BY <1>3, <2>1
  <2> QED
    BY <2>1, <2>2, <2>3, OtherSuccess
<1>5. CASE iwl_pcie_handle_rfkill_irq
  <2>1. /\ UNCHANGED <<pc, kind, ret, state, answered, sent, rx>>
        /\ disturbed \subseteq disturbed'
    BY <1>5 DEF iwl_pcie_handle_rfkill_irq, rfkill_on, rfkill_off, callVars
  <2>2. \A m \in Message : Pending(m)' => Pending(m)
    BY <1>3, <2>1
  <2>3. CASE rfkill_on
    <3>1. /\ {"FW_ERROR", "RFKILL_OPMODE"} \cap status \subseteq status'
          /\ "RFKILL_OPMODE" \in status'
          /\ \A c \in Calls : InSync(c) /\ "SEND_IN_RFKILL" \in kind[c]
                                => c \in disturbed'
      BY <2>3 DEF rfkill_on
    <3> QED
      BY <2>1, <2>2, <3>1, OtherSuccess
  <2>4. CASE rfkill_off
    <3>1. state = "NO_FW" /\ state' # "FW_ALIVE"
      BY <2>1, <2>4 DEF rfkill_off
    <3> QED
      BY <2>1, <2>2, <3>1, DownSuccess
  <2> QED
    BY <1>5, <2>3, <2>4 DEF iwl_pcie_handle_rfkill_irq
<1>6. CASE stop_device
  <2>1. /\ UNCHANGED <<pc, kind, ret, answered>>
        /\ disturbed \subseteq disturbed' /\ state' = "NO_FW"
        /\ \A c \in Calls : InSync(c) => c \in disturbed'
    BY <1>6 DEF stop_device, callVars
  <2>2. \A m \in Message : Pending(m)' => Pending(m)
    BY <1>3, <2>1
  <2> QED
    BY <2>1, <2>2, DownSuccess
<1>7. CASE start_fw
  <2>1. /\ UNCHANGED <<pc, kind, ret, answered, disturbed>> /\ state = "NO_FW"
    BY <1>7 DEF start_fw, callVars, histVars
  <2>2. sent' = <<>> /\ rx'.pc = "idle" /\ DOMAIN sent' = {}
    BY <1>7 DEF start_fw, RingInv
  <2>3. \A m \in Message : ~Pending(m)'
    BY <2>2 DEF Pending
  <2> QED
    BY <2>1, <2>3, DownSuccess
<1> QED
  BY <1>2, <1>4, <1>5, <1>6, <1>7, CompleteSuccess DEF Next, RxStep

\* A synchronous call that returns 0 was answered (iwl_pcie_send_hcmd_sync),
\* unless it began beside a call of the other kind, or one began beside it
\* before it had the active bit, the device was stopped under it, or rfkill
\* woke it and could not fail it: neither an error or rfkill
\* interrupt, nor the late answer to a call that timed out or failed, nor a
\* restart ends its wait as a success, for every ring, window and set of kinds.
THEOREM SuccessCorrect == Spec => []SuccessIsAnswered
<1>1. Init => AnswerInv
  BY AnswerInit
<1>2. Init => SuccessInv
  <2> SUFFICES ASSUME Init PROVE SuccessInv
    OBVIOUS
  <2>1. sent = <<>> /\ DOMAIN sent = {} /\ rx.pc = "idle" /\ ~err
        /\ \A c \in Calls : pc[c] = "idle"
    BY DEF Init, RxIdle
  <2> QED
    BY <2>1 DEF Init, SuccessInv, CallsInv, Alive, Begun, InSync, SendersWait,
                Pending, Holder, Holds, Told, SuccessIsAnswered
<1>3. ActiveInv /\ RingInv /\ AnswerInv /\ [Next]_vars => AnswerInv'
  BY AnswerStep DEF ActiveInv
<1>4. ActiveInv /\ [Next]_vars => ActiveInv'
  BY ActiveStep
<1>5. ActiveInv /\ RingInv /\ [Next]_vars => RingInv'
  BY RingStep DEF ActiveInv
<1>6. ActiveInv /\ RingInv /\ AnswerInv /\ SuccessInv /\ [Next]_vars
        => SuccessInv'
  BY SuccessStep
<1>7. SuccessInv => SuccessIsAnswered
  BY DEF SuccessInv, CallsInv
<1> QED
  BY <1>1, <1>2, <1>3, <1>4, <1>5, <1>6, <1>7, ActiveInit, RingInit, PTL
     DEF Spec
=============================================================================
