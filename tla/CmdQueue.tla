------------------------------ MODULE CmdQueue ------------------------------
(***************************************************************************)
(* The host command queue of the PCIe transport (pcie/tx.c): the ring the  *)
(* driver puts commands on, the threads that send them, the receive        *)
(* handler that completes them (iwl_pcie_hcmd_complete), the error and     *)
(* rfkill interrupts that wake a waiting sender early, and the stop and    *)
(* start of the device around a firmware restart.                          *)
(*                                                                         *)
(* A call is one execution of iwl_trans_send_cmd; its number stands for    *)
(* the struct iwl_host_cmd on the sender's stack, for the copy of its data *)
(* (IWL_HCMD_DFL_DUP) and for the packet that answers it.  A synchronous   *)
(* call holds the mutex of the op-mode, except that the readers of the PTP *)
(* clock hold systim_lock instead (the flag NO_MUTEX).  The firmware is of *)
(* the unified kind, so an rfkill interrupt does not stop the device.      *)
(*                                                                         *)
(* txq->lock is held from rx.pc = "locked" to the end of the completion;   *)
(* all other critical sections are single actions that wait for it.        *)
(***************************************************************************)
EXTENDS Integers, Sequences, FiniteSets

CONSTANTS
  QueueSize,    \* max_tfd_queue_size: positions of the ring
  Window,       \* n_window: entries behind the positions
  ApmgWakeUpWa, \* apmg_wake_up_wa: the NIC is held awake for commands
  Kinds,        \* the flags a call may have
  MaxCalls,     \* bound: calls in a behaviour
  MaxErrors,    \* bound: firmware error interrupts
  MaxRfkills,   \* bound: rfkill interrupts
  MaxSkips,     \* bound: commands the firmware never answers but goes past
  MaxStops,     \* bound: stops of the device
  MaxDeaths     \* bound: disappearances of the device

\* NO_MUTEX is no flag of the command: it marks a call of the PTP clock.
Flags == {"ASYNC", "WANT_SKB", "SEND_IN_RFKILL", "DUP", "NO_MUTEX"}
Calls == 1..MaxCalls
None == 0

ASSUME CmdQueueAssumption ==
  /\ QueueSize \in Nat \ {0} /\ Window \in 1..QueueSize
  /\ QueueSize % Window = 0
  /\ ApmgWakeUpWa \in BOOLEAN
  /\ Kinds \subseteq SUBSET Flags
  /\ \A fl \in Kinds : "NO_MUTEX" \in fl => fl = {"NO_MUTEX"}
  /\ MaxCalls \in Nat

StatusBits == {"SYNC_HCMD_ACTIVE", "RFKILL_OPMODE", "FW_ERROR", "TRANS_DEAD"}
Errors == {"ERFKILL", "EIO", "ENODEV", "EINVAL", "ENOSPC", "ENOMEM",
           "ETIMEDOUT", "already active"}

VARIABLES
  read_ptr, write_ptr,
  entries,   \* per entry: flags, source, free_buf, and the command in it
  status,    \* trans->status
  state,     \* trans->state
  hold,      \* cmd_hold_nic_awake
  sent,      \* positions the firmware has yet to answer, in order
  rx,        \* the response the receive handler is at
  err,       \* the error interrupt is between its two steps
  pc, kind, cmd_idx, ret, resp, \* per call; resp is cmd->resp_pkt
  answered,  \* history: calls whose response was completed
  wild,      \* history: a response was stored for a call that had returned
  disturbed, \* history: synchronous calls another actor may have woken
  budget     \* what is left of the bounds

ringVars == <<read_ptr, write_ptr, entries, hold>>
callVars == <<pc, kind, cmd_idx, ret, resp>>
histVars == <<answered, wild, disturbed>>
vars == <<ringVars, status, state, sent, rx, err, callVars, histVars, budget>>

RxIdle == [pc |-> "idle", index |-> 0, call |-> None, source |-> None]
NoCmd == [call |-> None, flags |-> {}, source |-> None, free_buf |-> None]

iwl_pcie_get_cmd_index(i) == i % Window
iwl_queue_inc_wrap(i) == (i + 1) % QueueSize

Used == (write_ptr - read_ptr) % QueueSize

\* Mutant of MaxUsed: the whole ring is taken to have entries.
MaxUsedRing == QueueSize - 1

MaxUsed == IF Window < QueueSize THEN Window ELSE QueueSize - 1
iwl_queue_space == IF Used > MaxUsed THEN 0 ELSE MaxUsed - Used

\* Is position i between the read and the write pointer, as far as their
\* entry indices tell?
iwl_queue_used(i) ==
  LET index == iwl_pcie_get_cmd_index(i)
      r == iwl_pcie_get_cmd_index(read_ptr)
      w == iwl_pcie_get_cmd_index(write_ptr)
  IN IF w >= r THEN index >= r /\ index < w ELSE ~(index < r /\ index >= w)

Init ==
  /\ read_ptr = 0 /\ write_ptr = 0
  /\ entries = [i \in 0..(Window - 1) |-> NoCmd]
  /\ status = {} /\ state = "FW_ALIVE" /\ hold = FALSE
  /\ sent = <<>> /\ rx = RxIdle /\ err = FALSE
  /\ pc = [c \in Calls |-> "idle"] /\ kind = [c \in Calls |-> {}]
  /\ cmd_idx = [c \in Calls |-> 0] /\ ret = [c \in Calls |-> "none"]
  /\ resp = [c \in Calls |-> None]
  /\ answered = {} /\ wild = FALSE /\ disturbed = {}
  /\ budget = [errors |-> MaxErrors, rfkills |-> MaxRfkills,
               skips |-> MaxSkips, stops |-> MaxStops, deaths |-> MaxDeaths]

Spend(f) == budget[f] > 0 /\ budget' = [budget EXCEPT ![f] = @ - 1]

\* txq->lock is free.
Unlocked == rx.pc # "locked"

InSync(c) == pc[c] \notin {"idle", "done"} /\ "ASYNC" \notin kind[c]

\* mvm->mutex is free.
MutexFree == \A c \in Calls : InSync(c) => "NO_MUTEX" \in kind[c]

\* mvm->systim_lock is free.
SystimLockFree == \A c \in Calls : InSync(c) => "NO_MUTEX" \notin kind[c]

\* Synchronous calls whose answer is still to come.
Owed == {c \in {sent[i].call : i \in DOMAIN sent}
                \cup (IF rx.pc = "idle" THEN {} ELSE {rx.call}) :
           "ASYNC" \notin kind[c]}

\* What the start of synchronous call c disturbs: whoever has yet to take the
\* active bit, and c itself if it runs beside another or after one that was
\* disturbed, or in rfkill, with the answer to an earlier call still to come.
DisturbedBy(c) ==
  LET others == {d \in Calls \ {c} : InSync(d)}
      owed == IF "RFKILL_OPMODE" \in status THEN Owed ELSE Owed \cap disturbed
  IN {d \in others : pc[d] = "send"}
       \cup (IF others \cup owed = {} THEN {} ELSE {c})

Return(c, r) == pc' = [pc EXCEPT ![c] = "done"] /\ ret' = [ret EXCEPT ![c] = r]

-----------------------------------------------------------------------------
(* Sending.                                                                *)

Killed(fl) == "SEND_IN_RFKILL" \notin fl /\ "RFKILL_OPMODE" \in status

\* What iwl_trans_send_cmd and iwl_trans_pcie_send_hcmd refuse a command with.
Refusal(fl) ==
  IF Killed(fl) THEN "ERFKILL"
  ELSE IF "FW_ERROR" \in status \/ state # "FW_ALIVE" THEN "EIO"
  ELSE IF "TRANS_DEAD" \in status THEN "ENODEV"
  ELSE IF {"ASYNC", "WANT_SKB"} \subseteq fl THEN "EINVAL"
  ELSE "none"

iwl_trans_send_cmd(c) ==
  /\ pc[c] = "idle" /\ \A d \in Calls : d < c => pc[d] # "idle"
  /\ \E fl \in Kinds :
       /\ \/ "ASYNC" \in fl
          \/ "NO_MUTEX" \in fl /\ SystimLockFree
          \/ "NO_MUTEX" \notin fl /\ MutexFree
       /\ kind' = [kind EXCEPT ![c] = fl]
       /\ IF Refusal(fl) # "none"
            THEN Return(c, Refusal(fl)) /\ UNCHANGED disturbed
            ELSE /\ pc' = [pc EXCEPT ![c] = IF "ASYNC" \in fl
                                              THEN "enqueue" ELSE "send"]
                 /\ UNCHANGED ret
                 /\ disturbed' = IF "ASYNC" \in fl THEN disturbed
                                  ELSE disturbed \cup DisturbedBy(c)
  /\ UNCHANGED <<ringVars, status, state, sent, rx, err, cmd_idx, resp,
                 answered, wild, budget>>

\* iwl_pcie_send_hcmd_sync up to the enqueue: test_and_set_bit.
send_hcmd_sync(c) ==
  /\ pc[c] = "send"
  /\ IF "SYNC_HCMD_ACTIVE" \in status
       THEN Return(c, "already active")
       ELSE pc' = [pc EXCEPT ![c] = "enqueue"] /\ UNCHANGED ret
  /\ status' = status \cup {"SYNC_HCMD_ACTIVE"}
  /\ UNCHANGED <<ringVars, state, sent, rx, err, kind, cmd_idx, resp, histVars,
                 budget>>

\* Mutant of EnqueueFails.
EnqueueFailsActive(c, r) ==
  /\ Return(c, r)
  /\ UNCHANGED <<read_ptr, write_ptr, hold, sent, cmd_idx, status>>

\* A failed enqueue: a synchronous call clears the bit it had set.
EnqueueFails(c, r) ==
  /\ Return(c, r)
  /\ status' = IF "ASYNC" \in kind[c] THEN status
               ELSE status \ {"SYNC_HCMD_ACTIVE"}
  /\ UNCHANGED <<read_ptr, write_ptr, hold, sent, cmd_idx>>

Needed(c) == IF "ASYNC" \in kind[c] THEN 2 ELSE 1
Slot == iwl_pcie_get_cmd_index(write_ptr)
Source(c) == IF "WANT_SKB" \in kind[c] THEN c ELSE None

\* The entry as it is filled before iwl_pcie_set_cmd_in_flight.
Filled(c) == [call |-> c, flags |-> kind[c], source |-> Source(c),
              free_buf |-> IF "DUP" \in kind[c] THEN c ELSE None]

NoSpace(c) ==
  /\ iwl_queue_space < Needed(c)
  /\ EnqueueFails(c, "ENOSPC") /\ UNCHANGED entries

\* A buffer cannot be mapped: the entry has been re-initialized by then, its
\* flags and free_buf are not set yet.
MapFails(c) ==
  /\ iwl_queue_space >= Needed(c)
  /\ entries' = [entries EXCEPT ![Slot] = [@ EXCEPT !.call = c, !.flags = {},
                                                    !.source = Source(c)]]
  /\ EnqueueFails(c, "ENOMEM")

\* iwl_pcie_set_cmd_in_flight refuses: the copy of the data is freed, the
\* entry keeps its address.
InFlightFails(c) ==
  /\ iwl_queue_space >= Needed(c)
  /\ \E r \in {"ENODEV", "EIO"} :
       /\ r = "ENODEV" <=> "TRANS_DEAD" \in status
       /\ r = "EIO" => ApmgWakeUpWa /\ ~hold
       /\ EnqueueFails(c, r)
  /\ entries' = [entries EXCEPT ![Slot] = Filled(c)]

Enqueued(c) ==
  /\ iwl_queue_space >= Needed(c)
  /\ "TRANS_DEAD" \notin status
  /\ entries' = [entries EXCEPT ![Slot] = Filled(c)]
  /\ hold' = (hold \/ ApmgWakeUpWa)
  /\ write_ptr' = iwl_queue_inc_wrap(write_ptr)
  /\ sent' = IF state = "FW_ALIVE"
               THEN Append(sent, [index |-> write_ptr, call |-> c]) ELSE sent
  /\ cmd_idx' = [cmd_idx EXCEPT ![c] = Slot]
  /\ IF "ASYNC" \in kind[c]
       THEN Return(c, "0")
       ELSE pc' = [pc EXCEPT ![c] = "wait"] /\ UNCHANGED ret
  /\ UNCHANGED <<read_ptr, status>>

iwl_pcie_enqueue_hcmd(c) ==
  /\ pc[c] = "enqueue" /\ Unlocked
  /\ NoSpace(c) \/ MapFails(c) \/ InFlightFails(c) \/ Enqueued(c)
  /\ UNCHANGED <<state, rx, err, kind, resp, histVars, budget>>

\* wait_event_timeout ends with the condition true.
Woken(c) ==
  /\ pc[c] = "wait" /\ "SYNC_HCMD_ACTIVE" \notin status
  /\ pc' = [pc EXCEPT ![c] = "check"]
  /\ UNCHANGED <<ringVars, status, state, sent, rx, err, kind, cmd_idx, ret,
                 resp, histVars, budget>>

\* Mutant of TimesOut.
TimesOutNever(c) == FALSE /\ UNCHANGED vars

\* It ends by timeout; then iwl_trans_pcie_sync_nmi.
TimesOut(c) ==
  /\ pc[c] = "wait" /\ "SYNC_HCMD_ACTIVE" \in status
  /\ status' = status \ {"SYNC_HCMD_ACTIVE"}
  /\ pc' = [pc EXCEPT ![c] = "nmi"]
  /\ ret' = [ret EXCEPT ![c] = "ETIMEDOUT"]
  /\ UNCHANGED <<ringVars, state, sent, rx, err, kind, cmd_idx, resp, histVars,
                 budget>>

iwl_trans_pcie_sync_nmi(c) ==
  /\ pc[c] = "nmi"
  /\ status' = status \cup {"FW_ERROR"}
  /\ pc' = [pc EXCEPT ![c] = "cancel"]
  /\ UNCHANGED <<ringVars, state, sent, rx, err, kind, cmd_idx, ret, resp,
                 histVars, budget>>

\* Mutant of Verdict.
VerdictNoErrorCheck(c) ==
  IF Killed(kind[c]) THEN "ERFKILL"
  ELSE IF "WANT_SKB" \in kind[c] /\ resp[c] = None THEN "EIO" ELSE "none"

\* Mutant of Verdict.
VerdictNoNullCheck(c) ==
  IF "FW_ERROR" \in status THEN "EIO"
  ELSE IF Killed(kind[c]) THEN "ERFKILL" ELSE "none"

\* Why a call that was woken fails, "none" if it does not.
Verdict(c) ==
  IF "FW_ERROR" \in status THEN "EIO"
  ELSE IF Killed(kind[c]) THEN "ERFKILL"
  ELSE IF "WANT_SKB" \in kind[c] /\ resp[c] = None THEN "EIO"
  ELSE "none"

Check(c) ==
  /\ pc[c] = "check"
  /\ IF Verdict(c) = "none"
       THEN Return(c, "0")
       ELSE /\ pc' = [pc EXCEPT ![c] = "cancel"]
            /\ ret' = [ret EXCEPT ![c] = Verdict(c)]
  /\ UNCHANGED <<ringVars, status, state, sent, rx, err, kind, cmd_idx, resp,
                 histVars, budget>>

\* The label cancel of iwl_pcie_send_hcmd_sync, which runs without txq->lock.
Cancel(c) ==
  /\ pc[c] = "cancel"
  /\ entries' = IF "WANT_SKB" \in kind[c]
                  THEN [entries EXCEPT ![cmd_idx[c]].flags = @ \ {"WANT_SKB"}]
                  ELSE entries
  /\ resp' = [resp EXCEPT ![c] = None]
  /\ Return(c, ret[c])
  /\ UNCHANGED <<read_ptr, write_ptr, hold, status, state, sent, rx, err, kind,
                 cmd_idx, histVars, budget>>

-----------------------------------------------------------------------------
(* Completion, in the receive handler.                                     *)

\* iwl_pcie_rx_handle_rb takes the next response and frees the copy of the
\* command's data, without txq->lock.
iwl_pcie_rx_handle_rb ==
  /\ rx.pc = "idle" /\ sent # <<>>
  /\ rx' = [pc |-> "taken", index |-> Head(sent).index,
            call |-> Head(sent).call, source |-> None]
  /\ sent' = Tail(sent)
  /\ entries' = [entries EXCEPT
       ![iwl_pcie_get_cmd_index(Head(sent).index)].free_buf = None]
  /\ UNCHANGED <<read_ptr, write_ptr, hold, status, state, err, callVars,
                 histVars, budget>>

\* iwl_pcie_hcmd_complete takes the lock and tests CMD_WANT_SKB.
hcmd_complete_lock ==
  LET e == entries[iwl_pcie_get_cmd_index(rx.index)]
  IN /\ rx.pc = "taken"
     /\ rx' = [rx EXCEPT !.pc = "locked",
                 !.source = IF "WANT_SKB" \in e.flags THEN e.source ELSE None]
     /\ UNCHANGED <<ringVars, status, state, sent, err, callVars, histVars,
                    budget>>

\* iwl_pcie_cmdq_reclaim: the loop walks r, an entry index, around the ring
\* of positions to the index after idx.
Freed(i) ==
  (iwl_queue_inc_wrap(iwl_pcie_get_cmd_index(i))
     - iwl_pcie_get_cmd_index(read_ptr)) % QueueSize
ReadPtrAfter(i) == (read_ptr + Freed(i)) % QueueSize

\* Mutant of iwl_pcie_cmdq_reclaim.
ReclaimSleeps(i) ==
  IF iwl_queue_used(i)
    THEN read_ptr' = ReadPtrAfter(i) /\ hold' = FALSE
    ELSE UNCHANGED <<read_ptr, hold>>

iwl_pcie_cmdq_reclaim(i) ==
  IF iwl_queue_used(i)
    THEN /\ read_ptr' = ReadPtrAfter(i)
         /\ hold' = (hold /\ ReadPtrAfter(i) # write_ptr)
    ELSE UNCHANGED <<read_ptr, hold>>

\* The flags are read again: the sender may have cancelled CMD_WANT_SKB.
hcmd_complete ==
  LET slot == iwl_pcie_get_cmd_index(rx.index)
      src == rx.source
  IN /\ rx.pc = "locked"
     /\ resp' = IF src # None /\ pc[src] # "done"
                  THEN [resp EXCEPT ![src] = rx.call] ELSE resp
     /\ wild' = (wild \/ (src # None /\ pc[src] = "done"))
     /\ iwl_pcie_cmdq_reclaim(rx.index)
     /\ status' = IF "ASYNC" \in entries[slot].flags THEN status
                  ELSE status \ {"SYNC_HCMD_ACTIVE"}
     /\ entries' = [entries EXCEPT ![slot].flags = {}]
     /\ answered' = answered \cup {rx.call}
     /\ rx' = RxIdle
     /\ UNCHANGED <<write_ptr, state, sent, err, pc, kind, cmd_idx, ret,
                    disturbed, budget>>

-----------------------------------------------------------------------------
(* Interrupts, and the device going down and up.                           *)

\* The firmware goes past a command without answering it.
SkipAnswer ==
  /\ Len(sent) > 1 /\ Spend("skips")
  /\ sent' = Tail(sent)
  /\ UNCHANGED <<ringVars, status, state, rx, err, callVars, histVars>>

\* iwl_pcie_irq_handle_error: iwl_trans_fw_error, then wake the sender.
irq_handle_error ==
  /\ ~err /\ state = "FW_ALIVE" /\ Spend("errors")
  /\ err' = TRUE
  /\ status' = status \cup {"FW_ERROR"}
  /\ UNCHANGED <<ringVars, state, sent, rx, callVars, histVars>>

irq_error_wake ==
  /\ err /\ err' = FALSE
  /\ status' = status \ {"SYNC_HCMD_ACTIVE"}
  /\ UNCHANGED <<ringVars, state, sent, rx, callVars, histVars, budget>>

\* Mutant of rfkill_on.
RfkillOnClearsOnly ==
  /\ Spend("rfkills")
  /\ status' = status \ {"SYNC_HCMD_ACTIVE"}
  /\ disturbed' = disturbed \cup
       {c \in Calls : InSync(c) /\ "SEND_IN_RFKILL" \in kind[c]}

\* A call allowed in rfkill is woken too, and tests nothing that tells.
rfkill_on ==
  /\ Spend("rfkills")
  /\ status' = (status \cup {"RFKILL_OPMODE"}) \ {"SYNC_HCMD_ACTIVE"}
  /\ disturbed' = disturbed \cup
       {c \in Calls : InSync(c) /\ "SEND_IN_RFKILL" \in kind[c]}

\* The radio is allowed again: the op-mode keeps its bit until it is down.
rfkill_off ==
  /\ state = "NO_FW"
  /\ status' = status \ {"RFKILL_OPMODE"}
  /\ UNCHANGED <<disturbed, budget>>

iwl_pcie_handle_rfkill_irq ==
  /\ rfkill_on \/ rfkill_off
  /\ UNCHANGED <<ringVars, state, sent, rx, err, callVars, answered, wild>>

\* The device disappears from the bus (iwl_trans_pcie_grab_nic_access).
TransDead ==
  /\ Spend("deaths")
  /\ status' = status \cup {"TRANS_DEAD"}
  /\ UNCHANGED <<ringVars, state, sent, rx, err, callVars, histVars>>

\* iwl_trans_stop_device, with the unmapping of the command queue.  Entries
\* keep what they hold.
stop_device ==
  /\ state = "FW_ALIVE" /\ MutexFree /\ Unlocked /\ Spend("stops")
  /\ state' = "NO_FW"
  /\ read_ptr' = write_ptr
  /\ hold' = (hold /\ read_ptr = write_ptr)
  /\ sent' = <<>>
  /\ \E rf \in SUBSET (status \cap {"RFKILL_OPMODE"}) :
       status' = (status \ {"SYNC_HCMD_ACTIVE", "RFKILL_OPMODE"}) \cup rf
  /\ disturbed' = disturbed \cup {c \in Calls : InSync(c)}
  /\ UNCHANGED <<write_ptr, entries, rx, err, callVars, answered, wild>>

\* iwl_trans_start_fw, when it succeeds: it waits for the interrupt handlers
\* and resets the pointers.
start_fw ==
  /\ state = "NO_FW" /\ MutexFree /\ rx.pc = "idle" /\ ~err
  /\ status \cap {"TRANS_DEAD", "RFKILL_OPMODE"} = {}
  /\ state' = "FW_ALIVE"
  /\ status' = status \ {"FW_ERROR"}
  /\ read_ptr' = 0 /\ write_ptr' = 0
  /\ UNCHANGED <<entries, hold, sent, rx, err, callVars, histVars, budget>>

CallStep(c) ==
  \/ send_hcmd_sync(c) \/ iwl_pcie_enqueue_hcmd(c) \/ Woken(c) \/ TimesOut(c)
  \/ iwl_trans_pcie_sync_nmi(c) \/ Check(c) \/ Cancel(c)

RxStep == iwl_pcie_rx_handle_rb \/ hcmd_complete_lock \/ hcmd_complete

Next ==
  \/ \E c \in Calls : iwl_trans_send_cmd(c) \/ CallStep(c)
  \/ RxStep
  \/ SkipAnswer \/ irq_handle_error \/ irq_error_wake
  \/ iwl_pcie_handle_rfkill_irq \/ TransDead \/ stop_device \/ start_fw

Spec == Init /\ [][Next]_vars

\* A thread that sends keeps running and its timer fires; an interrupt
\* handler that has begun runs to its end.
FairSpec ==
  /\ Spec
  /\ \A c \in Calls : WF_vars(CallStep(c))
  /\ WF_vars(hcmd_complete_lock \/ hcmd_complete) /\ WF_vars(irq_error_wake)

-----------------------------------------------------------------------------
(* Properties.                                                             *)

Positions == 0..(QueueSize - 1)
Slots == 0..(Window - 1)
CallOrNone == Calls \cup {None}
Entry == [call : CallOrNone, flags : SUBSET Flags, source : CallOrNone,
          free_buf : CallOrNone]
Message == [index : Positions, call : Calls]
Places == {"idle", "send", "enqueue", "wait", "nmi", "check", "cancel", "done"}

\* Type invariant.
TypeOK ==
  /\ read_ptr \in Positions /\ write_ptr \in Positions
  /\ entries \in [Slots -> Entry] /\ hold \in BOOLEAN
  /\ status \subseteq StatusBits /\ state \in {"FW_ALIVE", "NO_FW"}
  /\ sent \in Seq(Message)
  /\ rx \in [pc : {"idle", "taken", "locked"}, index : Positions,
             call : CallOrNone, source : CallOrNone]
  /\ rx.pc # "idle" => rx.call \in Calls
  /\ err \in BOOLEAN
  /\ pc \in [Calls -> Places] /\ kind \in [Calls -> SUBSET Flags]
  /\ cmd_idx \in [Calls -> Slots] /\ ret \in [Calls -> Errors \cup {"none", "0"}]
  /\ resp \in [Calls -> CallOrNone]
  /\ answered \subseteq Calls /\ wild \in BOOLEAN /\ disturbed \subseteq Calls

\* A sender that asked for the response packet (CMD_WANT_SKB) and was told 0
\* has one, and it is the answer to its own command, however late answers,
\* rfkill and restarts fall.
AnswerIsOwn ==
  \A c \in Calls :
    /\ resp[c] \in {None, c}
    /\ pc[c] = "done" /\ ret[c] = "0" /\ "WANT_SKB" \in kind[c] => resp[c] = c

\* A synchronous call is refused because one is active (the WARN of
\* iwl_pcie_send_hcmd_sync) only when another call really is sending or
\* waiting, and the two do not share a lock, one of them being of the PTP
\* clock: no way out of a call, and no restart, leaves the bit behind.
RefusedForAnother ==
  [][\A c \in Calls : ret'[c] = "already active" /\ ret[c] # "already active" =>
       \E d \in Calls \ {c} :
         /\ pc[d] \in {"enqueue", "wait"} /\ "ASYNC" \notin kind[d]
         /\ "NO_MUTEX" \in kind[c] \cup kind[d]]_vars

\* A synchronous call that returns 0 was answered: neither an error or rfkill
\* interrupt nor the late answer to an earlier call ends its wait as success.
\* Where two calls run beside each other, one being of the PTP clock, the
\* property is about the one that had the active bit when the other began.
\* Calls are excepted that the stop of the device cut short (calls of that
\* clock), and that rfkill could not fail, having leave to run in it.
SuccessIsAnswered ==
  \A c \in Calls \ disturbed :
    pc[c] = "done" /\ ret[c] = "0" /\ "ASYNC" \notin kind[c] => c \in answered

\* No synchronous call finds another active, as the mutex is there to see to
\* (iwl_mvm_send_cmd).
NeverAlreadyActive == \A c \in Calls : ret[c] # "already active"

\* While the firmware runs, the entry of an unanswered command still holds
\* that command: no entry is given to a second one, though there are more
\* positions on the ring than entries.
EntryIntact ==
  state = "FW_ALIVE" =>
    \A e \in {sent[i] : i \in DOMAIN sent}
             \cup {x \in {[index |-> rx.index, call |-> rx.call]} :
                     rx.pc # "idle"} :
      entries[iwl_pcie_get_cmd_index(e.index)].call = e.call

\* While the firmware runs, a completion that moves the read pointer moves it
\* just past the command that was answered: the commands up to that one, and
\* no others, are reclaimed.
ReclaimsUpTo ==
  [][state = "FW_ALIVE" /\ rx.pc = "locked" /\ read_ptr' # read_ptr
       => read_ptr' = iwl_queue_inc_wrap(rx.index)]_vars

\* Where the NIC has to be held awake for commands, it is while the ring
\* holds any.
PendingKeepsAwake == ApmgWakeUpWa /\ read_ptr # write_ptr => hold

\* Every call returns, whatever the firmware does.
CallReturns == \A c \in Calls : pc[c] # "idle" ~> pc[c] = "done"

\* With fewer entries than positions nothing need be kept free to tell a
\* full ring from an empty one: a position between the pointers is known to
\* be used.
FullIsNotEmpty ==
  Used <= MaxUsed =>
    \A n \in 0..(Used - 1) : iwl_queue_used((read_ptr + n) % QueueSize)

\* Cancelling CMD_WANT_SKB keeps a late answer from being stored through the
\* pointer to a command whose sender has returned.
SourceAlive == ~wild

\* The entry the next command takes holds no copy of data that was not
\* consumed (the WARN_ON_ONCE of iwl_pcie_enqueue_hcmd).
SlotIsClean == iwl_queue_space > 0 => entries[Slot].free_buf = None
=============================================================================
