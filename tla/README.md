# TLA+ verification of the WTSN iwlwifi driver

WTSN-Binaries is Intel's wireless time-sensitive-networking stack: prebuilt
kernel, firmware and user programs, start scripts, and the source of the Wi-Fi
driver, `src/src/iwlwifi`, a backport of iwlwifi with a PTP hardware clock and
802.11 timing measurement added. Only the driver has logic of its own in
source form, and it is what this project models. Paths below are relative to
`src/src/iwlwifi/drivers/net/wireless/intel/iwlwifi/` unless they start with
`src/`.

`PROJECT.json` holds the machine-readable side: components, runs, mutants, the
map from definitions to source lines, hazards, findings and theorems.

## 1. Inventory

The driver is layered. cfg80211/mac80211 (vendored) call the **op-mode**
(`mvm/`) through `ieee80211_ops`; the op-mode calls the **transport**
(`pcie/`) through `iwl_trans_ops`; the transport shares rings with the
**firmware** by DMA and registers. In the other direction interrupts run the
transport's threaded handlers, which call the op-mode's `iwl_op_mode_ops`
(`rx`, `queue_full`, `queue_not_full`, `hw_rf_kill`, `nic_error`), which call
mac80211.

| Component | State | Operations | Hard behaviour | What makes it correct |
|---|---|---|---|---|
| Notification waits `fw/notif-wait.*` | list of stack entries, `triggered`, `aborted` | register, wait, remove, RX scan and wake-up, abort | unlocked `list_empty`, wake-ups outside the lock, timeout against answer and abort | no answer and no wake-up is lost; no pointer to a dead stack; success is genuine |
| Host command queue `pcie/tx.c`, `pcie/rx.c` | ring pointers, entries, `SYNC_HCMD_ACTIVE`, NIC-awake hold | send (sync, async), complete, reclaim, time out, cancel, error and rfkill interrupts, stop, start | a late answer after a timeout, early wake-ups, two index spaces, one failing step of an enqueue | answers go to their own command; entries are not shared; every call returns |
| Data transmission `mvm/mac80211.c`, `mvm/tx.c`, `mvm/d3.c`, `pcie/tx.c`, `pcie/trans.c` | mac80211 queue, `tx_request`, `stopped`, `system_pm_mode`, ring, overflow queue, `queue_stopped`, watchdog | transmit, stop, reclaim, overflow flush, wake, freeze, wait for empty, suspend and resume | the reclaim drops its lock; stop and wake race; frames queued while the system goes to D3; segmented frames ignore the stop | no frame lost or duplicated, no queue stopped for ever, order kept |
| PTP clock, integrated devices `mvm/ptp.c`, `mvm/timing_measurement.c` | `firmware_operation_done`, `systim_lock`, `GP2_ns`, `ART_ns` | read, cross timestamp, notification, start | flag tested outside its lock, answer after the reader gave up, unlocked reset | a pending flag has an owner; success means a fresh answer; pairs belong together |
| PTP clock, discrete devices `mvm/timing_measurement.c` | `s_last_GP2`, the reference pair | reading loop, cross timestamp, frame time conversion | a 32-bit register that wraps, the last allowed try, u64 arithmetic | one pair from one reading, the best one; time does not run backwards |
| RX reorder buffer `mvm/rxmq.c`, `mvm/sta.c`, `mvm/mac80211.c` | a buffer per RX queue with `head_sn`, `num_stored`, entries and timer; `baid_map`, `queue_sync_counter`, `queue_sync_cookie` | duplicate test, reorder, release (NSSN, BAR, timer, DEL_BA), NSSN messages, start and delete a session | one session on several queues, messages that come late, sequence numbers that wrap, a timer against NAPI, a radio kill during a deletion | in order, no fresh frame dropped, no frame stored for ever, a deletion leaves nothing behind |
| RBD allocator `pcie/rx.c` | lists of RBDs, `req_pending`, `req_ready`, `used_count`, emergency mode | consume, request, allocate, claim, restock, stop, start | interrupt threads of several queues against the work; failed allocations | RBDs are conserved, requests neither lost nor doubled, reception never stalls |
| PTP clock registration `mvm/ptp.c`, `mvm/mac80211.c` | `ptp_clock`, overflow work | init, remove, work | order of registration and timecounter, removal while the work runs | not modelled |
| Time events `mvm/time-event.c` | list of events with uid and id | protect, start, end, abort, remove | notification against the command's response | not modelled: an event is ended once |
| Notification dispatch, restart `mvm/ops.c` | list of async handlers, status bits | dispatch, work, purge, restart | handlers that run later than their packet | not modelled |
| Queue allocation, aggregation `mvm/sta.c` | `IWL_AGG_*`, queue ownership | enable, share, disable, ADDBA, DELBA | reuse of a queue that still holds frames | not modelled |
| Scan, contexts, bindings, TDLS, thermal, power... | see PROJECT.json | | | not in the plan or candidates |
| Firmware file loading, NVM, debug, gen2, DVM, FMAC, XVT, virtio | see PROJECT.json | | | not modelled |
| mac80211, cfg80211, backport layer, scripts, binaries | | | | vendored or without source: environment |

How the parts interact: a synchronous command (`CmdQueue`) is sent under
`mvm->mutex`, except by the readers of the PTP clock, which hold `systim_lock`
instead (`mvm/ptp.c:64` and `:202`, from the PTP character device, the overflow
work and the `timecounter_init` after the unlock at `mvm/mac80211.c:1236`); a `NotifWait` brackets a command whose effect is announced by a
notification; the handler of the clock's notification runs in the RX path that
also runs `iwl_notification_wait_notify` and `iwl_pcie_hcmd_complete`; the data
ring and the command ring share `iwl_queue_space`, `iwl_queue_inc_wrap` and the
reclaim bookkeeping; a firmware error ends waits (abort), commands (`FW_ERROR`)
and transmissions (`-EIO`). On the receive side `RbdAllocator` is what the
interrupt thread does around each buffer, and `ReorderBuffer` what the op-mode
does with the data frames in it; the queue synchronisation of a session's
deletion goes out through the command queue and comes back on every RX queue.

## 2. Modules

`NotifWait` (instance `MCNotifWait`, proofs `NotifWaitProof`). Threads, RX
contexts and the error path. Each critical section of `notif_wait_lock` is one
action; the unlocked `list_empty` test (`CheckList`) and the wake-ups
(`iwl_notification_notify`, `AbortWakeUp`) are actions of their own, and
`wait_event_timeout` is its test, its sleep and its expiry. The firmware sends
answers, possibly preceded by packets the callback refuses, late answers and
unsolicited packets. Ids are (group, opcode) pairs, because the match between a
wide id and a legacy packet is not equality.

`PhcHandshake` (instance `MCPhcHandshake`, proofs `PhcHandshakeProof`). Readers
in `iwl_mvm_phc_get_syncdevicetime` or `iwl_mvm_cyclecounter_read`, the thread
that starts the interface, and the notification handler whose three
assignments are three actions because no lock covers them. A time value is the
number of the request whose answer brought it, which is what tells a fresh
value from an old one and a matched pair from a mixed one.

`CorrelatedTime` (proofs `CorrelatedTimeProof`). One reading call at a time of
`iwl_mvm_get_correlated_time` on a clock that advances: each try reads the
register in the middle of an interval whose halves vary and the raw time at its
end, with the wrap, the s64 comparison, the retreat to the best reading (which
puts back the device and the system time, `mvm/timing_measurement.c:366`, and
not the raw time of line 327), the statics and the reference that
`get_system_time_corresponding_to_ts` uses. `Report` is the rest of
`iwl_mvm_phc_get_crosstimestamp`, with the drift it adds to the reported system
time and leaves out of the one it keeps. Its caller does not look at the result
of `iwl_mvm_get_correlated_time` (`mvm/ptp.c:138`): `RefusedCall` is a call that
found another one reading and reports whatever the fields hold while it does.

`CmdQueue` (proofs `CmdQueueProof`). Calls of `iwl_trans_send_cmd`, numbered;
a call stands for its `iwl_host_cmd`, its data and its answer. The ring has
`QueueSize` positions over `Window` entries. Sending is split where the code
can be interrupted: checks, enqueue under the lock (whole, with its three ways
to fail), wait, NMI after a timeout, verdict, cancel. The receive handler
takes a response, takes the lock, and completes. Two locks keep synchronous
calls apart: `MutexFree` is `mvm->mutex`, `SystimLockFree` is `systim_lock`. A
call of the PTP clock (`NO_MUTEX` in its flags, which the driver has no flag
for) takes the second and so may run beside a call, a stop or a start of the
device under the first. `disturbed` records the synchronous calls that another
actor may have woken: those that began beside a synchronous call of the other
kind, or beside which one began before they had taken the active bit, those that
were stopped with the device, those that rfkill woke and may run in it, and
those that began with an answer to such a call still to come. A call that has
the bit when another begins is not among them.

`TxQueue` (proofs `TxQueueProof`). One aggregation queue from mac80211's queue
to reclaim. `tx_request` is the atomic that elects one transmitter; `stopped`
(op-mode) and `queue_stopped` (transport bit) are separate, and the wake-up
clears them in two actions. A reclaim that restarts the queue moves the
overflow queue to a private list, drops the lock, sends frame by frame and
looks at the space again without the lock. The watchdog, its freezing and
`iwl_trans_pcie_wait_txq_empty` run beside it. A suspend of the system with
WoWLAN and its resume run beside it too: mac80211 stops its queues (`host` is
then not "awake", and a queue that is asked for a frame is marked, `netif_stop`),
waits in `synchronize_net` for the transmit loops, and calls `iwl_mvm_suspend`,
which sets `system_pm_mode` to D3 and puts the device to sleep or fails; the
transmit loop ends its turn when it finds the system in D3
(`mvm/mac80211.c:936`). Resume sets the mode back, and mac80211 then transmits
from the queues that were marked. `missed` records that the last look at the
queue was given up because of D3.

`ReorderAlg` and `ReorderBuffer` (instance `MCReorderBuffer`, proofs
`ReorderBufferProof` and `ReorderWindowProof`). `ReorderAlg` holds the algorithms, as functions from a buffer and a frame to the new buffer,
the frames passed up and the sequence numbers told to the other queues; every
one of them runs under `reorder_buf->lock`, so it is one step of
`ReorderBuffer`. That module has the RX queues with their NAPI contexts and
timers, the trigger commands on their way through the firmware, and the thread
that starts and deletes the session. A frame has an unwrapped number, of which
the driver sees the sequence number only; `up` records what goes to mac80211,
so that order is judged on the unwrapped numbers. RSS is a choice made once:
`steer` says which queue each subframe hashes to. An asynchronous call of
`iwl_mvm_sync_rx_queues_internal` clears `queue_sync_counter` (`Apply`), as the
code does. A timer is "off", "on" or "due", and a handler that has started is
separate from the timer that started it. The radio may be killed at any time,
by its switch or for the temperature (`RadioKill`, `killed`): that ends the wait
of a deletion (`mvm/mac80211.c:5391`), and a command refused because of RFKILL
is taken for one that succeeded, so neither the firmware nor the queues need
have heard of the deletion. `spoilt` records that an asynchronous message
cleared the counter of the deletion in progress, or that the radio was killed
before or while it waited. What the firmware tells the queues
(`Releases`) is taken from the comment at `mvm/rxmq.c:1043`, which promises a
frame release notification to a queue that has a part of an A-MSDU but not its
last subframe: such a queue is told the NSSN that counts the A-MSDU in, and so
is, when the NSSN moves, any other queue that was given a frame at or beyond
the old one.

`RbdAllocator` (instance `MCRbdAllocator`, proofs `RbdAllocatorProof`). RBDs
are alike, so every list is its length. One handler per queue
(`iwl_pcie_rx_handle`) runs beside the allocator's work; an access to the
shared lists or to one of the two atomic counters is a step, and private work
belongs to the step next to it. `count`, `emergency` and `rb_pending` are the
handler's locals. `leaked` is a history variable: RBDs the allocator got that
no `used_count` counts.

`RbdService` is the abstract specification of the allocator: queues lend
descriptors and ask for pages at the `Post`-th of every `Claim`; each request
is served; a served request gives `Claim` descriptors back.
`RbdAllocator!Service` instantiates it: `lent` is `used_count`, `asked` counts
a request from the moment the descriptor is counted until the work makes it
ready, `ready` includes requests granted to a queue that has not taken its RBDs
yet.

The firmware, mac80211 and the hardware are environment: what they may do is
nondeterministic, bounded only by the named bounds.

## 3. Runs

| Run | Result | Instance and why it is enough |
|---|---|---|
| `notif_wait` | pass | One thread that waits twice, so an answer can be late for the first wait and early for the second; two RX contexts, needed for `CallbackOnce`; one unsolicited packet, an abort. Any number of threads is the matter of the theorems. |
| `phc_handshake` | pass | A reader and the starting thread, three calls in all, one sleep per wait: a call, a late answer, a call that meets it, and a reset in between. |
| `phc_pair` | violation | Two readers: finding 1. |
| `correlated_time` | pass | A register of four counts, four ns each, three tries, time over more than one wrap, one call that is refused while another one reads. |
| `cmdq` | pass | Three calls around a ring of four over two entries, each of them under the mutex, of the PTP clock, asynchronous, or with `WANT_SKB` and leave to run in rfkill: the window fills, the ring wraps, the failing paths of the enqueue, a call of the clock beside one under the mutex, an rfkill and a restart happen. |
| `cmdq_live` | pass | Three calls in a window of four, the synchronous ones under the mutex, all outstanding at once, with an error interrupt, an unanswered command, a lost device and a restart, without rfkill. |
| `tx_queue` | pass | A ring of eight that starts at 5 and wraps, one thread with a single frame and an skb of seven MPDUs (enough to pass the stop mark inside one skb and to use the overflow queue), and one event: a failed mapping, a firmware error, a sleeping station, a wait for empty, or a suspend of the system that succeeds or fails. |
| `reorder` | pass | Two queues, four frames around the wrap of an 18-value sequence space (a sync point), the second an A-MSDU of two subframes on one queue or on two, a window of three, one jump of the window, one retransmission, a block-ack request, timers. `MCFollow` lets the frames after the A-MSDU go where its subframes went, which is where a queue can fall behind. |
| `reorder_session` | pass | Two sessions one after the other on two queues, with one fault (a trigger command that fails, a wait that times out while messages are delayed, or a kill of the radio) and one frame with an old sequence number. `MCApart` sends neighbouring frames to different queues, so that both have something to store. |
| `reorder_delete` | violation | One session deleted while a queue crosses a sync point: finding 2. |
| `rbd` | pass | Two queues with rings of five, three RBDs per claim, one per post: claims that fail, requests that cross the work's return, emergencies on both queues. Fair. |
| `rbd_one` | pass | One queue with a ring of twelve, three per claim, batches of two, a write pointer told in pairs, one failed atomic allocation and one restart. |

Marks and numbers that are smaller than in the code: the driver's rings have
256 positions (`LowMark` 64, `HighMark` 32); with eight positions the lower
limits of the code's own formulas apply (4 and 2), and the proofs cover every
size from eight. A session's window is 64 or 256 frames in a space of 4096;
two in sixteen and three in eighteen keep the order of the three sizes (window,
half space, space), and the window divides the space. `MaxStep` keeps a jump of the reorder window at one buffer size (see the
observations for a longer one), and with one retransmission the limit of the
old-SN counter is not reached: what it does, asking mac80211 to delete the
session, the model allows at any time. `RX_CLAIM_REQ_ALLOC` and
`RX_POST_REQ_ALLOC` are 8 and 2 on rings of 512 (MQ) or 256; the proofs cover
all values. `NeverStalls` needs a ring larger than what can be lent when an
emergency begins: true of the driver's sizes and of twelve with a claim of
three (both satisfy the theorem's `Roomy`), but not of every pair of numbers.
`MaxFaults` of `ReorderBuffer` bounds failed trigger commands, waits that time
out early and kills of the radio together. `CHECK_DEADLOCK FALSE` is used throughout since each instance
may come to rest when its bounds are used up.

Fairness. `NotifWait`: threads that are awake, RX contexts that hold a packet
and an abort that has begun go on; no fairness on timeouts, so
`FinishedWaitReturns` does not lean on them. `PhcHandshake`: none, and no
liveness property. A reader sleeps, in a synchronous command and in `msleep`,
between `spin_lock_irqsave` and `spin_unlock_irqrestore` (`mvm/ptp.c:61-86`,
`199-224`), and another reader then spins for the lock with its interrupts off,
possibly on the processor the first one needs: nothing in the code obliges a
call to end. `CmdQueue`: a sender runs and its `wait_event_timeout` expires (the
kernel's timer guarantees it), handlers that began finish; none on the
firmware. For the same reason as above `cmdq_live` has no calls of the PTP
clock. `TxQueue`: transmit loops and the reclaim run, and a firmware that has
not failed and is not asleep completes the frames on its ring - the watchdog
turns the opposite case into a firmware error, which `NoTxHanging` excepts. A
suspend or resume that has begun goes on (`HostOn`): `synchronize_net` waits for
transmit loops that end, the commands of `iwl_mvm_suspend` and `iwl_mvm_resume`
are bounded waits, the wake-up of the queues is a direct call; nothing wakes a
device that is asleep. `CorrelatedTime`: a call that has begun goes on; nothing
in it waits (only the observation `CorrelatedWrap.cfg` uses it).
`ReorderBuffer`: NAPI empties its queue, timers fire and their handlers run,
the firmware executes trigger commands, the thread that starts or deletes a
session goes on and its wait ends at its time limit; nothing is assumed of the
peer. `RbdAllocator`: the workqueue runs the work and a running handler goes
on; a page is found in the end for an allocation that may sleep, as the work's
own retry loop assumes.

### What the properties say

* `NoAnswerLost`, `NoLostWakeup`, `EntryLifetime`, `CallbackOnce`,
  `SuccessIsGenuine`: the locking discipline of notification waits is right in
  spite of the unlocked test and of the wake-ups after the lock.
* `PendingIsOwned`, `SuccessIsFresh`: the flag of the clock's handshake is
  pending only inside the critical section of the call that set it, and an
  answer from before a call is never taken for its answer.
* `PairFromOneReading`, `BestOfTries`, `FrameTimesOrdered`: the reading loop of
  discrete devices. Device and system time of a call that was not refused are of
  one reading; the raw time is of the same one or, when the tries were used up,
  of the last one, which is all the code gives (see `ReadSimultaneously` in the
  observations).
* `EntryIntact`: the two index spaces of the command ring. `AnswerIsOwn`,
  `SuccessIsAnswered`, `RefusedForAnother`: the synchronous call against late
  answers, interrupts, restarts and calls of the PTP clock; a call is refused
  because another is active only if another one is, under the other lock, so no
  way out of a call and no restart leaves `SYNC_HCMD_ACTIVE` behind.
  `SuccessIsAnswered` excepts the `disturbed` calls, but not the one that has the
  bit when a call of the other kind begins beside it. `PendingKeepsAwake`: the NIC
  is held awake while the ring holds commands.
* `OneTransmitter`, `FramesConserved`, `NoLostStop`, `WatchdogArmed`,
  `FlushComplete`, `NoTxHanging`: the data path. `NoTxHanging` excepts a firmware
  error, a device that is asleep, and frames queued while `system_pm_mode` is D3
  that no later transmission picked up (`missed`; see `NoTxLeftByD3` in the
  observations).
* `Accounting` (`NumStored` is its counting part), `InOrder`, `FreshKept`,
  `HeadForward`, `StoredLeaves`: one reorder session across several queues; `DeleteSynchronised`, `CounterExact`,
  `DeleteEnds`: its deletion, against late messages, failures and timeouts.
* `AllocatorNeverEmpty`, `ClaimFinds`, `NoLostRequest`: the code's own BUG_ON
  and the counters it trusts; `ImplementsService`: requests are made once per
  round, served, and given back exactly; `Conserved`,
  `UntrackedOnlyAfterFailure`, `NeverStalls`: descriptors over emergencies,
  failures and restarts.

## 4. Findings

1. `phc_pair` (`mvm/ptp.c:88`): the platform time and the device time of a
   cross timestamp are read after `systim_lock` is released; with two readers
   they can come from two answers.
2. `reorder_delete` (`mvm/mac80211.c:5397`): every call of
   `iwl_mvm_sync_rx_queues_internal` ends by setting `queue_sync_counter` to 0,
   also the asynchronous one that a queue makes when it crosses sequence number
   0 or 2048. If that happens while a session is being deleted, the deletion
   stops waiting before the queues have handled its message, finds frames in
   the buffers, and takes the WARN_ON path that `mvm/sta.c:2457` says a regular
   DELBA never takes. `DeleteSynchronised` shows what else leads there: a
   trigger command that fails, a wait that times out, and a radio that is killed
   before the queues have answered, and nothing besides (for a window that
   divides the sequence space).

## 5. Observations

Properties that are defined in the modules and do not hold, and things met
while modelling. Those that name a cfg have one that makes TLC show the
behaviour (`tlc -config <cfg> <module>`).

* `BusyIsReal` (`PhcBusy.cfg`, `MCPhcHandshake`): an answer that comes after
  its reader gave up leaves `firmware_operation_done` at 2
  (`mvm/timing_measurement.c:427`) until the interface is started again, and
  later calls give up waiting "for any pending firmware operations to complete"
  (`mvm/ptp.c:51`) although none is pending.
* `DeviceTimeMonotonic` (`CorrelatedWrap.cfg`, `CorrelatedTime`): 2^32 is added
  only in the call that sees the register wrap, and `s_last_GP2` keeps the raw
  value (`mvm/timing_measurement.c:309`), so the device time of the next call
  falls back by about 4295 s; line 248 calls it "adjusted for wrap".
* `FullIsNotEmpty` (`CmdQueueFull.cfg`, `CmdQueue`): a synchronous command may
  take the last entry (`pcie/tx.c:1630`); the entry indices of the two pointers
  are then equal and no position of the full queue counts as used, so an answer
  in that state reclaims nothing; line 113 says no entry need be reserved for
  telling full from empty.
* `SeqIsPosition` (`TxQueueOrder.cfg`, `TxQueue`): while the reclaim has
  dropped the lock (`pcie/tx.c:1195`), the rest of a segmented skb, which does
  not look at the stop again, can overtake frames of the overflow queue: its
  ring position is then not its sequence number, against the comments at 1191
  and 2384.
* `OrderKept` (`ReorderOld.cfg`, `MCReorderBuffer`): a retransmission with an
  old sequence number can meet a queue whose `head_sn` is more than a window
  ahead of it or of its NSSN (after a timer release, or where the queue lags
  behind a jump): the jump clause (`mvm/rxmq.c:947`) then moves `head_sn` back
  and passes the old frame, although line 959 drops outdated packets. `InOrder`
  and `HeadForward` are about sessions without such a frame (`Undisturbed`).
* Two more sequences that `Undisturbed` excludes. When a timer has given up on a
  frame that then comes after all, it is dropped as outdated (959) and its NSSN
  with it, so the queue lags behind the firmware until its next message; the
  loop at 563 skips a release of more than a window, so such a queue can keep
  frames that no longer lie in the window. And a subframe of an A-MSDU that is
  not its last, passed up at once after a timer because nothing is stored,
  does not move `head_sn`: its retransmission is passed up a second time
  (`InOrder` has `timedOut => budget.retries = 0` for it).
* Reorder buffer: a release of more than a buffer size (`nssn` beyond
  `head_sn + buf_size`) skips the loop at `mvm/rxmq.c:563` and leaves frames
  outside the window until the timer or a later frame meets their index; the
  comment at 503 has a strict lower bound where the code has not. `removed` is
  set only if frames were left (`mvm/sta.c:2451`), so a frame handled between
  `iwl_mvm_free_reorder` and the end of the RCU grace period can arm a timer of
  a session about to be freed. An NSSN message that arrives after its session
  meets WARN_ON(!ba_data) or a new session of the same BAID. `prev_drop` of the
  old-SN workaround is cleared only at the limit, so the drops it counts need
  not be consecutive (805). The BAR branch of `iwl_mvm_reorder` (931) is not
  reached: a BAR carries no data and line 895 has returned. A window that does
  not divide 4096 gives two frames one entry at the wrap of the sequence
  number. After a deletion that finding 2 cuts short, the next session of the
  same BAID can meet messages of the previous one. A session refused at `mvm/sta.c:2611` stays counted in
  `rx_ba_sessions`.
* `NeverUntracked` (`RbdAllocator`): when an atomic allocation of an emergency
  fails, RBDs stay on the used list uncounted and later reach the allocator,
  which the comment at `pcie/rx.c:1567` wants to exclude; the queue is short of
  them until the device is started again. `UntrackedOnlyAfterFailure` shows
  there is no other way.
* An error status of the firmware's clock reading is stored as time 0 and the
  call returns success (`mvm/timing_measurement.c:407`).
* `LastIsReported` (`CorrelatedTime`): when a call falls back to its best
  reading, `s_last_GP2` keeps the register value of the last, rejected reading
  (`mvm/timing_measurement.c:380`), although line 83 calls it the last GP2
  register value.
* `ReadSimultaneously` (`CorrelatedTriple.cfg`, `CorrelatedTime`): a call that
  uses up its tries puts back the device and the system time of its best
  reading (`mvm/timing_measurement.c:366`), while `sys_monoraw_ns` stays that of
  the last one (line 327); `mvm/ptp.c:141` reports all three, and line 105 says
  they are read simultaneously. A call that is refused because another one
  reads reports a mixture of that one's readings, as `mvm/ptp.c:138` does not
  look at the result.
* `NeverAlreadyActive` (`CmdQueuePtp.cfg`, `CmdQueue`): a reader of the PTP clock
  sends its command with `systim_lock` and without `mvm->mutex`, so it can find
  another command active, or make another find its own: the WARN and `-EIO` at
  `pcie/tx.c:1906`. The comment at `mvm/utils.c:86` says that the mutex excludes
  two synchronous commands at a time. `RefusedForAnother` shows that nothing
  else sets off the WARN.
* For the same reason the device may be stopped under a reader of the clock:
  `pcie/trans.c:1347` clears its active bit, and if no error is noted it returns 0
  unanswered. A call that times out gives up the active bit (`pcie/tx.c:1937`)
  before it has forced the NMI, so a call of the other kind can take the bit, and
  the late answer to the first then ends it unanswered. If the firmware has been started
  again meanwhile, the answer to a call that returned in this way can in turn
  end a later one. `SuccessIsAnswered` excepts these calls (`disturbed`).
* `ReclaimsUpTo` (`CmdQueueSkip.cfg`, `CmdQueue`): the loop of
  `iwl_pcie_cmdq_reclaim` steps an entry index modulo the ring size
  (`pcie/tx.c:1310`), so when the firmware goes past a command at the end of
  the window the loop does not stop where line 1283 says it does. Such a reclaim
  also forces an NMI (line 1317), which comes back as an error interrupt. That
  no pending command is harmed by it is `EntryIntact`.
* `NoTxLeftByD3` (`TxQueueD3.cfg`, `TxQueue`): when `__iwl_mvm_suspend` fails,
  `iwl_mvm_suspend` leaves `system_pm_mode` at D3 (`mvm/d3.c:1112`); mac80211
  wakes its queues again and does not call `iwl_mvm_resume`, so the transmit loop
  (`mvm/mac80211.c:936`) sends nothing until some later suspend and resume. And
  in a suspend that succeeds, a frame queued after the mode was set is left in
  mac80211's queue without the mark that makes the wake-up look for it, until
  the next frame comes. The comment at `mvm/mac80211.c:922` wants no frame left
  hanging until a next transmission that may not happen.
* `SuccessIsAnswered` under rfkill: a `SEND_IN_RFKILL` command whose wait is
  ended by the rfkill interrupt passes the check at `pcie/tx.c:1955` and
  returns 0 unanswered, against `iwl-trans.h:503`; with `WANT_SKB` the missing
  packet turns it into `-EIO`. Its late answer can end another such call.
* A radio that is killed during a deletion ends its wait
  (`mvm/mac80211.c:5391`) with frames still in the buffers; the deletion then
  purges them (`mvm/sta.c:2461`) behind the WARN_ON of finding 2. A removal that
  is refused because of RFKILL counts as done, with the firmware's agreement
  still running.
* `SlotIsClean`: an enqueue that fails at `pcie/tx.c:1783` leaves `free_buf`
  for the next user of the entry, which the WARN at 1771 expects not to find.
* `SourceAlive`: `CMD_WANT_SKB` is cancelled without `txq->lock`
  (`pcie/tx.c:1979`) while a completion that read the flag under the lock may
  still store through `meta->source` (1844); the comment at 1975 says the
  cancel prevents it.
* `WarnsOnlyOpMode` (`TxQueue`): the wait for an empty queue samples
  `overflow_tx` once per round (`pcie/trans.c:2414`); frames that the overflow
  flush sent during the sleep make it warn about a transmitting op-mode, which
  the comment at 2401 wants to avoid. A wait that ends by its time limit may
  also return 0 with frames in the overflow queue.
* `leaked` (`TxQueue`): `iwl_mvm_mac_itxq_xmit` ignores a failure of
  `iwl_mvm_tx_skb` (`mvm/mac80211.c:949`), and the overflow flush ignores one
  of `iwl_trans_tx` (`pcie/tx.c:1207`): those frames are never freed.
* The wake-up clears the transport's bit before the op-mode's flag, so a stop
  in between can leave `queue_stopped` set and `stopped` clear: the overflow
  queue then grows without back-pressure until the next restart.
  `NoLostStop` shows that the harmful opposite cannot happen.

## 6. Proofs

All theorems are about `Spec` (no fairness), for every value of the constants
that satisfies the module's assumption (bounds included) and the theorem's own
hypothesis where one is named below, and are checked by TLAPS.

* `NotifWaitProof`: `IInvInvariant`, `TypeCorrect`, `LifetimeCorrect`, `CallbackOnceCorrect`,
  `SuccessCorrect`, `AnswerCorrect`, `WakeupCorrect`, for any number of threads
  and RX contexts. The inductive invariant `IInv` adds that the accept counter
  follows `triggered`, how a thread got to the end of its wait, and
  `InFlightOK`: a packet on its way matches the entry of the wait that asked
  for it. That last one is what makes `NoAnswerLost` inductive: the thread asks
  the firmware only after it is on the list, so a packet of its own cannot
  meet an empty list.
* `PhcHandshakeProof`: `IInvInvariant`, `TypeCorrect`, `PendingCorrect`, `FreshCorrect`. `IInv`
  ties the lock to the critical sections, a pending flag to a held lock, and
  flag 2 inside a critical section to an answer since the lock was taken.
* `CmdQueueProof`: `TypeCorrect`, `AwakeCorrect`, `ActiveCorrect`,
  `EntryCorrect`, `AnswerCorrect`, `SuccessCorrect`.
  `ActiveCorrect` uses `ActiveInv`: only synchronous calls wait, two that are
  under way at a time hold different locks (`TwoLocks`), and the active bit
  belongs to one that is enqueueing or waiting. `RingInv` says that the commands on their way (in the
  firmware, then in the receive handler) are in the order they were written,
  among the last `Window` positions and not behind the read pointer: no two of
  them share an entry. After a skipped command the reclaim may stop somewhere
  else than it should, but never past a command that is pending, which is why
  its mixture of positions and entry indices does no harm to `EntryIntact`.
  `AnswerInv` says whose packet a receive handler holds between its steps and
  that an entry which still wants the packet belongs to the call that waits;
  `SuccessInv` says that an undisturbed call, unless it will find an error, is
  alone until it takes the active bit and then keeps it until its answer is
  completed: no other call is where it could clear the bit, and no answer but
  its own is still to come to a synchronous call (`Holder`). When its wait is
  over it was answered (`Told`). `SuccessCorrect` has no hypothesis: the PTP clock, rfkill and
  restarts are in it, and what they can do to a call is in `disturbed`.
* `TxQueueProof`: `TypeCorrect`, `OneTransmitterCorrect`, `StopCorrect`,
  `WatchdogCorrect`, `ConservedCorrect`, `FlushCorrect`. `TypeCorrect` covers suspend and resume too
  (`PmTypeOK`): a queue is marked only while mac80211's queues are stopped, so
  the wake-up at the end of a resume clears the mark. What suspend and resume do
  to the data path is one lemma (`HostSteps`): they let a thread begin to
  transmit, and change nothing else of it. `TxInv`
  adds that a transmitting process is counted in `tx_request`, so the count
  never goes below one before it leaves. `StopCorrect` rests on lemmas of ring
  arithmetic (`UsedAfterPut`, `UsedAfterReclaim`) and on the order of the two
  marks (`Marks`); `NoLostStop` and `WatchdogArmed` are inductive with them.
  `ConservedCorrect` needs two facts: `OrderInv`, the frames not handed to the
  transport are the last that arrived, in order, and `PlaceInv`, the places a
  frame can be in (mac80211's queue, the sender's list, the ring, the overflow
  queue, the list of a reclaim, done, leaked) split the frames that arrived,
  none twice on the ring. `FlushCorrect` follows the frames the transport had
  when a wait for empty began (`WaiterInv`): after the first round that saw no
  change they are on the ring or done with, after the ring was seen empty they
  are done with.
* `CorrelatedTimeProof`: `TypeCorrect`, `PairCorrect`, `BestCorrect`,
  `FramesOrdered`. `TryInv`
  says what a call knows between two tries: every reading so far was refused
  for its error, the best one is a reading of this call whose error is Slack or
  more, and no raw time lies ahead. It is what excludes an acceptance by a
  stale best reading, and what makes the raw time left behind that of the last
  reading. A call that is refused in between changes none of it.
  `FramesOrdered` uses `RangeInv`: a reported device time is below two turns of
  the register. Its hypothesis is that two turns and 3 ns fit in 64 bits, which
  the driver's 2^33 us do.
* `RbdAllocatorProof`: `Invariant`, `TypeInvariant`, `ClaimsAreCovered`,
  `RequestsAreSeen`, `Refinement`, `RbdsConserved`, `TrackedUntilFailure`,
  `AllocatorHasRbds`, `DeviceKeepsBuffers`, `DriverNeverStalls`. The inductive invariant has four parts
  besides the type: where a handler may be for its `used_count` (`HandlerInv`),
  what the work holds at each step (`WorkInv`), that pages cover grants
  (`GrantInv`, the exact count behind `ClaimFinds`), and that pending requests
  the work has not seen have queued it (`CoverInv`). `Refinement` shows that
  initial states map to initial states of `RbdService` and that each step is
  one of its steps or leaves its variables alone: posting, queueing and the
  work's lists are invisible, counting a descriptor is `Lend`, `WorkReady` is
  `Serve`, `Take` is `Reclaim`, a restart is `Reset`. That a claim has
  `used_count` of at least `Claim` when it takes, several steps after it
  looked, is the fact that makes `Take` a `Reclaim`.
  Sums over the queues are cardinalities of sets of marks (`Total`), so the
  theorems on finite sets apply to them. `AllocatorHasRbds` keeps a ledger: the
  RBDs without a page are `Claim` for every open request, the spare ones each
  queue has handed over since its last post, and the leaked ones; the work
  therefore holds `Claim` of them for each request it has counted (`TakenInv`),
  and the code's BUG_ON cannot fire. `TrackedUntilFailure` uses `UntrackedInv`:
  until an allocation fails, uncounted RBDs exist only in a handler that will
  give them a page itself.
  `DeviceKeepsBuffers` is `NeverStalls`, which does not hold of every ring.
  Its hypothesis `Roomy(k)` says that `k` claims make up the half ring at which
  a handler turns to emergency mode, and that a ring is larger than those `k`
  claims, what each queue can have lent before it asks, and what each holds
  back from the write pointer. `DriverNeverStalls` shows that the driver's
  numbers satisfy it (8 per claim, 8 per write of the pointer, up to 16 queues,
  rings of 512, 2048 and 4096). The invariant: `Accounts`, the requests made
  and not yet claimed are worth what the queues have lent, rounded to claims
  (proved along the steps of `RbdService`); `LateInv`, fewer requests wait than
  `k` and the queues that posted without having passed the emergency test
  since; `LoanInv`, a loan grows only in a handler that finds nothing ready,
  and then all loans together are at most `Lendable(k)`; `IdleBalance`, when
  all handlers are at rest, what is neither lent nor held back is with the
  device.
* `ReorderBufferProof`: `CounterCorrect`, `StoredCorrect`, `DeleteCorrect`.
  `SyncInv` says that at most one message per queue carries the current cookie,
  none when no thread waits for it, and that the counter is the number of
  queues that still hold it, as long as the deletion is not `spoilt`; `KillInv`
  that a deletion meets a killed radio only when it is. `DataInv` gives the shape
  of buffers and messages (entries are lists, sequence numbers are in range, the firmware's NSSN is a
  frame number) and that `num_stored` of a live buffer is the number of places
  taken in its entries; it is inductive because a release empties whole entries
  and counts what was in them. `DelInv` is the argument of a deletion that is not spoilt: the firmware
  is off before the queues are told, so nothing to store follows the message
  on any queue (`AfterInv`); a queue that has handled the message has an empty
  buffer, no timer and no handler, and an NSSN message changes none of it
  (`DoneInv`); an unspoilt wait ends without a fault only when every queue has handled
  it (`SyncInv`), and stays so until the session is freed (`EndInv`). The
  hypothesis of `DeleteCorrect` is that the buffer size divides the sequence
  space: only then does a release of a whole window visit every entry
  (`WindowCovers`); 64 and 256 of 4096 do, and the observations mention windows
  that do not.
* `ReorderWindowProof`: `HeadNeverBack`, `FirstFramesKept`, `AccountingCorrect`,
  `OrderCorrect`, on top of `DataInv`. The driver decides on numbers modulo
  `SnMod`; whether it decides right depends on what still waits in the queues,
  so none of the four is inductive by itself. `Windows` (as `WindowsInv` while the session is
  undisturbed) reads every number as a frame number and relates, for each
  queue, its buffer, its messages in their order and the firmware's window:
  what a buffer stores lies in the window at its head and at its index
  (`Windowed`); a message never announces less than the ones before it allow
  (`Follows`: a frame is not behind the NSSN of a data message before it, and an
  NSSN of another queue may be ahead by at most a window, and not at all until a
  timer has fired); and for every
  frame stored or waiting, the messages behind it tell this queue numbers that
  reach it in steps of at most a window (`Leaves`, `Told`), so the loop at
  `mvm/rxmq.c:563` never skips a release. That last part is the reason the
  model has to say what the firmware announces to which queue: with fewer
  notifications it is false, and frames are left behind. Given a queue in this
  relation, the lemmas follow one handler at a time: what comes to a queue
  (`Given`, from `Deliver`, `Bar` and the trigger commands), what a frame,
  a release and an NSSN message do to head and entries, the timer. Before the
  proof, TLC checked `Windows` as an invariant on instances of
  two queues that differ in steering, retransmissions and jumps.
  The hypothesis is `Short`: `BufSize` divides `SnMod`; the NSSN moves by at
  most a window at a time (the loop skips more, see the observations); and the
  frames of the session span less than half of the sequence space. NSSN messages
  are asynchronous and the firmware bounds their delay by nothing, so in a
  longer session a queue without traffic can be half the space behind, where
  the comparisons modulo 4096 change their meaning. The session may begin
  anywhere and wrap. The instance of the run `reorder` satisfies `Short`.
  `OrderCorrect` adds `OrderInv` for the sessions `InOrder` speaks of (`Calm`):
  what a queue has passed up is sorted, has been received, and comes before all
  that its buffer stores and before every waiting frame that will not be
  dropped (`Ordered`). The sub-frames of one A-MSDU may go to several queues and
  a retransmission repeats them all, so the order is on (frame, sub-frame), and
  a retransmitted frame is never below the NSSN it brings (`Again`). A release is a
  concatenation (`FlattenSeq`); its value is taken from the recursive function
  that defines it, and that sorted lists over rising entries give a sorted list
  is shown by the least index at which it could fail (`FlattenRising`).

Assumptions: a ring has at least eight positions (`TxQueueAssumption`), the
window divides the ring (`CmdQueueAssumption`; both are powers of two in the
code), a reorder buffer is smaller than half the sequence space
(`ReorderAlgAssumption`; at most 256 of 4096 in the code), thread sets are
disjoint where names differ.

Only model-checked are the liveness properties (`FinishedWaitReturns`,
`CallReturns`, `NoTxHanging`, `StoredLeaves`, `DeleteEnds` and the serving
of every request in `ImplementsService`), which are out of the prover's reach.

Type correctness is proved for `NotifWait`, `PhcHandshake`, `CorrelatedTime`,
`CmdQueue`, `TxQueue` and `RbdAllocator`, so no run repeats it; for
`ReorderBuffer` `DataInv` plays that part.

## 7. Not modelled

Contents of commands and frames, DMA and byte counts, register sequences, the
gen2 transport (the same protocols over another descriptor format), queues that
do not aggregate, the stop of the device by rfkill for firmware that is not
unified, two concurrent calls of the discrete device's clock that both find
`firmware_operation_done` 0 (`mvm/timing_measurement.c:262`) and interleave
their readings (a call that finds it set is modelled), asynchronous NSSN
messages that rfkill drops, a session set up after rfkill refused the removal of
an earlier one (an interface that rfkill takes down comes first), and of a
suspend: mac80211's flush of the ring and its tear-down of sessions, the restart
of the firmware after a resume that fails, and the debugfs test of D3
(`mvm/d3.c:2117`). Nor are the order of clock registration and timecounter
initialisation (`mvm/mac80211.c:1240`) modelled, the session timer of a block-ack
session and the limit on sessions, the single-queue restock of devices before
9000, the receive write pointer delayed by power save. Time events, the op-mode's
dispatch and restart, queue ownership and aggregation state of transmit
sessions are state machines of the same kind as the modelled ones and are left
for later. The remaining components are listed in PROJECT.json with their
reasons: most of the repository is vendored (mac80211, cfg80211, backports),
another op-mode or transport, tables, or code that fills and parses messages.

## 8. Plan

Done: `NotifWait`, `PhcHandshake`, `CorrelatedTime`, `CmdQueue`, `TxQueue`,
`ReorderBuffer`, `RbdAllocator` with `RbdService`, and the proofs above, which
cover every safety property of the passing runs. Next, in order:

1. Proofs: `HeadForward` and `InOrder` for sessions of any length under a bound
   on how far a queue may lag.
2. `TimeEvent` (`mvm/time-event.c`) with the async handlers of `mvm/ops.c`; the
   wait inside `iwl_mvm_protect_session` as an instance of `NotifWait`'s
   promise.
3. `PhcLifecycle` (`mvm/ptp.c`, `mvm/mac80211.c`): registration, overflow work
   and removal around `PhcHandshake`.
4. Aggregation sessions and queue ownership (`mvm/sta.c`), composed with
   `TxQueue`.
5. An abstract specification of a synchronous command (a call gets its own
   answer or an error) and `CmdQueue` shown to implement it.
