------------------------------ MODULE TxQueue -------------------------------
(***************************************************************************)
(* The data path of one aggregation queue: mac80211's queue of a station's *)
(* TID, the op-mode's transmit loop over it (iwl_mvm_mac_itxq_xmit and     *)
(* iwl_mvm_tx_skb), and the PCIe transport's ring with its overflow queue  *)
(* (iwl_trans_pcie_tx, iwl_trans_pcie_reclaim), the watchdog of the ring   *)
(* and a thread that waits for the ring to drain.                          *)
(*                                                                         *)
(* An skb is the sequence of the MPDUs it is split into: more than one     *)
(* when iwl_mvm_tx_tso segments it.  A frame is numbered in the order in   *)
(* which mac80211 queues it; the sequence number the op-mode gives it is   *)
(* kept modulo the ring size, which is all the transport looks at.         *)
(*                                                                         *)
(* A call of iwl_trans_pcie_tx is one action: it runs under txq->lock, and *)
(* iwl_wake_queue, which does not, is two.  Stopping the queue inside it   *)
(* may be atomic because the wake-up that could fall in between has then   *)
(* cleared the bit before.                                                 *)
(***************************************************************************)
EXTENDS Integers, Sequences, FiniteSets

CONSTANTS
  QueueSize,   \* max_tfd_queue_size, and n_window of a data queue
  StartPtr,    \* where the queue was enabled (ssn & 0xff)
  Threads,     \* threads mac80211 queues frames from
  Rx,          \* the receive handler, the only one to reclaim
  Bursts,      \* how many MPDUs an skb may have
  MaxFrames,   \* bound: frames in a behaviour
  MaxEvents    \* bound: DMA mappings that fail, firmware errors, times the
               \* station falls asleep, waits for an empty queue and times
               \* the system is suspended, in all

Positions == 0..(QueueSize - 1)
Procs == Threads \cup {Rx}
None == 0

ASSUME TxQueueAssumption ==
  /\ QueueSize \in Nat /\ QueueSize >= 8
  /\ StartPtr \in Positions
  /\ Rx \notin Threads
  /\ Bursts \subseteq Nat \ {0}
  /\ MaxFrames \in Nat /\ MaxEvents \in Nat

LowMark == IF QueueSize \div 4 < 4 THEN 4 ELSE QueueSize \div 4
HighMark == IF QueueSize \div 8 < 2 THEN 2 ELSE QueueSize \div 8
MinSpace == 3 \* below this a frame is not put on the ring

VARIABLES
  read_ptr, write_ptr, entries, overflow_q, overflow_tx,
  queue_stopped,  \* the queue's bit in trans_pcie->queue_stopped
  timer, frozen,  \* the watchdog is armed; it is frozen
  fw_error,       \* STATUS_FW_ERROR
  itxq,           \* mac80211's queue of skbs
  tx_request, stopped, seq_number, \* mvmtxq and tid_data
  pc,             \* per process, where in iwl_mvm_mac_itxq_xmit or reclaim
  mpdus,          \* per process, the MPDUs of its skb still to send
  flush,          \* overflow_skbs of the reclaim
  waiter,         \* iwl_trans_pcie_wait_txq_empty
  system_pm_mode, \* of iwl_trans: "DISABLED" or "D3"
  host,           \* how far a suspend or resume of the system is
  netif_stop,     \* IEEE80211_TXQ_STOP_NETIF_TX of mac80211's queue
  missed,         \* history: the last look at the queue was given up for D3
  arrived,        \* frames mac80211 has queued
  reclaimed,      \* frames given back
  freed, leaked,  \* frames dropped: freed, or forgotten
  events

ringVars == <<read_ptr, write_ptr, entries>>
ovfVars == <<overflow_q, overflow_tx, flush>>
stopVars == <<queue_stopped, stopped>>
wdVars == <<timer, frozen>>
endVars == <<reclaimed, freed, leaked>>
pmVars == <<system_pm_mode, host, netif_stop, missed>>
mvmVars == <<tx_request, seq_number, itxq, mpdus, arrived>>
vars == <<ringVars, ovfVars, stopVars, wdVars, fw_error, mvmVars, pc, waiter,
          pmVars, endVars, events>>

iwl_queue_inc_wrap(i) == (i + 1) % QueueSize
UsedBetween(r, w) == (w - r) % QueueSize
Used == UsedBetween(read_ptr, write_ptr)
SpaceOf(used) == QueueSize - 1 - used
iwl_queue_space == SpaceOf(Used)

NoFrame == [id |-> None, seq |-> 0]
Idle == [pc |-> "idle", wr_ptr |-> 0, ovf |-> FALSE, owed |-> 0]

Init ==
  /\ read_ptr = StartPtr /\ write_ptr = StartPtr /\ seq_number = StartPtr
  /\ entries = [i \in Positions |-> NoFrame]
  /\ overflow_q = <<>> /\ overflow_tx = FALSE /\ flush = <<>>
  /\ queue_stopped = FALSE /\ stopped = FALSE
  /\ timer = FALSE /\ frozen = FALSE /\ fw_error = FALSE
  /\ itxq = <<>> /\ tx_request = 0
  /\ pc = [p \in Procs |-> "idle"] /\ mpdus = [p \in Procs |-> <<>>]
  /\ waiter = Idle
  /\ system_pm_mode = "DISABLED" /\ host = "awake"
  /\ netif_stop = FALSE /\ missed = FALSE
  /\ arrived = 0 /\ reclaimed = {} /\ freed = {} /\ leaked = {}
  /\ events = 0

Event == events < MaxEvents /\ events' = events + 1
Goto(p, l) == pc' = [pc EXCEPT ![p] = l]

\* Between rcu_read_lock and rcu_read_unlock of iwl_mvm_mac_itxq_xmit.
Transmitting(p) == pc[p] \in {"loop", "dequeue", "send", "leave"}

\* The frames that mac80211, the op-mode and the transport hold.
IdsIn(s) == {s[i] : i \in 1..Len(s)}
WithMac80211 == UNION {IdsIn(itxq[i]) : i \in 1..Len(itxq)}
WithOpMode == UNION {IdsIn(mpdus[p]) : p \in Procs}
InRing == {entries[i].id : i \in {(read_ptr + k) % QueueSize :
                                    k \in 0..(Used - 1)}}
IdsOf(s) == {s[i].id : i \in 1..Len(s)}
InTransport == InRing \cup IdsOf(overflow_q) \cup IdsOf(flush)

\* Frames are handed to the transport in order: how many have been?
Handed == arrived - Cardinality(WithMac80211 \cup WithOpMode)

-----------------------------------------------------------------------------
(* iwl_trans_pcie_tx: the frame goes to the ring or to the overflow queue. *)

Full == iwl_queue_space < HighMark
\* Mutant of ToOverflow.
ToOverflowNever == FALSE

ToOverflow == Full /\ iwl_queue_space < MinSpace

\* iwl_stop_queue, which tells the op-mode only the first time.
StopIfFull ==
  /\ queue_stopped' = (queue_stopped \/ Full)
  /\ stopped' = (stopped \/ (Full /\ ~queue_stopped))

Overflow(f) ==
  /\ ~fw_error /\ ToOverflow
  /\ StopIfFull
  /\ overflow_q' = Append(overflow_q, f)
  /\ UNCHANGED <<ringVars, wdVars, events>>

OnRing(f) ==
  /\ ~fw_error /\ ~ToOverflow
  /\ StopIfFull
  /\ entries' = [entries EXCEPT ![write_ptr] = f]
  /\ write_ptr' = iwl_queue_inc_wrap(write_ptr)
  /\ timer' = (timer \/ (Used = 0 /\ ~frozen))
  /\ UNCHANGED <<read_ptr, overflow_q, frozen, events>>

\* The firmware has failed, or (out_err) a buffer cannot be mapped: the
\* position is not taken.
TxError(f) ==
  /\ \/ fw_error /\ UNCHANGED <<stopVars, entries, events>>
     \/ /\ ~fw_error /\ ~ToOverflow /\ Event
        /\ StopIfFull
        /\ entries' = [entries EXCEPT ![write_ptr] = f]
  /\ UNCHANGED <<read_ptr, write_ptr, overflow_q, wdVars>>

-----------------------------------------------------------------------------
(* The op-mode: iwl_mvm_mac_itxq_xmit.                                     *)

\* mac80211 queues an skb and calls iwl_mvm_mac_wake_tx_queue.
Queue(p, n) ==
  /\ p \in Threads /\ pc[p] = "idle" /\ arrived + n <= MaxFrames
  /\ itxq' = Append(itxq, [i \in 1..n |-> arrived + i])
  /\ arrived' = arrived + n
  /\ Goto(p, "enter")
  /\ UNCHANGED <<ringVars, ovfVars, stopVars, wdVars, fw_error, tx_request,
                 seq_number, mpdus, waiter, pmVars, endVars, events>>

\* Where a process continues when iwl_mvm_mac_itxq_xmit returns.
Caller(p) == IF p = Rx THEN "relock" ELSE "idle"

\* Mutant of Requested: a request during a transmission is forgotten.
RequestedOnce == 1

\* atomic_fetch_add_unless(&mvmtxq->tx_request, 1, 2)
Requested == IF tx_request = 2 THEN 2 ELSE tx_request + 1

\* Mutant of First: every caller transmits.
FirstAlways == TRUE

First == tx_request = 0

\* The first one transmits, for those that come meanwhile too.
itxq_xmit_enter(p) ==
  /\ pc[p] = "enter"
  /\ tx_request' = Requested
  /\ Goto(p, IF First THEN "loop" ELSE Caller(p))
  /\ UNCHANGED <<ringVars, ovfVars, stopVars, wdVars, fw_error, seq_number,
                 itxq, mpdus, arrived, waiter, pmVars, endVars, events>>

\* The queue is looked at while it is not stopped and the system not in D3.
itxq_xmit_loop(p) ==
  /\ pc[p] = "loop"
  /\ missed' = (~stopped /\ system_pm_mode # "DISABLED")
  /\ Goto(p, IF stopped \/ missed' THEN "leave" ELSE "dequeue")
  /\ UNCHANGED <<ringVars, ovfVars, stopVars, wdVars, fw_error, mvmVars,
                 waiter, system_pm_mode, host, netif_stop, endVars, events>>

\* vif->txqs_stopped: from __ieee80211_suspend until the wake-up.
TxqsStopped == host # "awake"

\* A queue that mac80211 has stopped gives nothing and is marked, so that the
\* wake-up finds it.
ieee80211_tx_dequeue(p) ==
  /\ pc[p] = "dequeue"
  /\ netif_stop' = (netif_stop \/ TxqsStopped)
  /\ IF netif_stop' \/ itxq = <<>>
     THEN Goto(p, "leave") /\ UNCHANGED <<itxq, mpdus>>
     ELSE /\ mpdus' = [mpdus EXCEPT ![p] = Head(itxq)]
          /\ itxq' = Tail(itxq)
          /\ Goto(p, "send")
  /\ UNCHANGED <<ringVars, ovfVars, stopVars, wdVars, fw_error, tx_request,
                 seq_number, arrived, waiter, system_pm_mode, host, missed,
                 endVars, events>>

\* iwl_mvm_tx_mpdu on the next MPDU, under mvmsta->lock: the sequence number
\* advances when the transport takes the frame.
iwl_mvm_tx_mpdu(p) ==
  /\ pc[p] = "send"
  /\ LET f == [id |-> Head(mpdus[p]), seq |-> seq_number] IN
       Overflow(f) \/ OnRing(f)
  /\ seq_number' = iwl_queue_inc_wrap(seq_number)
  /\ mpdus' = [mpdus EXCEPT ![p] = Tail(@)]
  /\ Goto(p, IF Len(mpdus[p]) = 1 THEN "loop" ELSE "send")
  /\ UNCHANGED <<overflow_tx, flush, fw_error, itxq, tx_request, arrived,
                 waiter, pmVars, endVars>>

\* The transport refuses the MPDU: iwl_mvm_tx_skb frees the ones after it,
\* and nobody frees the one it was called with.
iwl_mvm_tx_skb_drop(p) ==
  /\ pc[p] = "send"
  /\ TxError([id |-> Head(mpdus[p]), seq |-> seq_number])
  /\ leaked' = leaked \cup {Head(mpdus[p])}
  /\ freed' = freed \cup {mpdus[p][i] : i \in 2..Len(mpdus[p])}
  /\ mpdus' = [mpdus EXCEPT ![p] = <<>>]
  /\ Goto(p, "loop")
  /\ UNCHANGED <<overflow_tx, flush, fw_error, itxq, tx_request, seq_number,
                 arrived, waiter, pmVars, reclaimed>>

\* atomic_dec_return(&tx_request): look again if somebody asked.
itxq_xmit_leave(p) ==
  /\ pc[p] = "leave"
  /\ tx_request' = tx_request - 1
  /\ Goto(p, IF tx_request = 1 THEN Caller(p) ELSE "loop")
  /\ UNCHANGED <<ringVars, ovfVars, stopVars, wdVars, fw_error, seq_number,
                 itxq, mpdus, arrived, waiter, pmVars, endVars, events>>

-----------------------------------------------------------------------------
(* iwl_trans_pcie_reclaim, called for a Tx response or a block ack.        *)

\* Mutant of Progress: the timer is deleted although frames are left.
ProgressDeletes(left) == frozen /\ timer

\* iwl_pcie_txq_progress: the timer when a reclaim leaves so many frames.
Progress(left) == IF frozen THEN timer ELSE left > 0

\* Mutant of Resume.
ResumeLate(used) == queue_stopped /\ SpaceOf(used) > LowMark + 1

\* Does a reclaim that leaves used frames restart the queue?
Resume(used) == queue_stopped /\ SpaceOf(used) > LowMark

\* The firmware is done with the n oldest frames.  When there is room again
\* on a stopped queue the overflow queue is taken over and the lock dropped.
iwl_trans_pcie_reclaim(n) ==
  /\ pc[Rx] = "idle" /\ host # "asleep" /\ n \in 1..Used
  /\ LET gone == [k \in 1..n |-> (read_ptr + k - 1) % QueueSize] IN
       /\ reclaimed' = reclaimed \cup {entries[gone[k]].id : k \in 1..n}
       /\ entries' = [i \in Positions |->
                        IF \E k \in 1..n : gone[k] = i THEN NoFrame
                        ELSE entries[i]]
  /\ read_ptr' = (read_ptr + n) % QueueSize
  /\ timer' = Progress(Used - n)
  /\ IF Resume(Used - n)
     THEN /\ flush' = overflow_q /\ overflow_q' = <<>>
          /\ overflow_tx' = TRUE
          /\ Goto(Rx, "flush")
     ELSE UNCHANGED <<ovfVars, pc>>
  /\ UNCHANGED <<write_ptr, frozen, stopVars, fw_error, mvmVars, waiter,
                 pmVars, freed, leaked, events>>

\* iwl_trans_tx of the next frame of the overflow queue ...
FlushOne ==
  /\ pc[Rx] = "flush" /\ flush # <<>>
  /\ Overflow(Head(flush)) \/ OnRing(Head(flush))
  /\ flush' = Tail(flush)
  /\ UNCHANGED <<overflow_tx, fw_error, mvmVars, pc, waiter, pmVars, endVars>>

\* ... whose return value is not looked at.
FlushFails ==
  /\ pc[Rx] = "flush" /\ flush # <<>>
  /\ TxError(Head(flush))
  /\ leaked' = leaked \cup {Head(flush).id}
  /\ flush' = Tail(flush)
  /\ UNCHANGED <<overflow_tx, fw_error, mvmVars, pc, waiter, pmVars, reclaimed,
                 freed>>

\* The space is looked at again, without the lock.
FlushEnd ==
  /\ pc[Rx] = "flush" /\ flush = <<>>
  /\ Goto(Rx, IF iwl_queue_space > LowMark THEN "wake" ELSE "relock")
  /\ UNCHANGED <<ringVars, ovfVars, stopVars, wdVars, fw_error, mvmVars,
                 waiter, pmVars, endVars, events>>

\* iwl_wake_queue clears the transport's bit ...
iwl_wake_queue ==
  /\ pc[Rx] = "wake"
  /\ queue_stopped' = FALSE
  /\ Goto(Rx, IF queue_stopped THEN "woken" ELSE "relock")
  /\ UNCHANGED <<ringVars, ovfVars, stopped, wdVars, fw_error, mvmVars,
                 waiter, pmVars, endVars, events>>

\* ... and then iwl_mvm_queue_state_change restarts the op-mode's queue and
\* transmits from it.
iwl_mvm_wake_sw_queue ==
  /\ pc[Rx] = "woken"
  /\ stopped' = FALSE
  /\ Goto(Rx, "enter")
  /\ UNCHANGED <<ringVars, ovfVars, queue_stopped, wdVars, fw_error, mvmVars,
                 waiter, pmVars, endVars, events>>

Relock ==
  /\ pc[Rx] = "relock"
  /\ overflow_tx' = FALSE
  /\ Goto(Rx, "idle")
  /\ UNCHANGED <<ringVars, overflow_q, flush, stopVars, wdVars, fw_error,
                 mvmVars, waiter, pmVars, endVars, events>>

-----------------------------------------------------------------------------
(* iwl_trans_pcie_wait_txq_empty, called once to flush the queue.          *)

\* Mutant of TransAdds: the state the comment in the reclaim warns of.
TransAddsQueueOnly == overflow_q # <<>>

\* Does the transport, as seen under the lock, still add frames by itself?
TransAdds == overflow_tx \/ overflow_q # <<>>

waitUnchanged == <<ringVars, ovfVars, stopVars, wdVars, fw_error, mvmVars,
                   pc, pmVars, endVars>>

WaitStart ==
  /\ waiter.pc = "idle" /\ Event
  /\ waiter' = [Idle EXCEPT !.pc = "ptr", !.ovf = TransAdds,
                            !.owed = Handed]
  /\ UNCHANGED waitUnchanged

WaitPtr ==
  /\ waiter.pc = "ptr"
  /\ waiter' = [waiter EXCEPT !.pc = "test", !.wr_ptr = write_ptr]
  /\ UNCHANGED <<waitUnchanged, events>>

Drained == read_ptr = write_ptr /\ ~waiter.ovf
Moved == waiter.wr_ptr # write_ptr /\ ~waiter.ovf

WaitTest ==
  /\ waiter.pc = "test" /\ ~Drained
  /\ waiter' = IF Moved
               THEN [Idle EXCEPT !.pc = "warned", !.owed = waiter.owed]
               ELSE [waiter EXCEPT !.pc = "sleep", !.wr_ptr = write_ptr]
  /\ UNCHANGED <<waitUnchanged, events>>

WaitSample ==
  /\ waiter.pc = "sleep"
  /\ waiter' = [waiter EXCEPT !.pc = "test", !.ovf = TransAdds]
  /\ UNCHANGED <<waitUnchanged, events>>

\* The loop ends because the queue has drained or IWL_FLUSH_WAIT_MS have
\* passed ...
WaitExit ==
  /\ waiter.pc = "test"
  /\ \/ Drained /\ waiter' = [waiter EXCEPT !.pc = "drained"]
     \/ waiter' = [waiter EXCEPT !.pc = "late"]
  /\ UNCHANGED <<waitUnchanged, events>>

\* ... and the pointers are compared once more, in either case.
WaitReturn ==
  /\ waiter.pc \in {"drained", "late"}
  /\ waiter' = IF read_ptr # write_ptr THEN [Idle EXCEPT !.pc = "failed"]
               ELSE IF waiter.pc = "late" THEN [Idle EXCEPT !.pc = "late 0"]
               ELSE [Idle EXCEPT !.pc = "empty", !.owed = waiter.owed]
  /\ UNCHANGED <<waitUnchanged, events>>

-----------------------------------------------------------------------------
(* The watchdog, the firmware and the station.                             *)

\* iwl_pcie_txq_stuck_timer forces an NMI unless the queue has drained.
iwl_pcie_txq_stuck_timer ==
  /\ timer /\ Event
  /\ timer' = FALSE
  /\ fw_error' = (fw_error \/ Used > 0)
  /\ UNCHANGED <<ringVars, ovfVars, stopVars, frozen, mvmVars, pc, waiter,
                 pmVars, endVars>>

FwError ==
  /\ ~fw_error /\ Event
  /\ fw_error' = TRUE
  /\ UNCHANGED <<ringVars, ovfVars, stopVars, wdVars, mvmVars, pc, waiter,
                 pmVars, endVars>>

\* The station falls asleep or wakes up.  A timer that is due when the queue
\* is frozen is left to fire.
iwl_trans_pcie_freeze_txq_timer(freeze) ==
  /\ frozen # freeze
  /\ IF freeze THEN Event ELSE UNCHANGED events
  /\ frozen' = freeze
  /\ IF Used = 0 THEN UNCHANGED timer
     ELSE timer' = ~freeze \/ (freeze /\ UNCHANGED timer)
  /\ UNCHANGED <<ringVars, ovfVars, stopVars, fw_error, mvmVars, pc, waiter,
                 pmVars, endVars>>

-----------------------------------------------------------------------------
(* The system is suspended with WoWLAN and resumed: mac80211 and d3.c.     *)

hostUnchanged == <<ringVars, ovfVars, stopVars, wdVars, fw_error, mvmVars,
                   waiter, missed, endVars>>

\* __ieee80211_suspend stops mac80211's queues ...
ieee80211_suspend ==
  /\ host = "awake" /\ Event
  /\ host' = "stopping"
  /\ UNCHANGED <<hostUnchanged, pc, system_pm_mode, netif_stop>>

\* ... and waits in synchronize_net for whoever still transmits.
synchronize_net ==
  /\ host = "stopping" /\ \A p \in Procs : ~Transmitting(p)
  /\ host' = "quiet"
  /\ UNCHANGED <<hostUnchanged, pc, system_pm_mode, netif_stop, events>>

iwl_mvm_suspend ==
  /\ host = "quiet"
  /\ host' = "suspending" /\ system_pm_mode' = "D3"
  /\ UNCHANGED <<hostUnchanged, pc, netif_stop, events>>

\* __iwl_mvm_suspend puts the device to sleep, with its interrupts off and
\* their handlers finished, or fails: system_pm_mode stays as it is.
SuspendReturns ==
  /\ host = "suspending"
  /\ \/ pc[Rx] = "idle" /\ host' = "asleep"
     \/ host' = "waking"
  /\ UNCHANGED <<hostUnchanged, pc, system_pm_mode, netif_stop, events>>

\* iwl_mvm_resume: __iwl_mvm_resume wakes the device ...
DeviceResumes ==
  /\ host = "asleep"
  /\ host' = "resuming"
  /\ UNCHANGED <<hostUnchanged, pc, system_pm_mode, netif_stop, events>>

\* ... and only then may frames be sent again.
iwl_mvm_resume ==
  /\ host = "resuming"
  /\ host' = "waking" /\ system_pm_mode' = "DISABLED"
  /\ UNCHANGED <<hostUnchanged, pc, netif_stop, events>>

\* ieee80211_wake_queues_by_reason, after a suspend that failed too: a marked
\* queue is transmitted from.
ieee80211_wake_txqs(p) ==
  /\ p \in Threads /\ pc[p] = "idle" /\ host = "waking"
  /\ host' = "awake" /\ netif_stop' = FALSE
  /\ IF netif_stop THEN Goto(p, "enter") ELSE UNCHANGED pc
  /\ UNCHANGED <<hostUnchanged, system_pm_mode, events>>

-----------------------------------------------------------------------------
Xmit(p) ==
  \/ itxq_xmit_enter(p) \/ itxq_xmit_loop(p) \/ ieee80211_tx_dequeue(p)
  \/ iwl_mvm_tx_mpdu(p) \/ iwl_mvm_tx_skb_drop(p) \/ itxq_xmit_leave(p)

ReclaimPath ==
  \/ FlushOne \/ FlushFails \/ FlushEnd
  \/ iwl_wake_queue \/ iwl_mvm_wake_sw_queue \/ Relock

Wait == \/ WaitStart \/ WaitPtr \/ WaitTest \/ WaitSample \/ WaitExit
        \/ WaitReturn

HostOn ==
  \/ synchronize_net \/ iwl_mvm_suspend \/ SuspendReturns \/ iwl_mvm_resume
  \/ \E p \in Threads : ieee80211_wake_txqs(p)

Host == ieee80211_suspend \/ DeviceResumes \/ HostOn

Next ==
  \/ \E p \in Threads, n \in Bursts : Queue(p, n)
  \/ \E p \in Procs : Xmit(p)
  \/ \E n \in 1..(QueueSize - 1) : iwl_trans_pcie_reclaim(n)
  \/ ReclaimPath
  \/ Wait
  \/ Host
  \/ iwl_pcie_txq_stuck_timer \/ FwError
  \/ \E freeze \in BOOLEAN : iwl_trans_pcie_freeze_txq_timer(freeze)

Spec == Init /\ [][Next]_vars

\* Threads and the receive handler run on; a firmware that has not failed
\* completes the frames it was given; a suspend and a resume that have begun
\* come to an end.
FairSpec ==
  /\ Spec
  /\ \A p \in Procs : WF_vars(Xmit(p))
  /\ WF_vars(ReclaimPath)
  /\ WF_vars(HostOn)
  /\ WF_vars(~fw_error /\ \E n \in 1..(QueueSize - 1) :
                              iwl_trans_pcie_reclaim(n))

-----------------------------------------------------------------------------
Frames == 1..MaxFrames
Frame == [id : 0..MaxFrames, seq : Positions]
Skb == Seq(Frames) \ {<<>>}
Labels == {"idle", "enter", "loop", "dequeue", "send", "leave", "flush",
           "wake", "woken", "relock"}
Waiter == [pc : {"idle", "ptr", "test", "sleep", "warned", "drained", "late",
                 "empty", "late 0", "failed"},
           wr_ptr : Positions, ovf : BOOLEAN, owed : Int]

\* Every variable of the data path has its type, and a process that sends has
\* something to send.
TypeOK ==
  /\ read_ptr \in Positions /\ write_ptr \in Positions
  /\ seq_number \in Positions
  /\ entries \in [Positions -> Frame]
  /\ overflow_q \in Seq(Frame) /\ flush \in Seq(Frame)
  /\ overflow_tx \in BOOLEAN /\ queue_stopped \in BOOLEAN
  /\ stopped \in BOOLEAN /\ fw_error \in BOOLEAN
  /\ timer \in BOOLEAN /\ frozen \in BOOLEAN
  /\ tx_request \in 0..2 /\ arrived \in 0..MaxFrames
  /\ itxq \in Seq(Skb) /\ mpdus \in [Procs -> Seq(Frames)]
  /\ pc \in [Procs -> Labels] /\ waiter \in Waiter
  /\ \A p \in Procs : pc[p] = "send" => mpdus[p] # <<>>
  /\ reclaimed \subseteq 0..MaxFrames
  /\ freed \subseteq Frames /\ leaked \subseteq 0..MaxFrames
  /\ events \in 0..MaxEvents

\* So has every variable of suspend and resume, and outside of them mac80211's
\* queue is not marked as stopped: a wake-up misses no mark.
PmTypeOK ==
  /\ system_pm_mode \in {"DISABLED", "D3"} /\ missed \in BOOLEAN
  /\ host \in {"awake", "stopping", "quiet", "suspending", "asleep",
               "resuming", "waking"}
  /\ netif_stop \in BOOLEAN /\ (netif_stop => TxqsStopped)

\* One caller of iwl_mvm_mac_itxq_xmit transmits at a time, so the frames of
\* a TID leave mac80211's queue in order.
OneTransmitter ==
  \A p, q \in Procs : Transmitting(p) /\ Transmitting(q) => p = q

\* No frame is lost track of or held twice: each one mac80211 queued is in
\* its queue, with the transmitter, on the ring, on the overflow queue or the
\* list the reclaim took it to, was given back, or was dropped.
FramesConserved ==
  /\ WithMac80211 \cup WithOpMode \cup InTransport \cup reclaimed
       \cup freed \cup leaked = 1..arrived
  /\ Cardinality(WithMac80211) + Cardinality(WithOpMode) + Used
       + Len(overflow_q) + Len(flush) + Cardinality(reclaimed)
       + Cardinality(freed) + Cardinality(leaked) = arrived

\* A stop is never lost: when the op-mode's queue is stopped the transport
\* knows it, or is about to restart it; and a queue the transport has stopped
\* holds frames enough that a later reclaim restarts it.
NoLostStop ==
  /\ stopped => queue_stopped \/ pc[Rx] = "woken"
  /\ queue_stopped /\ pc[Rx] \notin {"flush", "wake"}
       => iwl_queue_space <= LowMark

\* The watchdog covers every frame on the ring unless the station sleeps.
WatchdogArmed == Used > 0 /\ ~frozen /\ ~fw_error => timer

\* When the wait for an empty queue ends well and in time, every frame the
\* transport was handed before it is off the queue, those in the overflow
\* queue included.
FlushComplete ==
  waiter.pc = "empty" =>
    1..waiter.owed \subseteq reclaimed \cup freed \cup leaked

\* The wait for an empty queue complains that the write pointer moved only
\* when the op-mode has transmitted since the wait began, not when the frames
\* came from the overflow queue.
WarnsOnlyOpMode == waiter.pc = "warned" => Handed > waiter.owed

\* In an aggregation queue the position in the ring is the sequence number.
SeqIsPosition ==
  \A k \in 0..(Used - 1) :
    LET i == (read_ptr + k) % QueueSize IN entries[i].seq = i

\* No transmission is left hanging: frames do not stay in mac80211's queue,
\* on the overflow queue or on the ring for ever while the firmware works,
\* unless the device sleeps, or they were queued while the system was going
\* to D3, was there or failed to get there, and no transmission followed.
NoTxHanging ==
  []<>(\/ fw_error \/ host = "asleep" \/ missed
       \/ reclaimed \cup freed \cup leaked = 1..arrived)

\* The same for every frame: what mac80211.c:922-925 wants of tx_request,
\* "not leave any TX hanging in the queue until the next TX invocation
\* (which may not even happen)".
NoTxLeftByD3 ==
  []<>(\/ fw_error \/ host = "asleep"
       \/ reclaimed \cup freed \cup leaked = 1..arrived)

=============================================================================
