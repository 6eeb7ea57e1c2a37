--------------------------- MODULE ReorderBuffer ----------------------------
(***************************************************************************)
(* A receive block-ack session on a device with several RX queues          *)
(* (mvm/rxmq.c, mvm/sta.c, mvm/mac80211.c).  The firmware spreads the      *)
(* MPDUs of the session over the queues; every queue has a reorder buffer  *)
(* of its own, a reorder timer, and a NAPI context that takes messages     *)
(* from the queue in order.  Queues tell each other how far they are with  *)
(* asynchronous NSSN messages that go through the firmware; a thread that  *)
(* deletes the session does so with a synchronous message and waits until  *)
(* every queue has handled it.                                             *)
(*                                                                         *)
(* Contexts: the firmware, NAPI and the reorder timer of each queue, and   *)
(* the thread that starts and stops the session under mvm->mutex.          *)
(***************************************************************************)
EXTENDS ReorderAlg, Integers, FiniteSets

CONSTANTS
  Queues,      \* the RX queues of the device
  FirstId,     \* number of the first frame of the session, unwrapped
  LastId,      \* bound: number of the last frame
  Amsdu,       \* the frames that are A-MSDUs of two subframes
  Steerings,   \* the ways RSS may spread the subframes over the queues
  Gp2s,        \* time stamps of A-MPDUs told apart by the old-SN counter
  MaxJumps,    \* bound: frames beyond the window
  MaxStep,     \* bound: how far such a frame moves the NSSN
  MaxRetry,    \* bound: retransmissions of frames of the window
  MaxOlds,     \* bound: frames sent after the window has passed them
  MaxFaults,   \* bound: trigger commands that fail, waits that time out and
               \* kills of the radio, together
  MaxSessions, \* bound: sessions started
  MaxStops     \* bound: sessions deleted

Ids == FirstId..LastId
Subs(id) == IF id \in Amsdu THEN {0, 1} ELSE {0}
Subframes == UNION {{<<id, sub>> : sub \in Subs(id)} : id \in Ids}

ASSUME ReorderBufferAssumption ==
  /\ IsFiniteSet(Queues) /\ Queues # {}
  /\ FirstId \in Nat /\ LastId \in Nat /\ FirstId <= LastId /\ Amsdu \subseteq Ids
  /\ Steerings \subseteq [Subframes -> Queues]
  /\ MaxJumps \in Nat /\ MaxStep \in Nat
  /\ MaxRetry \in Nat /\ MaxOlds \in Nat
  /\ MaxFaults \in Nat /\ MaxSessions \in Nat \ {0} /\ MaxStops \in Nat

VARIABLES
  buf,      \* baid_data->reorder_buf and its entries, per queue
  handler,  \* per queue: a timer handler has started and awaits buf->lock
  dup,      \* per queue: dup_data of the station, <<last_seq, last_sub_frame>>
  mapped,   \* mvm->baid_map[baid] is set
  pc,       \* the thread that starts and stops the session
  counter,  \* mvm->queue_sync_counter
  cookie,   \* mvm->queue_sync_cookie
  ssn,      \* the start of the session being set up
  purge,    \* queues iwl_mvm_free_reorder has still to visit
  cmds,     \* trigger commands on their way to the firmware
  rxq,      \* messages of each RX queue NAPI has not handled yet
  fwOn,     \* the firmware runs the block-ack agreement
  fwNssn,   \* the firmware's next expected frame, unwrapped
  rcvd,     \* frames the firmware has received
  killed,   \* iwl_mvm_is_radio_killed: by the switch or for the temperature
  steer,    \* RSS: the queue each subframe hashes to
  budget,   \* what has been used of each bound
  up,       \* history: frames iwl_mvm_reorder let through, per queue
  lost,     \* history: first receptions the driver dropped
  timedOut, \* history: some reorder timer has released frames
  spoilt    \* history: an asynchronous message cleared the counter of the
            \* deletion in progress, or the radio was killed meanwhile

bufVars == <<buf, handler, dup>>
syncVars == <<counter, cookie, cmds>>
ctlVars == <<mapped, pc, purge, ssn>>
fwVars == <<fwOn, fwNssn, rcvd>>
envVars == <<killed, steer>>
histVars == <<up, lost, timedOut, spoilt>>
vars == <<bufVars, syncVars, ctlVars, fwVars, rxq, envVars, budget, histVars>>

Key(f) == <<f.id, f.sub>>

Init ==
  /\ buf = [q \in Queues |-> InitBuffer(0)]
  /\ handler = [q \in Queues |-> FALSE]
  /\ dup = [q \in Queues |-> <<SnMod, 0>>]
  /\ mapped = FALSE /\ pc = "idle" /\ purge = {} /\ ssn = 0
  /\ counter = 0 /\ cookie = 0 /\ cmds = <<>>
  /\ rxq = [q \in Queues |-> <<>>]
  /\ fwOn = FALSE /\ fwNssn = FirstId /\ rcvd = {}
  /\ killed = FALSE /\ steer \in Steerings
  /\ budget = [retries |-> 0, olds |-> 0, jumps |-> 0, faults |-> 0, kills |-> 0,
               sessions |-> 0, stops |-> 0]
  /\ up = [q \in Queues |-> <<>>] /\ lost = {}
  /\ timedOut = FALSE /\ spoilt = FALSE

------------------------------------------------------------------------------
(* The firmware. *)

(* The next expected frame after the frames in R, from n on. *)
NextMissing(R, n) ==
  CHOOSE m \in n..LastId+1 : m \notin R /\ \A k \in n..m-1 : k \in R

(* The NSSN becomes nssn with the frames in R received.  Queues in told    *)
(* learn it otherwise.  Every other queue that was given a frame at or     *)
(* beyond the old NSSN gets a frame release notification when it moves;    *)
(* so does a queue in split, which has a part of an A-MSDU whose last      *)
(* subframe went elsewhere (rxmq.c:1043: "we will get frame release        *)
(* notification with up to date NSSN").                                    *)
Releases(R, nssn, told, split) ==
  [q \in Queues |->
     IF /\ q \notin told
        /\ \/ q \in split
           \/ /\ nssn # fwNssn
              /\ \E s \in Subframes : steer[s] = q /\ s[1] \in R /\ fwNssn <= s[1]
     THEN <<[type |-> "release", nssn |-> nssn % SnMod]>> ELSE <<>>]

(* The k-th smallest number of a set. *)
Nth(S, k) == CHOOSE x \in S : Cardinality({y \in S : y <= x}) = k

(* An MPDU has been received: its subframes go to the queues they hash to, *)
(* each with the NSSN that counts it in.                                   *)
Deliver(id, nssn, old, retry) ==
  \E gp2 \in Gp2s :
    LET frame(sub) == [type |-> "frame", id |-> id, sub |-> sub,
                       amsdu |-> id \in Amsdu, last |-> sub + 1 \notin Subs(id),
                       nssn |-> nssn % SnMod, old |-> old, gp2 |-> gp2,
                       retry |-> retry]
        parts(q) == {sub \in Subs(id) : steer[<<id, sub>>] = q}
        whole == {q \in Queues : \E sub \in parts(q) : WholeMpdu(frame(sub))}
        split == {q \in Queues : parts(q) # {}}
        release == Releases(rcvd \union {id}, nssn, whole, split)
    IN  /\ rxq' = [q \in Queues |->
                     rxq[q] \o [k \in 1..Cardinality(parts(q)) |->
                                  frame(Nth(parts(q), k))]
                            \o release[q]]
        /\ rcvd' = rcvd \union {id}
        /\ fwNssn' = nssn

(* A frame of the window.  Before the peer has seen the ADDBA response it  *)
(* sends one frame at a time.                                              *)
Air(id) ==
  /\ fwOn /\ id \notin rcvd
  /\ id >= fwNssn /\ id < fwNssn + BufSize
  /\ ~mapped => id = fwNssn
  /\ Deliver(id, NextMissing(rcvd \union {id}, fwNssn), FALSE, FALSE)
  /\ UNCHANGED <<bufVars, syncVars, ctlVars, fwOn, envVars, budget, histVars>>

(* A frame beyond the window: the peer has given up on an earlier one, and *)
(* the window moves so that this frame is its last.                        *)
AirBeyond(id) ==
  /\ fwOn /\ mapped /\ budget.jumps < MaxJumps
  /\ id = fwNssn + BufSize
  /\ budget' = [budget EXCEPT !.jumps = @ + 1]
  /\ LET nssn == NextMissing(rcvd \union {id}, fwNssn + 1)
     IN  nssn <= fwNssn + MaxStep /\ Deliver(id, nssn, FALSE, FALSE)
  /\ UNCHANGED <<bufVars, syncVars, ctlVars, fwOn, envVars, histVars>>

(* The peer gives up on a frame with a block-ack request, which one queue  *)
(* hears of in a BAR frame release notification.                           *)
Bar(q) ==
  /\ fwOn /\ mapped /\ fwNssn < LastId /\ rcvd \cap (fwNssn..LastId) # {}
  /\ LET nssn == NextMissing(rcvd, fwNssn + 1)
         release == Releases(rcvd, nssn, {q}, {})
     IN  /\ fwNssn' = nssn
         /\ rxq' = [p \in Queues |->
                      IF p = q
                      THEN Append(rxq[p], [type |-> "release", nssn |-> nssn % SnMod])
                      ELSE rxq[p] \o release[p]]
  /\ UNCHANGED <<bufVars, syncVars, ctlVars, fwOn, rcvd, envVars, budget, histVars>>

(* A frame of the window is sent again although it was received: its ack   *)
(* was lost.                                                               *)
AirAgain(id) ==
  /\ fwOn /\ mapped /\ budget.retries < MaxRetry
  /\ id \in rcvd /\ id >= fwNssn
  /\ budget' = [budget EXCEPT !.retries = @ + 1]
  /\ Deliver(id, fwNssn, FALSE, TRUE)
  /\ UNCHANGED <<bufVars, syncVars, ctlVars, fwOn, envVars, histVars>>

(* A frame is sent, again or late, after the window has passed it: the     *)
(* firmware marks it as one with an old sequence number.                   *)
AirOld(id) ==
  /\ fwOn /\ mapped /\ budget.olds < MaxOlds
  /\ id < fwNssn
  /\ budget' = [budget EXCEPT !.olds = @ + 1]
  /\ Deliver(id, fwNssn, TRUE, TRUE)
  /\ UNCHANGED <<bufVars, syncVars, ctlVars, fwOn, envVars, histVars>>

(* The firmware executes a trigger command: a message on every queue. *)
Trigger ==
  /\ cmds # <<>>
  /\ cmds' = Tail(cmds)
  /\ rxq' = [q \in Queues |-> Append(rxq[q], Head(cmds))]
  /\ UNCHANGED <<bufVars, counter, cookie, ctlVars, fwVars, envVars, budget, histVars>>

------------------------------------------------------------------------------
(* NAPI of a queue and the reorder timers. *)

(* What a handler of queue q leaves behind: the buffer, the frames passed  *)
(* up, and one asynchronous trigger command per sync point crossed.        *)
(* iwl_mvm_sync_rx_queues_internal clears queue_sync_counter whether or    *)
(* not the message is synchronous.                                         *)
Apply(q, r) ==
  /\ buf' = [buf EXCEPT ![q] = r.buf]
  /\ up' = [up EXCEPT ![q] = @ \o [k \in 1..Len(r.up) |-> Key(r.up[k])]]
  /\ cmds' = cmds \o [k \in 1..Len(r.sync) |-> [type |-> "sync", nssn |-> r.sync[k]]]
  /\ counter' = IF r.sync = <<>> THEN counter ELSE 0
  /\ spoilt' = (spoilt \/ (r.sync # <<>> /\ pc \in {"notify", "wait"}))

Quiet(q) == [buf |-> buf[q], up |-> <<>>, sync |-> <<>>]

Receive(q, type) ==
  /\ rxq[q] # <<>> /\ Head(rxq[q]).type = type
  /\ rxq' = [rxq EXCEPT ![q] = Tail(@)]

(* iwl_mvm_rx_mpdu_mq, as far as duplicate detection and reordering go.    *)
(* Without a session the frame goes to mac80211 past the buffer (up holds  *)
(* what the buffer lets through).                                          *)
RxFrame(q) ==
  /\ Receive(q, "frame")
  /\ LET f == Head(rxq[q])
         r == IF IsDup(dup[q], f) THEN Quiet(q)
              ELSE IF mapped THEN Reorder(buf[q], f)
              ELSE Quiet(q)
     IN  /\ dup' = [dup EXCEPT ![q] = IF IsDup(@, f) THEN @ ELSE <<SnOf(f), f.sub>>]
         /\ Apply(q, r)
         /\ lost' = IF mapped /\ ~f.retry /\ Drops(buf[q], f)
                    THEN lost \union {Key(f)} ELSE lost
  /\ UNCHANGED <<handler, cookie, ctlVars, fwVars, envVars, budget, timedOut>>

(* iwl_mvm_rx_frame_release and iwl_mvm_rx_bar_frame_release. *)
RxRelease(q) ==
  /\ Receive(q, "release")
  /\ Apply(q, IF mapped THEN ReleaseFrames(buf[q], Head(rxq[q]).nssn, {}) ELSE Quiet(q))
  /\ UNCHANGED <<handler, dup, cookie, ctlVars, fwVars, envVars, budget, lost, timedOut>>

(* iwl_mvm_rx_queue_notif for IWL_MVM_RXQ_NSSN_SYNC. *)
RxNssnSync(q) ==
  /\ Receive(q, "sync")
  /\ Apply(q, IF mapped THEN ReleaseFrames(buf[q], Head(rxq[q]).nssn, {"from"})
                        ELSE Quiet(q))
  /\ UNCHANGED <<handler, dup, cookie, ctlVars, fwVars, envVars, budget, lost, timedOut>>

\* Mutant of Expired: the cookie is not compared.
NeverExpired(m) == FALSE

Expired(m) == m.cookie # cookie

(* iwl_mvm_rx_queue_notif for IWL_MVM_RXQ_NOTIF_DEL_BA: an expired cookie  *)
(* is refused; otherwise everything is released, del_timer_sync waits for  *)
(* a handler that finds nothing stored, and the counter goes down.         *)
RxDelBa(q) ==
  /\ Receive(q, "delba")
  /\ IF Expired(Head(rxq[q]))
     THEN UNCHANGED <<buf, handler, up, cmds, counter>>
     ELSE /\ LET r == IF mapped
                      THEN ReleaseFrames(buf[q], SnAdd(buf[q].head, BufSize), {})
                      ELSE Quiet(q)
             IN  /\ buf' = [buf EXCEPT ![q] = [r.buf EXCEPT !.timer = "off"]]
                 /\ up' = [up EXCEPT ![q] = @ \o [k \in 1..Len(r.up) |-> Key(r.up[k])]]
          /\ handler' = [handler EXCEPT ![q] = FALSE]
          /\ counter' = counter - 1
          /\ cmds' = cmds
  /\ UNCHANGED <<dup, cookie, ctlVars, fwVars, envVars, budget, lost, timedOut, spoilt>>

(* RX_REORDER_BUF_TIMEOUT_MQ goes by. *)
TimePasses ==
  /\ \E q \in Queues : buf[q].timer = "on"
  /\ buf' = [q \in Queues |->
               [buf[q] EXCEPT
                  !.aged = [i \in Indices |-> buf[q].entries[i] # <<>>],
                  !.timer = IF @ = "on" THEN "due" ELSE @]]
  /\ UNCHANGED <<handler, dup, syncVars, ctlVars, fwVars, rxq, envVars, budget, histVars>>

TimerFires(q) ==
  /\ buf[q].timer = "due" /\ ~handler[q]
  /\ buf' = [buf EXCEPT ![q].timer = "off"]
  /\ handler' = [handler EXCEPT ![q] = TRUE]
  /\ UNCHANGED <<dup, syncVars, ctlVars, fwVars, rxq, envVars, budget, histVars>>

TimerHandler(q) ==
  /\ handler[q]
  /\ handler' = [handler EXCEPT ![q] = FALSE]
  /\ Apply(q, TimerExpired(buf[q]))
  /\ timedOut' = (timedOut \/ TimerExpired(buf[q]).buf.head # buf[q].head)
  /\ UNCHANGED <<dup, cookie, ctlVars, fwVars, rxq, envVars, budget, lost>>

------------------------------------------------------------------------------
(* iwl_mvm_sta_rx_agg, in the thread that holds mvm->mutex. *)

(* ADD_STA with STA_MODIFY_ADD_BA_TID has succeeded: the firmware counts   *)
(* from the starting sequence number of the ADDBA request.                 *)
StartFirmware ==
  /\ pc = "idle" /\ ~mapped /\ ~fwOn /\ budget.sessions < MaxSessions
  /\ pc' = "starting" /\ fwOn' = TRUE
  /\ fwNssn' = NextMissing(FirstId..Max(rcvd \union {FirstId - 1}), fwNssn)
  /\ ssn' = fwNssn' % SnMod
  /\ budget' = [budget EXCEPT !.sessions = @ + 1]
  /\ UNCHANGED <<bufVars, syncVars, mapped, purge, rcvd, rxq, envVars, histVars>>

(* iwl_mvm_init_reorder_buffer, then baid_map[baid] is set. *)
StartMap ==
  /\ pc = "starting"
  /\ pc' = "idle" /\ mapped' = TRUE
  /\ buf' = [q \in Queues |-> InitBuffer(ssn)]
  /\ handler' = [q \in Queues |-> FALSE]
  /\ UNCHANGED <<dup, syncVars, purge, ssn, fwVars, rxq, envVars, budget, histVars>>

(* ADD_STA with STA_MODIFY_REMOVE_BA_TID has succeeded, or was refused     *)
(* because of RFKILL, which iwl_mvm_send_cmd_status takes for success;     *)
(* iwl_mvm_sync_rx_queues_internal sets its counter.                       *)
StopFirmware ==
  /\ pc = "idle" /\ mapped /\ budget.stops < MaxStops
  /\ pc' = "notify"
  /\ \/ fwOn' = FALSE
     \/ killed /\ UNCHANGED fwOn
  /\ counter' = Cardinality(Queues)
  /\ spoilt' = killed
  /\ budget' = [budget EXCEPT !.stops = @ + 1]
  /\ UNCHANGED <<bufVars, cookie, cmds, mapped, purge, ssn, fwNssn, rcvd, rxq,
                 envVars, up, lost, timedOut>>

(* The synchronous trigger command goes out, or is refused because of      *)
(* RFKILL, which iwl_mvm_send_cmd hides, ...                               *)
SyncNotify ==
  /\ pc = "notify"
  /\ pc' = "wait"
  /\ \/ cmds' = Append(cmds, [type |-> "delba", cookie |-> cookie])
     \/ killed /\ UNCHANGED cmds
  /\ UNCHANGED <<bufVars, counter, cookie, mapped, purge, ssn, fwVars, rxq, envVars,
                 budget, histVars>>

EndSync ==
  /\ pc' = "free" /\ purge' = Queues
  /\ counter' = 0 /\ cookie' = cookie + 1
  /\ UNCHANGED <<bufVars, cmds, mapped, ssn, fwVars, rxq, envVars, histVars>>

(* ... or cannot be sent. *)
SyncNotifyFails ==
  /\ pc = "notify" /\ budget.faults + budget.kills < MaxFaults
  /\ budget' = [budget EXCEPT !.faults = @ + 1]
  /\ EndSync

\* Mutant of SyncDone: the first queue that answers ends the wait.
SyncDoneEarly ==
  /\ pc = "wait" /\ (counter < Cardinality(Queues) \/ killed)
  /\ EndSync /\ UNCHANGED budget

(* wait_event_timeout sees the counter at 0, or the radio killed. *)
SyncDone ==
  /\ pc = "wait" /\ (counter = 0 \/ killed)
  /\ EndSync /\ UNCHANGED budget

(* The wait times out: because a queue is too slow, or because every queue *)
(* has answered and the counter never was 0 when the waiter looked.        *)
DelBa(m) == m.type = "delba" /\ m.cookie = cookie
DelBaPending ==
  \E m \in Range(cmds) \union UNION {Range(rxq[q]) : q \in Queues} : DelBa(m)

\* Mutant of SyncTimeout: wait_event without a timeout.
SyncTimeoutNever == FALSE /\ UNCHANGED vars

SyncTimeout ==
  /\ pc = "wait" /\ counter # 0
  /\ IF DelBaPending
     THEN /\ budget.faults + budget.kills < MaxFaults
          /\ budget' = [budget EXCEPT !.faults = @ + 1]
     ELSE UNCHANGED budget
  /\ EndSync

(* One round of the loop of iwl_mvm_free_reorder.  num_stored keeps its    *)
(* value when the frames are purged, and only then is the buffer marked    *)
(* removed.                                                                *)
FreeReorder(q) ==
  /\ pc = "free" /\ q \in purge
  /\ purge' = purge \ {q}
  /\ IF buf[q].num = 0
     THEN UNCHANGED <<buf, handler>>
     ELSE /\ buf' = [buf EXCEPT ![q].entries = EmptyEntries,
                                ![q].removed = TRUE,
                                ![q].timer = "off"]
          /\ handler' = [handler EXCEPT ![q] = FALSE]
  /\ UNCHANGED <<dup, syncVars, mapped, pc, ssn, fwVars, rxq, envVars, budget, histVars>>

(* baid_map[baid] is cleared and the session given to kfree_rcu. *)
StopUnmap ==
  /\ pc = "free" /\ purge = {}
  /\ pc' = "idle" /\ mapped' = FALSE
  /\ UNCHANGED <<bufVars, syncVars, purge, ssn, fwVars, rxq, envVars, budget, histVars>>

(* iwl_mvm_set_rfkill_state: the radio switch or the temperature. *)
RadioKill ==
  /\ ~killed /\ budget.faults + budget.kills < MaxFaults
  /\ killed' = TRUE
  /\ budget' = [budget EXCEPT !.kills = @ + 1]
  /\ spoilt' = (spoilt \/ pc \in {"notify", "wait"})
  /\ UNCHANGED <<bufVars, syncVars, ctlVars, fwVars, rxq, steer, up, lost, timedOut>>

RadioBack ==
  /\ killed /\ killed' = FALSE
  /\ UNCHANGED <<bufVars, syncVars, ctlVars, fwVars, rxq, steer, budget, histVars>>

------------------------------------------------------------------------------
Rx(q) == RxFrame(q) \/ RxRelease(q) \/ RxNssnSync(q) \/ RxDelBa(q)
Timer(q) == TimerFires(q) \/ TimerHandler(q)
SyncEnd == SyncNotify \/ SyncNotifyFails \/ SyncDone \/ SyncTimeout
Stop == SyncEnd \/ (\E q \in Queues : FreeReorder(q)) \/ StopUnmap

Next ==
  \/ \E id \in Ids : Air(id) \/ AirBeyond(id) \/ AirAgain(id) \/ AirOld(id)
  \/ \E q \in Queues : Bar(q) \/ Rx(q) \/ Timer(q)
  \/ Trigger
  \/ TimePasses
  \/ StartFirmware \/ StartMap \/ StopFirmware \/ Stop
  \/ RadioKill \/ RadioBack

Spec == Init /\ [][Next]_vars

(* NAPI takes the messages of its queue, a timer that is due fires and its *)
(* handler runs, the firmware executes its commands, time passes, and the  *)
(* thread that starts or stops a session goes on.  The first three are     *)
(* stated of the step's effect on the queue or the handler alone.          *)
TakesMessage(q) == rxq[q] # <<>> /\ rxq' = [rxq EXCEPT ![q] = Tail(@)]
StartsHandler(q) ==
  buf[q].timer = "due" /\ ~handler[q] /\ handler' = [handler EXCEPT ![q] = TRUE]
EndsHandler(q) == handler[q] /\ handler' = [handler EXCEPT ![q] = FALSE]

FairSpec ==
  /\ Spec
  /\ \A q \in Queues : /\ WF_rxq(TakesMessage(q))
                        /\ WF_handler(StartsHandler(q))
                        /\ WF_handler(EndsHandler(q))
  /\ WF_vars(Trigger) /\ WF_vars(TimePasses) /\ WF_vars(StartMap) /\ WF_vars(Stop)

------------------------------------------------------------------------------
Live(q) == mapped /\ ~buf[q].removed

(* num_stored counts the frames of the entries, whatever releases and the  *)
(* timer do (rxmq.c:582, 1027): the window logic trusts it for emptiness.  *)
NumStored ==
  \A q \in Queues : Live(q) => buf[q].num = Cardinality(Places(buf[q].entries, Indices))

(* No deletion has begun, no frame came after the window had passed it,    *)
(* and no frame was dropped at its first reception: each of the last two   *)
(* can leave head_sn of a queue more than a window behind the NSSN, and    *)
(* the loop of iwl_mvm_release_frames releases nothing then.               *)
Undisturbed == budget.stops = 0 /\ budget.olds = 0 /\ lost = {}

(* What a buffer holds is counted in num_stored, each frame is in the      *)
(* entry of its own sequence number and, while the session is undisturbed, *)
(* lies in the window that starts at head_sn.                              *)
Accounting ==
  /\ NumStored
  /\ \A q \in Queues : Live(q) =>
       /\ buf[q].head \in Sns
       /\ \A i \in Indices : \A k \in 1..Len(buf[q].entries[i]) :
            LET f == buf[q].entries[i][k]
            IN  /\ SnOf(f) % BufSize = i
                /\ Undisturbed => SnSub(SnOf(f), buf[q].head) < BufSize

Before(a, b) == a[1] < b[1] \/ (a[1] = b[1] /\ a[2] < b[2])

(* The frames a buffer lets through to mac80211 are in the order of the    *)
(* originator and none is let through twice.                               *)
OrderKept ==
  \A q \in Queues : \A k \in 1..Len(up[q])-1 : Before(up[q][k], up[q][k + 1])

(* While the session is undisturbed the order is kept, across lost frames, *)
(* block-ack requests, frames beyond the window, frames sent again,        *)
(* A-MSDUs split over queues and NSSN messages.  (Once a reorder timer has *)
(* given up on a frame, the parts of an A-MSDU that is sent again can be   *)
(* let through twice.)                                                     *)
InOrder == Undisturbed /\ (timedOut => budget.retries = 0) => OrderKept

(* A frame received for the first time is never dropped, unless a reorder  *)
(* timer has given up on it (or a frame with an old sequence number or a   *)
(* deletion has disturbed the session).                                    *)
FreshKept == lost # {} => timedOut \/ budget.olds > 0 \/ budget.stops > 0

(* iwl_mvm_free_reorder finds every buffer empty: the frames were released *)
(* by the messages the thread waited for.                                  *)
CleanDelete ==
  (pc = "free" /\ budget.faults = 0) => \A q \in purge : buf[q].num = 0

(* The same, when no asynchronous message cleared queue_sync_counter and   *)
(* the radio was not killed while the deletion was waiting for the queues  *)
(* (a radio kill ends the wait, and RFKILL keeps the message back); and    *)
(* then no timer of the session is left pending, and no handler running,   *)
(* when it is given to kfree_rcu.                                          *)
DeleteSynchronised ==
  (budget.faults = 0 /\ ~spoilt) =>
    /\ pc = "free" => \A q \in Queues : buf[q].num = 0
    /\ pc = "idle" /\ ~mapped =>
         \A q \in Queues : buf[q].timer = "off" /\ ~handler[q]

(* A delayed DEL_BA message of an earlier deletion takes nothing from the  *)
(* counter of a later one: while nothing clears it, and the radio is not   *)
(* killed, the counter is the number of queues the current message has     *)
(* still to reach.                                                         *)
CounterExact ==
  (pc \in {"notify", "wait"} /\ ~spoilt) =>
    counter = IF pc = "notify" \/ \E m \in Range(cmds) : DelBa(m)
              THEN Cardinality(Queues)
              ELSE Cardinality({q \in Queues : \E m \in Range(rxq[q]) : DelBa(m)})

(* head_sn never moves back while an undisturbed session lasts. *)
HeadForward ==
  [][Undisturbed' => \A q \in Queues : (mapped /\ mapped') =>
       ~SnLess(buf'[q].head, buf[q].head)]_vars

(* Frames do not stay in the buffer of a session for ever: they are passed *)
(* up or purged, or the session is deleted.                                *)
StoredLeaves ==
  \A q \in Queues :
    (mapped /\ buf[q].num > 0) ~> (~mapped \/ buf[q].num = 0 \/ buf[q].removed)

(* A deletion comes to its end. *)
DeleteEnds == (pc = "notify") ~> (pc = "idle" /\ ~mapped)
==============================================================================
