---------------------------- MODULE TxQueueProof ----------------------------
(***************************************************************************)
(* Proofs about TxQueue for every ring size, set of threads, segmentation  *)
(* and bound on frames and events: one transmitter, no lost stop, the      *)
(* watchdog, the conservation of frames and the wait for an empty queue.   *)
(***************************************************************************)
EXTENDS TxQueue, FiniteSetTheorems, TLAPS

\* A process that transmits is counted in tx_request.
Counted == \A p \in Procs : Transmitting(p) => tx_request > 0

\* The invariant the theorems are proved with.
TxInv == TypeOK /\ OneTransmitter /\ Counted

-----------------------------------------------------------------------------
(* The ring.                                                               *)

\* Reduction modulo the ring size of the values the pointers go through.
LEMMA Modulo ==
  ASSUME NEW x \in Int
  PROVE  /\ x % QueueSize \in Positions
         /\ 0 <= x /\ x < QueueSize => x % QueueSize = x
         /\ QueueSize <= x /\ x < 2 * QueueSize
              => x % QueueSize = x - QueueSize
         /\ -QueueSize <= x /\ x < 0 => x % QueueSize = x + QueueSize
BY TxQueueAssumption DEF Positions

\* Stepping a pointer keeps it in the ring.
LEMMA IncRange ==
  ASSUME NEW i \in Positions
  PROVE  iwl_queue_inc_wrap(i) \in Positions
<1>1. i + 1 \in Int
  BY DEF Positions
<1> QED
  BY <1>1, Modulo DEF iwl_queue_inc_wrap

\* The number of used positions is less than the ring size.
LEMMA UsedRange ==
  ASSUME NEW r \in Positions, NEW w \in Positions
  PROVE  /\ UsedBetween(r, w) \in 0..(QueueSize - 1)
         /\ UsedBetween(r, w) = IF w >= r THEN w - r ELSE w - r + QueueSize
BY Modulo, TxQueueAssumption DEF UsedBetween, Positions

\* A frame put on a ring that has room is one more.
LEMMA UsedAfterPut ==
  ASSUME NEW r \in Positions, NEW w \in Positions,
         UsedBetween(r, w) < QueueSize - 1
  PROVE  /\ iwl_queue_inc_wrap(w) \in Positions
         /\ UsedBetween(r, iwl_queue_inc_wrap(w)) = UsedBetween(r, w) + 1
<1>1. w + 1 \in Int /\ w \in Int /\ r \in Int
  BY DEF Positions
<1>2. iwl_queue_inc_wrap(w) = IF w + 1 < QueueSize THEN w + 1 ELSE 0
  BY <1>1, Modulo, TxQueueAssumption DEF iwl_queue_inc_wrap, Positions
<1>3. iwl_queue_inc_wrap(w) \in Positions
  BY <1>2, TxQueueAssumption DEF Positions
<1>4. UsedBetween(r, w) = IF w >= r THEN w - r ELSE w - r + QueueSize
  BY UsedRange
<1>5. \A v \in Positions :
        UsedBetween(r, v) = IF v >= r THEN v - r ELSE v - r + QueueSize
  BY UsedRange
<1> QED
  BY <1>2, <1>3, <1>4, <1>5, TxQueueAssumption DEF Positions

\* Reclaiming n frames leaves n less.
LEMMA UsedAfterReclaim ==
  ASSUME NEW r \in Positions, NEW w \in Positions,
         NEW n \in 1..UsedBetween(r, w)
  PROVE  /\ (r + n) % QueueSize \in Positions
         /\ UsedBetween((r + n) % QueueSize, w) = UsedBetween(r, w) - n
<1>1. UsedBetween(r, w) \in 0..(QueueSize - 1)
      /\ UsedBetween(r, w) = IF w >= r THEN w - r ELSE w - r + QueueSize
  BY UsedRange
<1>2. n \in Int /\ r + n \in Int /\ 1 <= n /\ n <= QueueSize - 1
  BY <1>1, TxQueueAssumption DEF Positions
<1>3. (r + n) % QueueSize \in Positions
  BY <1>2, Modulo
<1>4. (r + n) % QueueSize = IF r + n < QueueSize THEN r + n
                            ELSE r + n - QueueSize
  BY <1>2, Modulo, TxQueueAssumption DEF Positions
<1>5. \A v \in Positions :
        UsedBetween(v, w) = IF w >= v THEN w - v ELSE w - v + QueueSize
  BY UsedRange
<1> QED
  BY <1>1, <1>2, <1>3, <1>4, <1>5, TxQueueAssumption DEF Positions

\* The stop mark is not above the restart mark, and leaves two positions.
LEMMA Marks == /\ LowMark \in Nat /\ HighMark \in Nat
               /\ 2 <= HighMark /\ HighMark <= LowMark
BY TxQueueAssumption DEF LowMark, HighMark

-----------------------------------------------------------------------------
(* Types.                                                                  *)

\* The initial state is well typed.
LEMMA InitInv == Init => TxInv
<1> SUFFICES ASSUME Init PROVE TxInv
  OBVIOUS
<1> USE DEF Init
<1>1. NoFrame \in Frame /\ Idle \in Waiter
  BY TxQueueAssumption DEF NoFrame, Frame, Idle, Waiter, Positions, None
<1>2. TypeOK
  <2>1. /\ read_ptr \in Positions /\ write_ptr \in Positions
        /\ seq_number \in Positions /\ entries \in [Positions -> Frame]
        /\ tx_request \in 0..2 /\ arrived \in 0..MaxFrames
        /\ events \in 0..MaxEvents
    BY <1>1, TxQueueAssumption
  <2>2. /\ overflow_q \in Seq(Frame) /\ flush \in Seq(Frame)
        /\ itxq \in Seq(Skb) /\ mpdus \in [Procs -> Seq(Frames)]
    OBVIOUS
  <2>3. /\ overflow_tx \in BOOLEAN /\ queue_stopped \in BOOLEAN
        /\ stopped \in BOOLEAN /\ fw_error \in BOOLEAN
        /\ timer \in BOOLEAN /\ frozen \in BOOLEAN
    BY Zenon
  <2>4. /\ pc \in [Procs -> Labels] /\ waiter \in Waiter
        /\ \A p \in Procs : pc[p] = "send" => mpdus[p] # <<>>
    BY <1>1 DEF Labels
  <2>5. /\ reclaimed \subseteq 0..MaxFrames
        /\ freed \subseteq Frames /\ leaked \subseteq 0..MaxFrames
    OBVIOUS
  <2> QED
    BY <2>1, <2>2, <2>3, <2>4, <2>5, Zenon DEF TypeOK
<1>3. \A p \in Procs : ~Transmitting(p)
  BY DEF Transmitting
<1> QED
  BY <1>2, <1>3 DEF TxInv, OneTransmitter, Counted

\* What a call of the transport's transmit function may change, and to what.
TxTypes ==
  /\ entries' \in [Positions -> Frame] /\ write_ptr' \in Positions
  /\ overflow_q' \in Seq(Frame)
  /\ queue_stopped' \in BOOLEAN /\ stopped' \in BOOLEAN
  /\ timer' \in BOOLEAN /\ frozen' = frozen /\ read_ptr' = read_ptr
  /\ events' \in 0..MaxEvents

\* It keeps the types, whatever becomes of the frame.
LEMMA TxKeepsTypes ==
  ASSUME TypeOK, NEW f \in Frame, Overflow(f) \/ OnRing(f) \/ TxError(f)
  PROVE  TxTypes
<1> USE DEF TypeOK, TxTypes, StopIfFull
<1>1. Full \in BOOLEAN
  BY DEF Full
<1>2. iwl_queue_inc_wrap(write_ptr) \in Positions
  BY IncRange
<1>3. CASE Overflow(f)
  BY <1>1, <1>3 DEF Overflow, ringVars, wdVars
<1>4. CASE OnRing(f)
  <2>1. timer' \in BOOLEAN /\ queue_stopped' \in BOOLEAN /\ stopped' \in BOOLEAN
    BY <1>1, <1>4 DEF OnRing
  <2>2. /\ entries' = [entries EXCEPT ![write_ptr] = f]
        /\ write_ptr' = iwl_queue_inc_wrap(write_ptr)
        /\ UNCHANGED <<read_ptr, overflow_q, frozen, events>>
    BY <1>4 DEF OnRing
  <2> QED
    BY <1>2, <2>1, <2>2
<1>5. CASE TxError(f)
  <2>1. /\ entries' \in [Positions -> Frame]
        /\ UNCHANGED <<read_ptr, write_ptr, overflow_q, timer, frozen>>
    BY <1>5 DEF TxError, wdVars
  <2>2. queue_stopped' \in BOOLEAN /\ stopped' \in BOOLEAN
    BY <1>1, <1>5 DEF TxError, stopVars
  <2>3. events' \in 0..MaxEvents
    BY <1>5, TxQueueAssumption DEF TxError, Event
  <2> QED
    BY <2>1, <2>2, <2>3
<1> QED
  BY <1>3, <1>4, <1>5

\* Of a non-empty sequence, what Head and Tail are.
LEMMA HeadTail ==
  ASSUME NEW S, NEW q \in Seq(S), q # <<>>
  PROVE  Head(q) \in S /\ Tail(q) \in Seq(S) /\ Len(q) \in Nat \ {0}
         /\ (Len(q) # 1 => Tail(q) # <<>>)
OBVIOUS

\* The number of frames handed to the transport is a number.
LEMMA HandedType == TypeOK => Handed \in Int
<1> SUFFICES ASSUME TypeOK PROVE Handed \in Int
  OBVIOUS
<1>1. WithMac80211 \cup WithOpMode \subseteq Frames
  <2>1. \A q \in Seq(Frames) : IdsIn(q) \subseteq Frames
    BY DEF IdsIn
  <2>2. \A i \in 1..Len(itxq) : itxq[i] \in Seq(Frames)
    BY DEF TypeOK, Skb
  <2>3. \A p \in Procs : mpdus[p] \in Seq(Frames)
    BY DEF TypeOK
  <2> QED
    BY <2>1, <2>2, <2>3 DEF WithMac80211, WithOpMode
<1>2. IsFiniteSet(Frames)
  BY FS_Interval, TxQueueAssumption DEF Frames
<1>3. Cardinality(WithMac80211 \cup WithOpMode) \in Nat
  BY <1>1, <1>2, FS_Subset, FS_CardinalityType
<1> QED
  BY <1>3 DEF Handed, TypeOK

-----------------------------------------------------------------------------
(* The invariant is kept by every step.                                    *)

\* Actions of the transmit loop.
LEMMA XmitInv ==
  ASSUME TxInv, NEW p \in Procs, Xmit(p)
  PROVE  TxInv'
<1> USE DEF TxInv, TypeOK, Goto
<1>c. Caller(p) \in {"idle", "relock"}
  BY DEF Caller
<1>1. CASE itxq_xmit_enter(p)
  <2>1. TypeOK'
    BY <1>1, <1>c DEF itxq_xmit_enter, Requested, First, Labels, ringVars,
       ovfVars, stopVars, wdVars, endVars
  <2>2. OneTransmitter' /\ Counted'
    BY <1>1, <1>c DEF itxq_xmit_enter, Requested, First, OneTransmitter,
       Counted, Transmitting
  <2> QED
    BY <2>1, <2>2
<1>2. CASE itxq_xmit_loop(p)
  <2>1. TypeOK'
    BY <1>2 DEF itxq_xmit_loop, Labels, ringVars, ovfVars, stopVars, wdVars,
       endVars, mvmVars
  <2>2. OneTransmitter' /\ Counted'
    BY <1>2 DEF itxq_xmit_loop, mvmVars, OneTransmitter, Counted, Transmitting
  <2> QED
    BY <2>1, <2>2
<1>3. CASE ieee80211_tx_dequeue(p)
  <2>1. itxq # <<>> => /\ Head(itxq) \in Seq(Frames) /\ Head(itxq) # <<>>
                       /\ Tail(itxq) \in Seq(Skb)
    BY HeadTail DEF Skb
  <2>2. TypeOK'
    BY <1>3, <2>1 DEF ieee80211_tx_dequeue, Labels, ringVars, ovfVars,
       stopVars, wdVars, endVars
  <2>3. OneTransmitter' /\ Counted'
    BY <1>3 DEF ieee80211_tx_dequeue, OneTransmitter, Counted, Transmitting
  <2> QED
    BY <2>2, <2>3
<1>4. CASE iwl_mvm_tx_mpdu(p)
  <2> DEFINE f == [id |-> Head(mpdus[p]), seq |-> seq_number]
  <2>1. mpdus[p] \in Seq(Frames) /\ mpdus[p] # <<>>
    BY <1>4 DEF iwl_mvm_tx_mpdu
  <2>2. f \in Frame
    BY <2>1, HeadTail, TxQueueAssumption DEF Frame, Frames
  <2>3. TxTypes
    BY <1>4, <2>2, TxKeepsTypes DEF iwl_mvm_tx_mpdu
  <2>4. iwl_queue_inc_wrap(seq_number) \in Positions
    BY IncRange
  <2>5. /\ seq_number' \in Positions
        /\ mpdus' \in [Procs -> Seq(Frames)] /\ pc' \in [Procs -> Labels]
        /\ \A q \in Procs : pc'[q] = "send" => mpdus'[q] # <<>>
    BY <1>4, <2>1, <2>4, HeadTail DEF iwl_mvm_tx_mpdu, Labels
  <2>6. TypeOK'
    BY <1>4, <2>3, <2>5 DEF iwl_mvm_tx_mpdu, TxTypes, endVars
  <2>7. OneTransmitter' /\ Counted'
    BY <1>4 DEF iwl_mvm_tx_mpdu, OneTransmitter, Counted, Transmitting
  <2> QED
    BY <2>6, <2>7
<1>5. CASE iwl_mvm_tx_skb_drop(p)
  <2> DEFINE f == [id |-> Head(mpdus[p]), seq |-> seq_number]
  <2>1. mpdus[p] \in Seq(Frames) /\ mpdus[p] # <<>>
    BY <1>5 DEF iwl_mvm_tx_skb_drop
  <2>2. f \in Frame
    BY <2>1, HeadTail, TxQueueAssumption DEF Frame, Frames
  <2>3. TxTypes
    BY <1>5, <2>2, TxKeepsTypes DEF iwl_mvm_tx_skb_drop
  <2>4. /\ mpdus' \in [Procs -> Seq(Frames)] /\ pc' \in [Procs -> Labels]
        /\ \A q \in Procs : pc'[q] = "send" => mpdus'[q] # <<>>
    BY <1>5, <2>1 DEF iwl_mvm_tx_skb_drop, Labels
  <2>5. freed' \subseteq Frames /\ leaked' \subseteq 0..MaxFrames
    <3>1. Head(mpdus[p]) \in Frames
      BY <2>1, HeadTail
    <3>2. \A i \in 2..Len(mpdus[p]) : mpdus[p][i] \in Frames
      BY <2>1
    <3>3. /\ leaked' = leaked \cup {Head(mpdus[p])}
          /\ freed' = freed \cup {mpdus[p][i] : i \in 2..Len(mpdus[p])}
      BY <1>5 DEF iwl_mvm_tx_skb_drop
    <3>4. Frames \subseteq 0..MaxFrames
      BY TxQueueAssumption DEF Frames
    <3> QED
      BY <3>1, <3>2, <3>3, <3>4
  <2>6. TypeOK'
    BY <1>5, <2>3, <2>4, <2>5 DEF iwl_mvm_tx_skb_drop, TxTypes
  <2>7. OneTransmitter' /\ Counted'
    BY <1>5 DEF iwl_mvm_tx_skb_drop, OneTransmitter, Counted, Transmitting
  <2> QED
    BY <2>6, <2>7
<1>6. CASE itxq_xmit_leave(p)
  <2>1. tx_request > 0
    BY <1>6 DEF itxq_xmit_leave, Counted, Transmitting
  <2>2. TypeOK'
    BY <1>6, <1>c, <2>1 DEF itxq_xmit_leave, Labels, ringVars, ovfVars,
       stopVars, wdVars, endVars
  <2>3. OneTransmitter' /\ Counted'
    BY <1>6, <1>c, <2>1 DEF itxq_xmit_leave, OneTransmitter, Counted,
       Transmitting
  <2> QED
    BY <2>2, <2>3
<1> QED
  BY <1>1, <1>2, <1>3, <1>4, <1>5, <1>6 DEF Xmit

\* mac80211 queues an skb.
LEMMA QueueInv ==
  ASSUME TxInv, NEW p \in Threads, NEW n \in Bursts, Queue(p, n)
  PROVE  TxInv'
<1> USE DEF TxInv, TypeOK, Goto
<1>1. p \in Procs /\ n \in Nat \ {0}
  BY TxQueueAssumption DEF Procs
<1>2. arrived + n \in 0..MaxFrames
  BY <1>1, TxQueueAssumption DEF Queue
<1>3. [i \in 1..n |-> arrived + i] \in Skb
  <2>1. \A i \in 1..n : arrived + i \in Frames
    BY <1>1, <1>2, TxQueueAssumption DEF Frames
  <2>2. [i \in 1..n |-> arrived + i] \in Seq(Frames)
    BY <1>1, <2>1
  <2>3. [i \in 1..n |-> arrived + i] # <<>>
    <3>1. 1 \in DOMAIN [i \in 1..n |-> arrived + i]
      BY <1>1
    <3> QED
      BY <3>1
  <2> QED
    BY <2>2, <2>3 DEF Skb
<1>4. TypeOK'
  BY <1>1, <1>2, <1>3 DEF Queue, Labels, ringVars, ovfVars, stopVars, wdVars,
     endVars
<1>5. OneTransmitter' /\ Counted'
  BY <1>1 DEF Queue, OneTransmitter, Counted, Transmitting
<1> QED
  BY <1>4, <1>5

\* The transport gives frames back.
LEMMA ReclaimInv ==
  ASSUME TxInv, NEW n \in 1..(QueueSize - 1), iwl_trans_pcie_reclaim(n)
  PROVE  TxInv'
<1> USE DEF TxInv, TypeOK, Goto
<1> DEFINE gone == [k \in 1..n |-> (read_ptr + k - 1) % QueueSize]
<1>1. /\ read_ptr + n \in Int
      /\ \A k \in 1..n : read_ptr + k - 1 \in Int
  BY DEF Positions
<1>2. /\ (read_ptr + n) % QueueSize \in Positions
      /\ \A k \in 1..n : gone[k] \in Positions
  BY <1>1, Modulo
<1>3. NoFrame \in Frame
  BY TxQueueAssumption DEF NoFrame, Frame, Positions, None
<1>4. entries' \in [Positions -> Frame]
  <2>1. entries' = [i \in Positions |->
                      IF \E k \in 1..n : gone[k] = i THEN NoFrame
                      ELSE entries[i]]
    BY DEF iwl_trans_pcie_reclaim
  <2> QED
    BY <1>3, <2>1
<1>5. reclaimed' \subseteq 0..MaxFrames
  <2>1. reclaimed' = reclaimed \cup {entries[gone[k]].id : k \in 1..n}
    BY DEF iwl_trans_pcie_reclaim
  <2>2. \A k \in 1..n : entries[gone[k]].id \in 0..MaxFrames
    BY <1>2 DEF Frame
  <2> QED
    BY <2>1, <2>2
<1>6. timer' \in BOOLEAN
  <2>1. timer' = Progress(Used - n)
    BY DEF iwl_trans_pcie_reclaim
  <2>2. (Used - n > 0) \in BOOLEAN
    OBVIOUS
  <2> QED
    BY <2>1, <2>2 DEF Progress
<1>7. /\ flush' \in Seq(Frame) /\ overflow_q' \in Seq(Frame)
      /\ overflow_tx' \in BOOLEAN /\ pc' \in [Procs -> Labels]
      /\ \A p \in Procs : pc'[p] = "send" => mpdus[p] # <<>>
  <2>1. Rx \in Procs
    BY DEF Procs
  <2>2. \/ /\ flush' = overflow_q /\ overflow_q' = <<>> /\ overflow_tx' = TRUE
           /\ pc' = [pc EXCEPT ![Rx] = "flush"]
        \/ UNCHANGED <<overflow_q, overflow_tx, flush, pc>>
    BY DEF iwl_trans_pcie_reclaim, ovfVars
  <2>3. pc' \in [Procs -> Labels]
    BY <2>1, <2>2 DEF Labels
  <2>4. \A p \in Procs : pc'[p] = "send" => mpdus[p] # <<>>
    BY <2>1, <2>2
  <2>5. flush' \in Seq(Frame) /\ overflow_q' \in Seq(Frame)
    <3>1. /\ <<>> \in Seq(Frame)
          /\ overflow_q \in Seq(Frame) /\ flush \in Seq(Frame)
      OBVIOUS
    <3> QED
      BY <2>2, <3>1, Zenon
  <2>6. overflow_tx' \in BOOLEAN
    BY <2>2
  <2> QED
    BY <2>3, <2>4, <2>5, <2>6
<1>8. /\ read_ptr' = (read_ptr + n) % QueueSize
      /\ UNCHANGED <<write_ptr, frozen, stopVars, fw_error, mvmVars, waiter,
                     freed, leaked, events>>
  BY DEF iwl_trans_pcie_reclaim
<1>9. TypeOK'
  BY <1>2, <1>4, <1>5, <1>6, <1>7, <1>8 DEF stopVars, mvmVars
<1>10. OneTransmitter' /\ Counted'
  BY <1>8 DEF iwl_trans_pcie_reclaim, mvmVars, OneTransmitter, Counted,
     Transmitting
<1> QED
  BY <1>9, <1>10

\* The rest of a reclaim: the overflow queue is sent and the queue restarted.
LEMMA ReclaimPathInv ==
  ASSUME TxInv, ReclaimPath
  PROVE  TxInv'
<1> USE DEF TxInv, TypeOK, Goto
<1>1. CASE FlushOne
  <2>1. Head(flush) \in Frame /\ Tail(flush) \in Seq(Frame)
    BY <1>1, HeadTail DEF FlushOne
  <2>2. TxTypes
    BY <1>1, <2>1, TxKeepsTypes DEF FlushOne
  <2>3. TypeOK'
    BY <1>1, <2>1, <2>2 DEF FlushOne, TxTypes, endVars, mvmVars
  <2>4. OneTransmitter' /\ Counted'
    BY <1>1 DEF FlushOne, mvmVars, OneTransmitter, Counted, Transmitting
  <2> QED
    BY <2>3, <2>4
<1>2. CASE FlushFails
  <2>1. Head(flush) \in Frame /\ Tail(flush) \in Seq(Frame)
    BY <1>2, HeadTail DEF FlushFails
  <2>2. TxTypes
    BY <1>2, <2>1, TxKeepsTypes DEF FlushFails
  <2>3. Head(flush).id \in 0..MaxFrames
    BY <2>1 DEF Frame
  <2>4. TypeOK'
    BY <1>2, <2>1, <2>2, <2>3 DEF FlushFails, TxTypes, mvmVars
  <2>5. OneTransmitter' /\ Counted'
    BY <1>2 DEF FlushFails, mvmVars, OneTransmitter, Counted, Transmitting
  <2> QED
    BY <2>4, <2>5
<1>3. CASE FlushEnd \/ iwl_wake_queue \/ iwl_mvm_wake_sw_queue \/ Relock
  <2>1. Rx \in Procs
    BY DEF Procs
  <2>2. TypeOK'
    BY <1>3, <2>1 DEF FlushEnd, iwl_wake_queue, iwl_mvm_wake_sw_queue, Relock,
       Labels, ringVars, ovfVars, stopVars, wdVars, endVars, mvmVars
  <2>3. OneTransmitter' /\ Counted'
    BY <1>3, <2>1 DEF FlushEnd, iwl_wake_queue, iwl_mvm_wake_sw_queue, Relock,
       mvmVars, OneTransmitter, Counted, Transmitting
  <2> QED
    BY <2>2, <2>3
<1> QED
  BY <1>1, <1>2, <1>3 DEF ReclaimPath

\* The wait for an empty queue only looks.
LEMMA WaitInv ==
  ASSUME TxInv, Wait
  PROVE  TxInv'
<1> USE DEF TxInv, TypeOK
<1>1. UNCHANGED waitUnchanged
  BY DEF Wait, WaitStart, WaitPtr, WaitTest, WaitSample, WaitExit, WaitReturn
<1>2. events' \in 0..MaxEvents
  <2>1. events' = events \/ Event
    BY DEF Wait, WaitStart, WaitPtr, WaitTest, WaitSample, WaitExit, WaitReturn
  <2> QED
    BY <2>1, TxQueueAssumption DEF Event
<1>3. waiter' \in Waiter
  <2>1. /\ Idle.wr_ptr \in Positions /\ Idle.ovf \in BOOLEAN /\ Idle.owed \in Int
        /\ Idle = [pc |-> "idle", wr_ptr |-> 0, ovf |-> FALSE, owed |-> 0]
    BY TxQueueAssumption DEF Idle, Positions
  <2>2. TransAdds \in BOOLEAN /\ Handed \in Int
    BY HandedType DEF TransAdds
  <2>3. CASE WaitStart
    BY <2>1, <2>2, <2>3 DEF WaitStart, Waiter
  <2>4. CASE WaitPtr
    BY <2>4 DEF WaitPtr, Waiter
  <2>5. CASE WaitTest
    BY <2>1, <2>5 DEF WaitTest, Waiter
  <2>6. CASE WaitSample
    BY <2>2, <2>6 DEF WaitSample, Waiter
  <2>7. CASE WaitExit
    BY <2>7 DEF WaitExit, Waiter
  <2>8. CASE WaitReturn
    BY <2>1, <2>8 DEF WaitReturn, Waiter
  <2> QED
    BY <2>3, <2>4, <2>5, <2>6, <2>7, <2>8 DEF Wait
<1>4. TypeOK'
  BY <1>1, <1>2, <1>3 DEF waitUnchanged, ringVars, ovfVars, stopVars, wdVars,
     endVars, mvmVars
<1>5. OneTransmitter' /\ Counted'
  BY <1>1 DEF waitUnchanged, mvmVars, OneTransmitter, Counted, Transmitting
<1> QED
  BY <1>4, <1>5

\* The watchdog, the firmware and the station.
LEMMA WatchdogInv ==
  ASSUME TxInv,
         \/ iwl_pcie_txq_stuck_timer \/ FwError
         \/ \E freeze \in BOOLEAN : iwl_trans_pcie_freeze_txq_timer(freeze)
  PROVE  TxInv'
<1> USE DEF TxInv, TypeOK
<1>1. /\ UNCHANGED <<ringVars, ovfVars, stopVars, mvmVars, pc, waiter, endVars>>
      /\ events' \in 0..MaxEvents
  BY TxQueueAssumption DEF iwl_pcie_txq_stuck_timer, FwError,
     iwl_trans_pcie_freeze_txq_timer, Event
<1>2. /\ timer' \in BOOLEAN /\ fw_error' \in BOOLEAN /\ frozen' \in BOOLEAN
  <2>1. CASE iwl_pcie_txq_stuck_timer
    <3>1. (Used > 0) \in BOOLEAN
      OBVIOUS
    <3> QED
      BY <2>1, <3>1 DEF iwl_pcie_txq_stuck_timer
  <2>2. CASE FwError
    BY <2>2 DEF FwError, wdVars
  <2>3. ASSUME NEW freeze \in BOOLEAN, iwl_trans_pcie_freeze_txq_timer(freeze)
        PROVE  /\ timer' \in BOOLEAN /\ fw_error' \in BOOLEAN
               /\ frozen' \in BOOLEAN
    <3>1. timer' = timer \/ timer' = ~freeze
      BY <2>3 DEF iwl_trans_pcie_freeze_txq_timer
    <3> QED
      BY <2>3, <3>1 DEF iwl_trans_pcie_freeze_txq_timer
  <2> QED
    BY <2>1, <2>2, <2>3
<1>3. TypeOK'
  BY <1>1, <1>2 DEF ringVars, ovfVars, stopVars, endVars, mvmVars
<1>4. OneTransmitter' /\ Counted'
  BY <1>1 DEF mvmVars, OneTransmitter, Counted, Transmitting
<1> QED
  BY <1>3, <1>4

\* A step of suspend or resume sends no frame: at most it starts a thread.
LEMMA HostSteps ==
  ASSUME Host
  PROVE  /\ UNCHANGED hostUnchanged /\ (events' = events \/ Event)
         /\ \/ pc' = pc
            \/ \E p \in Threads : pc[p] = "idle" /\ pc' = [pc EXCEPT ![p] = "enter"]
BY DEF Host, HostOn, ieee80211_suspend, synchronize_net, iwl_mvm_suspend,
   SuspendReturns, DeviceResumes, iwl_mvm_resume, ieee80211_wake_txqs, Goto

\* Suspend and resume.
LEMMA HostInv ==
  ASSUME TxInv, Host
  PROVE  TxInv'
<1> USE DEF TxInv, TypeOK
<1>1. UNCHANGED hostUnchanged
  BY HostSteps
<1>2. \/ pc' = pc
      \/ \E p \in Procs : pc[p] = "idle" /\ pc' = [pc EXCEPT ![p] = "enter"]
  BY HostSteps DEF Procs
<1>5. events' \in 0..MaxEvents
  BY HostSteps, TxQueueAssumption DEF Event
<1>3. TypeOK'
  BY <1>1, <1>2, <1>5 DEF hostUnchanged, ringVars, ovfVars, stopVars, wdVars,
     endVars, mvmVars, Labels
<1>4. OneTransmitter' /\ Counted'
  BY <1>1, <1>2 DEF hostUnchanged, mvmVars, OneTransmitter, Counted,
     Transmitting
<1> QED
  BY <1>3, <1>4

\* The variables of suspend and resume keep their types.
LEMMA PmNext == PmTypeOK /\ [Next]_vars => PmTypeOK'
<1> SUFFICES ASSUME PmTypeOK, [Next]_vars PROVE PmTypeOK'
  OBVIOUS
<1>1. ASSUME UNCHANGED pmVars PROVE PmTypeOK'
  BY <1>1 DEF pmVars, PmTypeOK, TxqsStopped
<1>2. ASSUME NEW p \in Procs, Xmit(p) PROVE PmTypeOK'
  <2>1. CASE itxq_xmit_loop(p)
    <3>1. missed' \in BOOLEAN
      BY <2>1, Zenon DEF itxq_xmit_loop
    <3> QED
      BY <2>1, <3>1 DEF itxq_xmit_loop, PmTypeOK, TxqsStopped
  <2>2. CASE ieee80211_tx_dequeue(p)
    <3>1. netif_stop' \in BOOLEAN
      BY <2>2, Zenon DEF ieee80211_tx_dequeue
    <3>2. UNCHANGED <<system_pm_mode, host, missed>>
      BY <2>2 DEF ieee80211_tx_dequeue
    <3>3. netif_stop' => netif_stop \/ TxqsStopped
      BY <2>2 DEF ieee80211_tx_dequeue
    <3> QED
      BY <3>1, <3>2, <3>3 DEF PmTypeOK, TxqsStopped
  <2>3. CASE itxq_xmit_enter(p) \/ iwl_mvm_tx_mpdu(p) \/ iwl_mvm_tx_skb_drop(p)
               \/ itxq_xmit_leave(p)
    BY <1>1, <2>3 DEF itxq_xmit_enter, iwl_mvm_tx_mpdu, iwl_mvm_tx_skb_drop,
       itxq_xmit_leave
  <2> QED
    BY <1>2, <2>1, <2>2, <2>3 DEF Xmit
<1>3. CASE Host
  BY <1>3 DEF Host, HostOn, ieee80211_suspend, synchronize_net,
     iwl_mvm_suspend, SuspendReturns, DeviceResumes, iwl_mvm_resume,
     ieee80211_wake_txqs, hostUnchanged, PmTypeOK, TxqsStopped
<1>4. CASE \/ \E p \in Threads, n \in Bursts : Queue(p, n)
           \/ \E n \in 1..(QueueSize - 1) : iwl_trans_pcie_reclaim(n)
           \/ ReclaimPath
  BY <1>1, <1>4 DEF Queue, iwl_trans_pcie_reclaim, ReclaimPath, FlushOne,
     FlushFails, FlushEnd, iwl_wake_queue, iwl_mvm_wake_sw_queue, Relock
<1>5. CASE Wait
  BY <1>1, <1>5 DEF Wait, WaitStart, WaitPtr, WaitTest, WaitSample, WaitExit,
     WaitReturn, waitUnchanged
<1>6. CASE \/ iwl_pcie_txq_stuck_timer \/ FwError
           \/ \E freeze \in BOOLEAN : iwl_trans_pcie_freeze_txq_timer(freeze)
  BY <1>1, <1>6 DEF iwl_pcie_txq_stuck_timer, FwError,
     iwl_trans_pcie_freeze_txq_timer
<1>7. CASE UNCHANGED vars
  BY <1>1, <1>7 DEF vars
<1> QED
  BY <1>2, <1>3, <1>4, <1>5, <1>6, <1>7 DEF Next

\* Every step keeps the invariant.
LEMMA NextInv == TxInv /\ [Next]_vars => TxInv'
<1> SUFFICES ASSUME TxInv, [Next]_vars PROVE TxInv'
  OBVIOUS
<1>1. CASE UNCHANGED vars
  BY <1>1 DEF TxInv, TypeOK, OneTransmitter, Counted, Transmitting, vars,
     ringVars, ovfVars, stopVars, wdVars, endVars, mvmVars
<1> QED
  BY <1>1, QueueInv, XmitInv, ReclaimInv, ReclaimPathInv, WaitInv, WatchdogInv,
     HostInv DEF Next

\* Every variable keeps its type: the pointers stay on the ring, tx_request
\* never goes below zero or above two, a process that sends has a frame, and
\* mac80211's queue is marked as stopped during a suspend or resume only.
THEOREM TypeCorrect == Spec => [](TypeOK /\ PmTypeOK)
<1>1. TxInv => TypeOK
  BY DEF TxInv
<1>2. Init => PmTypeOK
  BY DEF Init, PmTypeOK
<1> QED
  BY <1>1, <1>2, InitInv, NextInv, PmNext, PTL DEF Spec

\* Whatever the number of threads that queue frames and the order of their
\* steps, one of them at a time runs the loop of iwl_mvm_mac_itxq_xmit.
THEOREM OneTransmitterCorrect == Spec => []OneTransmitter
<1>1. TxInv => OneTransmitter
  BY DEF TxInv
<1> QED
  BY <1>1, InitInv, NextInv, PTL DEF Spec

-----------------------------------------------------------------------------
(* No stop is lost.                                                        *)

\* What a call of the transport's transmit function does to the room on the
\* ring and to the two flags that say the queue is stopped.
LEMMA TxStops ==
  ASSUME TypeOK, NEW f, Overflow(f) \/ OnRing(f) \/ TxError(f)
  PROVE  /\ iwl_queue_space' <= iwl_queue_space
         /\ iwl_queue_space \in Int /\ iwl_queue_space' \in Int
         /\ queue_stopped => queue_stopped'
         /\ queue_stopped' => queue_stopped \/ iwl_queue_space <= LowMark
         /\ stopped' => stopped \/ queue_stopped'
<1> USE DEF TypeOK, StopIfFull
<1>1. Used \in 0..(QueueSize - 1)
  BY UsedRange DEF Used
<1>2. Full => iwl_queue_space <= LowMark
  BY <1>1, Marks, TxQueueAssumption DEF Full, iwl_queue_space, SpaceOf
<1>3. CASE Overflow(f)
  <2>1. Used' = Used
    BY <1>3 DEF Overflow, Used, ringVars
  <2> QED
    BY <1>1, <1>2, <1>3, <2>1, TxQueueAssumption
       DEF Overflow, iwl_queue_space, SpaceOf
<1>4. CASE OnRing(f)
  <2>1. Used < QueueSize - 1
    BY <1>1, <1>4, Marks, TxQueueAssumption
       DEF OnRing, ToOverflow, Full, iwl_queue_space, SpaceOf, MinSpace
  <2>2. Used' = Used + 1
    BY <1>4, <2>1, UsedAfterPut DEF OnRing, Used
  <2>3. /\ queue_stopped' = (queue_stopped \/ Full)
        /\ stopped' = (stopped \/ (Full /\ ~queue_stopped))
    BY <1>4 DEF OnRing
  <2> QED
    BY <1>1, <1>2, <2>2, <2>3, TxQueueAssumption DEF iwl_queue_space, SpaceOf
<1>5. CASE TxError(f)
  <2>1. Used' = Used
    BY <1>5 DEF TxError, Used
  <2> QED
    BY <1>1, <1>2, <1>5, <2>1, TxQueueAssumption
       DEF TxError, iwl_queue_space, SpaceOf, stopVars
<1> QED
  BY <1>3, <1>4, <1>5

\* Every step keeps NoLostStop.
LEMMA StopNext == TxInv /\ NoLostStop /\ [Next]_vars => NoLostStop'
<1> SUFFICES ASSUME TxInv, NoLostStop, [Next]_vars PROVE NoLostStop'
  OBVIOUS
<1> USE DEF TxInv, Goto
<1>t. /\ pc \in [Procs -> Labels] /\ Rx \in Procs /\ Threads \subseteq Procs
      /\ Rx \notin Threads /\ TypeOK
  BY TxQueueAssumption DEF TypeOK, Procs
<1>u. Used \in 0..(QueueSize - 1)
  BY UsedRange DEF Used, TypeOK
<1>m. LowMark \in Nat /\ QueueSize \in Nat
  BY Marks, TxQueueAssumption
<1>1. ASSUME UNCHANGED <<ringVars, stopVars>>,
             pc'[Rx] = pc[Rx]
                \/ pc[Rx] \notin {"flush", "wake", "woken"}
      PROVE  NoLostStop'
  <2>1. iwl_queue_space' = iwl_queue_space
    BY <1>1 DEF iwl_queue_space, SpaceOf, Used, ringVars
  <2> QED
    BY <1>1, <2>1 DEF NoLostStop, stopVars
<1>2. ASSUME NEW f, Overflow(f) \/ OnRing(f) \/ TxError(f),
             pc'[Rx] = pc[Rx]
                \/ pc[Rx] \notin {"flush", "wake", "woken"}
      PROVE  NoLostStop'
  BY <1>2, <1>t, <1>m, TxStops DEF NoLostStop
<1>3. CASE UNCHANGED vars
  BY <1>1, <1>3 DEF vars
<1>4. ASSUME NEW p \in Threads, NEW n \in Bursts, Queue(p, n)
      PROVE  NoLostStop'
  BY <1>1, <1>4, <1>t DEF Queue
<1>5. ASSUME NEW p \in Procs, Xmit(p)
      PROVE  NoLostStop'
  <2>1. CASE itxq_xmit_enter(p) \/ itxq_xmit_loop(p)
               \/ ieee80211_tx_dequeue(p) \/ itxq_xmit_leave(p)
    <3>1. /\ UNCHANGED <<ringVars, stopVars>>
          /\ pc[p] \notin {"flush", "wake", "woken"}
      BY <2>1 DEF itxq_xmit_enter, itxq_xmit_loop, ieee80211_tx_dequeue,
         itxq_xmit_leave
    <3>2. \E l : pc' = [pc EXCEPT ![p] = l]
      BY <2>1 DEF itxq_xmit_enter, itxq_xmit_loop, ieee80211_tx_dequeue,
         itxq_xmit_leave
    <3> QED
      BY <1>1, <1>t, <3>1, <3>2
  <2>2. CASE iwl_mvm_tx_mpdu(p)
    <3>1. pc'[Rx] = pc[Rx] \/ pc[Rx] \notin {"flush", "wake", "woken"}
      BY <1>t, <2>2 DEF iwl_mvm_tx_mpdu
    <3> QED
      BY <1>2, <2>2, <3>1 DEF iwl_mvm_tx_mpdu
  <2>3. CASE iwl_mvm_tx_skb_drop(p)
    <3>1. pc'[Rx] = pc[Rx] \/ pc[Rx] \notin {"flush", "wake", "woken"}
      BY <1>t, <2>3 DEF iwl_mvm_tx_skb_drop
    <3> QED
      BY <1>2, <2>3, <3>1 DEF iwl_mvm_tx_skb_drop
  <2> QED
    BY <1>5, <2>1, <2>2, <2>3 DEF Xmit
<1>6. ASSUME NEW n \in 1..(QueueSize - 1), iwl_trans_pcie_reclaim(n)
      PROVE  NoLostStop'
  <2>1. n \in 1..Used /\ pc[Rx] = "idle" /\ UNCHANGED stopVars
    BY <1>6 DEF iwl_trans_pcie_reclaim
  <2>2. Used' = Used - n
    BY <1>6, <1>t, <2>1, UsedAfterReclaim
       DEF iwl_trans_pcie_reclaim, Used, TypeOK
  <2>3. \/ pc'[Rx] = "flush"
        \/ pc'[Rx] = "idle" /\ ~(queue_stopped /\ SpaceOf(Used - n) > LowMark)
    BY <1>6, <1>t, <2>1 DEF iwl_trans_pcie_reclaim, Resume
  <2>4. iwl_queue_space' = SpaceOf(Used - n)
    BY <2>2 DEF iwl_queue_space, SpaceOf
  <2>5. SpaceOf(Used - n) \in Int
    BY <1>u, <1>m, <2>1 DEF SpaceOf
  <2> QED
    BY <1>m, <2>1, <2>3, <2>4, <2>5 DEF NoLostStop, stopVars
<1>7. CASE ReclaimPath
  <2>1. CASE FlushOne
    BY <1>2, <2>1 DEF FlushOne
  <2>2. CASE FlushFails
    BY <1>2, <2>2 DEF FlushFails
  <2>3. CASE FlushEnd
    <3>1. iwl_queue_space' = iwl_queue_space /\ iwl_queue_space \in Int
      BY <1>u, <1>m, <2>3 DEF FlushEnd, iwl_queue_space, SpaceOf, Used, ringVars
    <3> QED
      BY <1>t, <1>m, <2>3, <3>1 DEF FlushEnd, NoLostStop, stopVars
  <2>4. CASE iwl_wake_queue
    BY <1>t, <2>4 DEF iwl_wake_queue, NoLostStop
  <2>5. CASE iwl_mvm_wake_sw_queue
    <3>1. iwl_queue_space' = iwl_queue_space
      BY <2>5 DEF iwl_mvm_wake_sw_queue, iwl_queue_space, SpaceOf, Used, ringVars
    <3> QED
      BY <1>t, <2>5, <3>1 DEF iwl_mvm_wake_sw_queue, NoLostStop
  <2>6. CASE Relock
    BY <1>1, <2>6 DEF Relock
  <2> QED
    BY <1>7, <2>1, <2>2, <2>3, <2>4, <2>5, <2>6 DEF ReclaimPath
<1>8. CASE Wait
  BY <1>1, <1>8 DEF Wait, WaitStart, WaitPtr, WaitTest, WaitSample, WaitExit,
     WaitReturn, waitUnchanged
<1>9. CASE \/ iwl_pcie_txq_stuck_timer \/ FwError
           \/ \E freeze \in BOOLEAN : iwl_trans_pcie_freeze_txq_timer(freeze)
  BY <1>1, <1>9 DEF iwl_pcie_txq_stuck_timer, FwError,
     iwl_trans_pcie_freeze_txq_timer
<1>10. CASE Host
  <2>1. UNCHANGED <<ringVars, stopVars>>
    BY <1>10, HostSteps DEF hostUnchanged
  <2>2. pc'[Rx] = pc[Rx] \/ pc[Rx] = "idle"
    BY <1>10, <1>t, HostSteps
  <2> QED
    BY <1>1, <2>1, <2>2
<1> QED
  BY <1>3, <1>4, <1>5, <1>6, <1>7, <1>8, <1>9, <1>10 DEF Next

\* The transport's bit and the op-mode's flag never disagree in the way that
\* would leave the queue stopped for ever, for every ring size: a stopped
\* op-mode queue is one the transport knows to restart, and a transport queue
\* stays stopped only while it holds frames whose reclaim restarts it.
THEOREM StopCorrect == Spec => []NoLostStop
<1>1. Init => NoLostStop
  BY DEF Init, NoLostStop
<1> QED
  BY <1>1, InitInv, NextInv, StopNext, PTL DEF Spec

-----------------------------------------------------------------------------
(* The watchdog.                                                           *)

\* A transmission changes the timer only to arm it, and arms it when it puts
\* the first frame on a ring that is not frozen.
LEMMA TxArms ==
  ASSUME TypeOK, NEW f, Overflow(f) \/ OnRing(f) \/ TxError(f)
  PROVE  /\ timer => timer'
         /\ frozen' = frozen
         /\ Used' > 0 /\ ~frozen => Used > 0 \/ timer'
<1> USE DEF TypeOK
<1>1. Used \in 0..(QueueSize - 1)
  BY UsedRange DEF Used
<1>2. CASE Overflow(f)
  BY <1>2 DEF Overflow, wdVars, ringVars, Used
<1>3. CASE OnRing(f)
  <2>1. timer' = (timer \/ (Used = 0 /\ ~frozen)) /\ frozen' = frozen
    BY <1>3 DEF OnRing
  <2>2. Used = 0 \/ Used > 0
    BY <1>1, TxQueueAssumption
  <2> QED
    BY <2>1, <2>2
<1>4. CASE TxError(f)
  BY <1>4 DEF TxError, wdVars, Used
<1> QED
  BY <1>2, <1>3, <1>4

\* Every step keeps WatchdogArmed.
LEMMA WatchdogNext == TxInv /\ WatchdogArmed /\ [Next]_vars => WatchdogArmed'
<1> SUFFICES ASSUME TxInv, WatchdogArmed, [Next]_vars PROVE WatchdogArmed'
  OBVIOUS
<1> USE DEF TxInv
<1>u. TypeOK /\ Used \in 0..(QueueSize - 1)
  BY UsedRange DEF Used, TypeOK
<1>1. ASSUME UNCHANGED <<ringVars, wdVars, fw_error>>
      PROVE  WatchdogArmed'
  BY <1>1 DEF WatchdogArmed, Used, ringVars, wdVars
<1>2. ASSUME NEW f, Overflow(f) \/ OnRing(f) \/ TxError(f), UNCHANGED fw_error
      PROVE  WatchdogArmed'
  BY <1>2, <1>u, TxArms DEF WatchdogArmed
<1>3. CASE UNCHANGED vars
  BY <1>1, <1>3 DEF vars
<1>4. ASSUME NEW p \in Threads, NEW n \in Bursts, Queue(p, n)
      PROVE  WatchdogArmed'
  BY <1>1, <1>4 DEF Queue
<1>5. ASSUME NEW p \in Procs, Xmit(p)
      PROVE  WatchdogArmed'
  <2>1. CASE itxq_xmit_enter(p) \/ itxq_xmit_loop(p)
               \/ ieee80211_tx_dequeue(p) \/ itxq_xmit_leave(p)
    BY <1>1, <2>1 DEF itxq_xmit_enter, itxq_xmit_loop, ieee80211_tx_dequeue,
       itxq_xmit_leave
  <2>2. CASE iwl_mvm_tx_mpdu(p)
    BY <1>2, <2>2 DEF iwl_mvm_tx_mpdu
  <2>3. CASE iwl_mvm_tx_skb_drop(p)
    BY <1>2, <2>3 DEF iwl_mvm_tx_skb_drop
  <2> QED
    BY <1>5, <2>1, <2>2, <2>3 DEF Xmit
<1>6. ASSUME NEW n \in 1..(QueueSize - 1), iwl_trans_pcie_reclaim(n)
      PROVE  WatchdogArmed'
  <2>1. n \in 1..Used
    BY <1>6 DEF iwl_trans_pcie_reclaim
  <2>2. Used' = Used - n
    BY <1>6, <1>u, <2>1, UsedAfterReclaim
       DEF iwl_trans_pcie_reclaim, Used, TypeOK
  <2>3. timer' = Progress(Used - n) /\ UNCHANGED <<frozen, fw_error>>
    BY <1>6 DEF iwl_trans_pcie_reclaim
  <2> QED
    BY <2>2, <2>3 DEF WatchdogArmed, Progress
<1>7. CASE ReclaimPath
  <2>1. CASE FlushOne
    BY <1>2, <2>1 DEF FlushOne
  <2>2. CASE FlushFails
    BY <1>2, <2>2 DEF FlushFails
  <2>3. CASE FlushEnd \/ iwl_wake_queue \/ iwl_mvm_wake_sw_queue \/ Relock
    BY <1>1, <2>3 DEF FlushEnd, iwl_wake_queue, iwl_mvm_wake_sw_queue, Relock
  <2> QED
    BY <1>7, <2>1, <2>2, <2>3 DEF ReclaimPath
<1>8. CASE Wait
  BY <1>1, <1>8 DEF Wait, WaitStart, WaitPtr, WaitTest, WaitSample, WaitExit,
     WaitReturn, waitUnchanged
<1>9. CASE iwl_pcie_txq_stuck_timer
  <2>1. Used' = Used
    BY <1>9 DEF iwl_pcie_txq_stuck_timer, ringVars, Used
  <2> QED
    BY <1>9, <2>1 DEF iwl_pcie_txq_stuck_timer, WatchdogArmed
<1>10. CASE FwError
  BY <1>10 DEF FwError, WatchdogArmed
<1>11. ASSUME NEW freeze \in BOOLEAN, iwl_trans_pcie_freeze_txq_timer(freeze)
       PROVE  WatchdogArmed'
  <2>1. Used' = Used
    BY <1>11 DEF iwl_trans_pcie_freeze_txq_timer, ringVars, Used
  <2>2. Used > 0 => Used # 0
    BY <1>u
  <2> QED
    BY <1>11, <2>1, <2>2 DEF iwl_trans_pcie_freeze_txq_timer, WatchdogArmed
<1>12. CASE Host
  BY <1>1, <1>12, HostSteps DEF hostUnchanged
<1> QED
  BY <1>3, <1>4, <1>5, <1>6, <1>7, <1>8, <1>9, <1>10, <1>11, <1>12 DEF Next

\* While the firmware works and the station is awake, the watchdog is armed
\* whenever the ring holds a frame: iwl_trans_pcie_tx, the progress of a
\* reclaim, the freezing of the timer and its expiry agree on it, for every
\* ring size and order of their steps.
THEOREM WatchdogCorrect == Spec => []WatchdogArmed
<1>1. Init => WatchdogArmed
  <2> SUFFICES ASSUME Init PROVE Used = 0
    BY DEF WatchdogArmed
  <2>1. TypeOK
    BY InitInv DEF TxInv
  <2> QED
    BY <2>1, UsedRange, TxQueueAssumption DEF Init, Used, TypeOK, Positions
<1> QED
  BY <1>1, InitInv, NextInv, WatchdogNext, PTL DEF Spec

-----------------------------------------------------------------------------
(* Where the frames are.                                                   *)

\* The frames not yet handed to the transport, and those nobody waits for.
Held == WithMac80211 \cup WithOpMode
Ends == reclaimed \cup freed \cup leaked

\* The frames of a sequence of skbs, and how they are ordered: within an skb
\* and from one to the next.
SkbIds(q) == UNION {IdsIn(q[i]) : i \in 1..Len(q)}
Ascending(s) == \A j, l \in 1..Len(s) : j < l => s[j] < s[l]
InOrder(q) ==
  /\ \A i \in 1..Len(q) : Ascending(q[i])
  /\ \A i, k \in 1..Len(q) :
       i < k => \A x \in IdsIn(q[i]), y \in IdsIn(q[k]) : x < y

\* No two elements of a list of the transport are the same frame.
Distinct(s) == \A i, j \in 1..Len(s) : s[i].id = s[j].id => i = j

\* The k-th frame on the ring, from the oldest.
Slot(r, k) == (r + k) % QueueSize
RingId(k) == entries[Slot(read_ptr, k)].id

\* mac80211's queue and the MPDUs of the one process that sends are in the
\* order of their numbers: what the transport was not handed yet are the last
\* frames that arrived.
OrderInv ==
  /\ InOrder(itxq)
  /\ \A p \in Procs : Ascending(mpdus[p])
  /\ \A x \in WithOpMode, y \in WithMac80211 : x < y
  /\ \A p \in Procs : pc[p] # "send" => mpdus[p] = <<>>
  /\ \E h \in 0..arrived : Held = (h + 1)..arrived

\* Sets of frames that together are the first a ones, each in one of them.
Split(H, R, Q, F, c, d, l, a) ==
  /\ H \cup R \cup Q \cup F \cup c \cup d \cup l = 1..a
  /\ H \cap (R \cup Q \cup F \cup c \cup d \cup l) = {}
  /\ R \cap (Q \cup F \cup c \cup d \cup l) = {}
  /\ Q \cap (F \cup c \cup d \cup l) = {}
  /\ F \cap (c \cup d \cup l) = {}
  /\ c \cap (d \cup l) = {}
  /\ d \cap l = {}

\* No frame is twice on the ring.
RingOnce == \A k, l \in 0..(Used - 1) : RingId(k) = RingId(l) => k = l

\* Every frame is in one place, and once there.
PlaceInv ==
  /\ Split(Held, InRing, IdsOf(overflow_q), IdsOf(flush),
           reclaimed, freed, leaked, arrived)
  /\ RingOnce /\ Distinct(overflow_q) /\ Distinct(flush)
  /\ pc[Rx] # "flush" => flush = <<>>

\* The k-th position after another, while k is less than the ring size.
LEMMA SlotValue ==
  ASSUME NEW r \in Positions, NEW k \in Positions
  PROVE  /\ Slot(r, k) \in Positions
         /\ Slot(r, k) = IF r + k < QueueSize THEN r + k ELSE r + k - QueueSize
<1>1. r + k \in Int
  BY TxQueueAssumption DEF Positions
<1> QED
  BY <1>1, Modulo, TxQueueAssumption DEF Slot, Positions

\* Different distances lead to different positions.
LEMMA SlotOnce ==
  ASSUME NEW r \in Positions, NEW k \in Positions, NEW l \in Positions,
         Slot(r, k) = Slot(r, l)
  PROVE  k = l
<1>1. Slot(r, k) = IF r + k < QueueSize THEN r + k ELSE r + k - QueueSize
  BY SlotValue
<1>2. Slot(r, l) = IF r + l < QueueSize THEN r + l ELSE r + l - QueueSize
  BY SlotValue
<1>3. /\ r \in Int /\ k \in Int /\ l \in Int /\ QueueSize \in Int
      /\ 0 <= k /\ k < QueueSize /\ 0 <= l /\ l < QueueSize
  BY TxQueueAssumption DEF Positions
<1>4. (IF r + k < QueueSize THEN r + k ELSE r + k - QueueSize)
        = (IF r + l < QueueSize THEN r + l ELSE r + l - QueueSize)
  BY <1>1, <1>2
<1> QED
  BY <1>3, <1>4

\* The position after the used ones is the write pointer.
LEMMA SlotWrite ==
  ASSUME NEW r \in Positions, NEW w \in Positions
  PROVE  Slot(r, UsedBetween(r, w)) = w
<1>1. /\ UsedBetween(r, w) \in Positions
      /\ UsedBetween(r, w) = IF w >= r THEN w - r ELSE w - r + QueueSize
  BY UsedRange DEF Positions
<1>2. PICK u \in Positions : u = UsedBetween(r, w)
  BY <1>1
<1>3. Slot(r, u) = IF r + u < QueueSize THEN r + u ELSE r + u - QueueSize
  BY SlotValue
<1> QED
  BY <1>1, <1>2, <1>3, TxQueueAssumption DEF Positions

\* Positions counted from a read pointer that moved.
LEMMA SlotShift ==
  ASSUME NEW r \in Positions, NEW n \in Positions, NEW k \in Positions,
         n + k \in Positions
  PROVE  Slot(Slot(r, n), k) = Slot(r, n + k)
<1>1. Slot(r, n) \in Positions
      /\ Slot(r, n) = IF r + n < QueueSize THEN r + n ELSE r + n - QueueSize
  BY SlotValue
<1>2. Slot(r, n + k) = IF r + (n + k) < QueueSize THEN r + (n + k)
                       ELSE r + (n + k) - QueueSize
  BY SlotValue
<1>3. PICK s \in Positions : s = Slot(r, n)
  BY <1>1
<1>4. Slot(s, k) = IF s + k < QueueSize THEN s + k ELSE s + k - QueueSize
  BY SlotValue
<1> QED
  BY <1>1, <1>2, <1>3, <1>4, TxQueueAssumption DEF Positions

\* The frames on the ring, listed from the oldest, before and after a step.
LEMMA RingList ==
  /\ InRing = {RingId(k) : k \in 0..(Used - 1)}
  /\ InRing' = {RingId(k)' : k \in (0..(Used - 1))'}
BY DEF InRing, RingId, Slot

\* A frame put on the ring is the last of it.
LEMMA RingPut ==
  ASSUME TypeOK, NEW f \in Frame, OnRing(f)
  PROVE  /\ Used \in Nat /\ Used' = Used + 1
         /\ \A k \in 0..(Used - 1) : RingId(k)' = RingId(k)
         /\ \A u : u = Used => RingId(u)' = f.id
<1>1. Used \in 0..(QueueSize - 1)
  BY UsedRange DEF Used, TypeOK
<1>2. Used < QueueSize - 1
  BY <1>1, Marks, TxQueueAssumption
     DEF OnRing, ToOverflow, Full, iwl_queue_space, SpaceOf, MinSpace
<1>3. Used' = Used + 1
  BY <1>2, UsedAfterPut DEF OnRing, Used, TypeOK
<1>4. /\ entries' = [entries EXCEPT ![write_ptr] = f] /\ read_ptr' = read_ptr
      /\ entries \in [Positions -> Frame]
      /\ write_ptr \in Positions /\ read_ptr \in Positions
  BY DEF OnRing, TypeOK
<1>5. PICK u \in Positions : u = Used
  BY <1>1 DEF Positions
<1>6. Slot(read_ptr, u) = write_ptr
  BY <1>4, <1>5, SlotWrite DEF Used
<1>7. ASSUME NEW k \in 0..(Used - 1)
      PROVE  RingId(k)' = RingId(k)
  <2>1. k \in Positions /\ k # u
    BY <1>1, <1>5, TxQueueAssumption DEF Positions
  <2>2. Slot(read_ptr, k) \in Positions /\ Slot(read_ptr, k) # write_ptr
    BY <1>4, <1>6, <2>1, SlotValue, SlotOnce
  <2>3. Slot(read_ptr, k)' = Slot(read_ptr, k)
    BY <1>4 DEF Slot
  <2> QED
    BY <1>4, <2>2, <2>3 DEF RingId
<1>8. RingId(u)' = f.id
  <2>1. Slot(read_ptr, u)' = Slot(read_ptr, u)
    BY <1>4 DEF Slot
  <2> QED
    BY <1>4, <1>6, <2>1 DEF RingId
<1> QED
  BY <1>1, <1>3, <1>5, <1>7, <1>8
\* So the ring gains it, and holds no frame twice if it did not hold it.
LEMMA RingPutSet ==
  ASSUME TypeOK, NEW f \in Frame, OnRing(f)
  PROVE  /\ InRing' = InRing \cup {f.id}
         /\ RingOnce /\ f.id \notin InRing => RingOnce'
<1>1. /\ Used \in Nat /\ Used' = Used + 1
      /\ \A k \in 0..(Used - 1) : RingId(k)' = RingId(k)
      /\ \A u : u = Used => RingId(u)' = f.id
  BY RingPut
<1>2. PICK u \in Nat : u = Used
  BY <1>1
<1>3. RingId(u)' = f.id /\ \A k \in 0..(u - 1) : RingId(k)' = RingId(k)
  BY <1>1, <1>2
<1>4. (0..(Used - 1))' = 0..u /\ 0..(Used - 1) = 0..(u - 1)
  BY <1>1, <1>2
<1>5. /\ InRing = {RingId(k) : k \in 0..(u - 1)}
      /\ InRing' = {RingId(k)' : k \in 0..u}
  BY <1>4, RingList
<1>6. 0..u = 0..(u - 1) \cup {u} /\ u \notin 0..(u - 1)
  BY <1>2
<1>7. InRing' = InRing \cup {f.id}
  BY <1>3, <1>5, <1>6, Zenon
<1>8. ASSUME RingOnce, f.id \notin InRing
      PROVE  RingOnce'
  <2>1. \A k, l \in 0..(u - 1) : RingId(k) = RingId(l) => k = l
    BY <1>4, <1>8 DEF RingOnce
  <2>2. \A k \in 0..(u - 1) : RingId(k) # f.id
    BY <1>5, <1>8
  <2>3. \A k, l \in 0..u : RingId(k)' = RingId(l)' => k = l
    BY <1>3, <1>6, <2>1, <2>2, Zenon
  <2> QED
    BY <1>4, <2>3 DEF RingOnce
<1> QED
  BY <1>7, <1>8

\* A frame that goes to the overflow queue, or is refused, leaves the ring as
\* it is: what a refusal wrote is beyond the write pointer.
LEMMA RingKept ==
  ASSUME TypeOK, NEW f \in Frame, Overflow(f) \/ TxError(f)
  PROVE  InRing' = InRing /\ Used' = Used /\ (RingOnce => RingOnce')
<1>1. /\ Used \in 0..(QueueSize - 1)
      /\ read_ptr \in Positions /\ write_ptr \in Positions
      /\ entries \in [Positions -> Frame]
  BY UsedRange DEF Used, TypeOK
<1>2. /\ read_ptr' = read_ptr /\ write_ptr' = write_ptr
      /\ entries' = entries \/ entries' = [entries EXCEPT ![write_ptr] = f]
  BY DEF Overflow, TxError, ringVars
<1>3. Used' = Used
  BY <1>2 DEF Used
<1>4. PICK u \in Positions : u = Used
  BY <1>1 DEF Positions
<1>5. Slot(read_ptr, u) = write_ptr
  BY <1>1, <1>4, SlotWrite DEF Used
<1>6. ASSUME NEW k \in 0..(Used - 1)
      PROVE  RingId(k)' = RingId(k)
  <2>1. k \in Positions /\ k # u
    BY <1>1, <1>4, TxQueueAssumption DEF Positions
  <2>2. Slot(read_ptr, k) \in Positions /\ Slot(read_ptr, k) # write_ptr
    BY <1>1, <1>5, <2>1, SlotValue, SlotOnce
  <2>3. Slot(read_ptr, k)' = Slot(read_ptr, k)
    BY <1>2 DEF Slot
  <2> QED
    BY <1>1, <1>2, <2>2, <2>3 DEF RingId
<1>7. (0..(Used - 1))' = 0..(Used - 1)
  BY <1>3
<1>8. InRing' = InRing
  BY <1>6, <1>7, RingList
<1>9. RingOnce => RingOnce'
  BY <1>6, <1>7 DEF RingOnce
<1> QED
  BY <1>3, <1>8, <1>9

\* A reclaim takes the n oldest frames, the ones it reports, off the ring.
LEMMA RingTake ==
  ASSUME TypeOK, RingOnce, NEW n \in 1..(QueueSize - 1),
         iwl_trans_pcie_reclaim(n)
  PROVE  /\ Used' = Used - n /\ RingOnce'
         /\ \E X : /\ X \subseteq InRing /\ InRing' = InRing \ X
                   /\ reclaimed' = reclaimed \cup X
<1>1. /\ Used \in 0..(QueueSize - 1)
      /\ read_ptr \in Positions /\ write_ptr \in Positions
      /\ entries \in [Positions -> Frame]
  BY UsedRange DEF Used, TypeOK
<1> DEFINE gone == [k \in 1..n |-> (read_ptr + k - 1) % QueueSize]
<1>2. /\ n \in 1..Used
      /\ read_ptr' = Slot(read_ptr, n) /\ write_ptr' = write_ptr
      /\ reclaimed' = reclaimed \cup {entries[gone[k]].id : k \in 1..n}
      /\ entries' = [i \in Positions |->
                       IF \E k \in 1..n : gone[k] = i THEN NoFrame
                       ELSE entries[i]]
  BY DEF iwl_trans_pcie_reclaim, Slot
<1>3. Used' = Used - n
  BY <1>1, <1>2, UsedAfterReclaim DEF Used, Slot
<1>4. PICK u \in Positions : u = Used
  BY <1>1 DEF Positions
<1>5. n \in Positions /\ n <= u /\ u \in Int /\ QueueSize \in Nat
  BY <1>2, <1>4, TxQueueAssumption DEF Positions
<1>6. \A k \in 1..n : k - 1 \in 0..(n - 1) /\ gone[k] = Slot(read_ptr, k - 1)
  <2> SUFFICES ASSUME NEW k \in 1..n
               PROVE  k - 1 \in 0..(n - 1) /\ gone[k] = Slot(read_ptr, k - 1)
    OBVIOUS
  <2>1. read_ptr + k - 1 = read_ptr + (k - 1)
    BY <1>1, TxQueueAssumption DEF Positions
  <2> QED
    BY <2>1 DEF Slot
<1>7. ASSUME NEW k \in 0..(u - n - 1)
      PROVE  RingId(k)' = RingId(n + k)
  <2>1. k \in Positions /\ n + k \in Positions
    BY <1>4, <1>5, TxQueueAssumption DEF Positions
  <2>2. Slot(read_ptr, k)' = Slot(Slot(read_ptr, n), k)
    BY <1>2 DEF Slot
  <2>3. Slot(read_ptr, k)' = Slot(read_ptr, n + k)
    BY <1>1, <1>5, <2>1, <2>2, SlotShift
  <2>4. Slot(read_ptr, n + k) \in Positions
    BY <1>1, <2>1, SlotValue
  <2>5. ASSUME NEW j \in 1..n, gone[j] = Slot(read_ptr, n + k)
        PROVE  FALSE
    <3>1. j - 1 \in Positions /\ j - 1 # n + k
      BY <1>5, TxQueueAssumption DEF Positions
    <3> QED
      BY <1>1, <1>6, <2>1, <2>5, <3>1, SlotOnce
  <2> QED
    BY <1>2, <2>3, <2>4, <2>5 DEF RingId
<1>8. /\ (0..(Used - 1))' = 0..(u - n - 1) /\ 0..(Used - 1) = 0..(u - 1)
  BY <1>3, <1>4
<1> DEFINE X == {RingId(k) : k \in 0..(n - 1)}
<1>9. {entries[gone[k]].id : k \in 1..n} = X
  <2>1. \A k \in 1..n : entries[gone[k]].id = RingId(k - 1)
    BY <1>6 DEF RingId
  <2>2. \A k \in 0..(n - 1) : k + 1 \in 1..n /\ (k + 1) - 1 = k
    BY <1>5, TxQueueAssumption DEF Positions
  <2> QED
    BY <1>6, <2>1, <2>2
<1>10. /\ InRing = {RingId(k) : k \in 0..(u - 1)}
       /\ InRing' = {RingId(n + k) : k \in 0..(u - n - 1)}
  BY <1>7, <1>8, RingList
<1>11. \A k, l \in 0..(u - 1) : RingId(k) = RingId(l) => k = l
  BY <1>8 DEF RingOnce
<1>12. X \subseteq InRing /\ InRing' = InRing \ X
  <2>1. /\ \A k \in 0..(n - 1) : k \in 0..(u - 1)
        /\ \A k \in 0..(u - n - 1) : n + k \in 0..(u - 1) /\ n + k \notin 0..(n - 1)
        /\ \A k \in 0..(u - 1) : k \in 0..(n - 1)
              \/ (k - n \in 0..(u - n - 1) /\ n + (k - n) = k)
    BY <1>5, TxQueueAssumption DEF Positions
  <2>2. X \subseteq InRing
    BY <1>10, <2>1
  <2>3. InRing' \subseteq InRing \ X
    BY <1>10, <1>11, <2>1
  <2>4. InRing \ X \subseteq InRing'
    BY <1>10, <2>1
  <2> QED
    BY <2>2, <2>3, <2>4
<1>13. RingOnce'
  <2> SUFFICES ASSUME NEW k \in 0..(u - n - 1), NEW l \in 0..(u - n - 1),
                      RingId(k)' = RingId(l)'
               PROVE  k = l
    BY <1>8 DEF RingOnce
  <2>1. n + k \in 0..(u - 1) /\ n + l \in 0..(u - 1)
    BY <1>5, TxQueueAssumption DEF Positions
  <2>2. n + k = n + l
    BY <1>7, <1>11, <2>1
  <2> QED
    BY <1>5, <2>2 DEF Positions
<1> QED
  BY <1>2, <1>3, <1>9, <1>12, <1>13
\* The MPDUs of an skb without the first.
LEMMA TailIds ==
  ASSUME NEW s \in Seq(Frames), s # <<>>, Ascending(s)
  PROVE  /\ IdsIn(s) = {Head(s)} \cup IdsIn(Tail(s))
         /\ Ascending(Tail(s))
         /\ \A x \in IdsIn(Tail(s)) : Head(s) < x
<1>1. /\ Len(s) \in Nat /\ Len(s) >= 1 /\ Len(Tail(s)) = Len(s) - 1
      /\ Head(s) = s[1]
  OBVIOUS
<1>2. PICK n \in Nat : n = Len(s) /\ n >= 1
  BY <1>1
<1>3. \A i \in 1..(n - 1) : Tail(s)[i] = s[i + 1] /\ i + 1 \in 1..n
  BY <1>2
<1>4. /\ IdsIn(s) = {s[i] : i \in 1..n}
      /\ IdsIn(Tail(s)) = {Tail(s)[i] : i \in 1..(n - 1)}
  BY <1>1, <1>2 DEF IdsIn
<1>5. \A i \in 1..n : i = 1 \/ (i - 1 \in 1..(n - 1) /\ (i - 1) + 1 = i)
  BY <1>2
<1>6. IdsIn(s) = {Head(s)} \cup IdsIn(Tail(s))
  <2>1. 1 \in 1..n
    BY <1>2
  <2>2. IdsIn(s) \subseteq {Head(s)} \cup IdsIn(Tail(s))
    <3> SUFFICES ASSUME NEW i \in 1..n
                 PROVE  s[i] \in {Head(s)} \cup {Tail(s)[k] : k \in 1..(n - 1)}
      BY <1>4
    <3>1. CASE i = 1
      BY <1>1, <3>1
    <3>2. CASE i # 1
      <4>1. i - 1 \in 1..(n - 1) /\ Tail(s)[i - 1] = s[(i - 1) + 1]
        BY <1>3, <1>5, <3>2
      <4>2. Tail(s)[i - 1] = s[i]
        BY <1>5, <3>2, <4>1
      <4> QED
        BY <4>1, <4>2
    <3> QED
      BY <3>1, <3>2
  <2>3. {Head(s)} \cup IdsIn(Tail(s)) \subseteq IdsIn(s)
    BY <1>1, <1>3, <1>4, <2>1
  <2> QED
    BY <2>2, <2>3
<1>7. \A j, l \in 1..n : j < l => s[j] < s[l]
  BY <1>2 DEF Ascending
<1>8. Ascending(Tail(s))
  <2> SUFFICES ASSUME NEW j \in 1..(n - 1), NEW l \in 1..(n - 1), j < l
               PROVE  Tail(s)[j] < Tail(s)[l]
    BY <1>1, <1>2 DEF Ascending
  <2>1. j + 1 \in 1..n /\ l + 1 \in 1..n /\ j + 1 < l + 1
    BY <1>2
  <2> QED
    BY <1>3, <1>7, <2>1
<1>9. \A x \in IdsIn(Tail(s)) : Head(s) < x
  <2> SUFFICES ASSUME NEW l \in 1..(n - 1)
               PROVE  Head(s) < Tail(s)[l]
    BY <1>4
  <2>1. 1 \in 1..n /\ l + 1 \in 1..n /\ 1 < l + 1
    BY <1>2
  <2> QED
    BY <1>1, <1>3, <1>7, <2>1
<1> QED
  BY <1>6, <1>8, <1>9

\* An skb queued behind others.
LEMMA SkbAppend ==
  ASSUME NEW q \in Seq(Skb), NEW s \in Skb
  PROVE  /\ SkbIds(Append(q, s)) = SkbIds(q) \cup IdsIn(s)
         /\ InOrder(q) /\ Ascending(s)
              /\ (\A x \in SkbIds(q), y \in IdsIn(s) : x < y)
            => InOrder(Append(q, s))
<1>1. PICK n \in Nat : n = Len(q)
  OBVIOUS
<1>2. /\ Len(Append(q, s)) = n + 1 /\ Append(q, s)[n + 1] = s
      /\ \A i \in 1..n : Append(q, s)[i] = q[i]
  BY <1>1
<1>3. 1..(n + 1) = 1..n \cup {n + 1}
  BY <1>1
<1> DEFINE a == Append(q, s)
<1>4. /\ SkbIds(q) = UNION {IdsIn(q[i]) : i \in 1..n}
      /\ SkbIds(a) = UNION {IdsIn(a[i]) : i \in 1..(n + 1)}
  BY <1>1, <1>2 DEF SkbIds
<1> HIDE DEF a
<1>5. /\ a[n + 1] = s /\ Len(a) = n + 1
      /\ \A i \in 1..n : a[i] = q[i]
  BY <1>2 DEF a
<1>6. SkbIds(a) = SkbIds(q) \cup IdsIn(s)
  <2>1. SkbIds(a) \subseteq SkbIds(q) \cup IdsIn(s)
    <3> SUFFICES ASSUME NEW i \in 1..(n + 1), NEW x \in IdsIn(a[i])
                 PROVE  x \in SkbIds(q) \cup IdsIn(s)
      BY <1>4
    <3>1. CASE i \in 1..n
      BY <1>4, <1>5, <3>1
    <3>2. CASE i = n + 1
      BY <1>5, <3>2
    <3> QED
      BY <1>3, <3>1, <3>2
  <2>2. IdsIn(s) \subseteq SkbIds(a)
    <3>1. n + 1 \in 1..(n + 1)
      BY <1>1
    <3> QED
      BY <1>4, <1>5, <3>1
  <2>3. SkbIds(q) \subseteq SkbIds(a)
    BY <1>3, <1>4, <1>5
  <2> QED
    BY <2>1, <2>2, <2>3
<1>7. ASSUME InOrder(q), Ascending(s),
             \A x \in SkbIds(q), y \in IdsIn(s) : x < y
      PROVE  InOrder(a)
  <2>1. \A i \in 1..(n + 1) : Ascending(a[i])
    BY <1>1, <1>3, <1>5, <1>7 DEF InOrder
  <2>2. ASSUME NEW i \in 1..(n + 1), NEW k \in 1..(n + 1), i < k,
               NEW x \in IdsIn(a[i]), NEW y \in IdsIn(a[k])
        PROVE  x < y
    <3>1. i \in 1..n
      BY <1>1, <2>2
    <3>2. CASE k \in 1..n
      <4>1. x \in IdsIn(q[i]) /\ y \in IdsIn(q[k])
        BY <1>5, <2>2, <3>1, <3>2
      <4> QED
        BY <1>1, <1>7, <2>2, <3>1, <3>2, <4>1 DEF InOrder
    <3>3. CASE k = n + 1
      <4>1. x \in SkbIds(q) /\ y \in IdsIn(s)
        BY <1>4, <1>5, <2>2, <3>1, <3>3
      <4> QED
        BY <1>7, <4>1
    <3> QED
      BY <1>3, <3>2, <3>3
  <2> QED
    BY <1>5, <2>1, <2>2 DEF InOrder
<1> QED
  BY <1>6, <1>7 DEF a

\* A queue of skbs without the first.
LEMMA SkbTail ==
  ASSUME NEW q \in Seq(Skb), q # <<>>, InOrder(q)
  PROVE  /\ SkbIds(q) = IdsIn(Head(q)) \cup SkbIds(Tail(q))
         /\ InOrder(Tail(q)) /\ Ascending(Head(q))
         /\ \A x \in IdsIn(Head(q)), y \in SkbIds(Tail(q)) : x < y
<1>1. /\ Len(q) \in Nat /\ Len(q) >= 1 /\ Len(Tail(q)) = Len(q) - 1
      /\ Head(q) = q[1]
  OBVIOUS
<1>2. PICK n \in Nat : n = Len(q) /\ n >= 1
  BY <1>1
<1>3. \A i \in 1..(n - 1) : Tail(q)[i] = q[i + 1] /\ i + 1 \in 1..n
  BY <1>2
<1> DEFINE t == Tail(q)
<1>4. /\ SkbIds(q) = UNION {IdsIn(q[i]) : i \in 1..n}
      /\ SkbIds(t) = UNION {IdsIn(t[i]) : i \in 1..(n - 1)}
  BY <1>1, <1>2 DEF SkbIds
<1>5. Len(t) = n - 1 /\ \A i \in 1..(n - 1) : t[i] = q[i + 1] /\ i + 1 \in 1..n
  BY <1>1, <1>2, <1>3
<1> HIDE DEF t
<1>6. /\ \A i \in 1..n : i = 1 \/ (i - 1 \in 1..(n - 1) /\ (i - 1) + 1 = i)
      /\ 1 \in 1..n
  BY <1>2
<1>7. SkbIds(q) = IdsIn(q[1]) \cup SkbIds(t)
  <2>1. SkbIds(q) \subseteq IdsIn(q[1]) \cup SkbIds(t)
    <3> SUFFICES ASSUME NEW i \in 1..n, NEW x \in IdsIn(q[i])
                 PROVE  x \in IdsIn(q[1]) \cup SkbIds(t)
      BY <1>4
    <3>1. CASE i # 1
      <4>1. i - 1 \in 1..(n - 1) /\ t[i - 1] = q[i]
        BY <1>5, <1>6, <3>1
      <4> QED
        BY <1>4, <4>1
    <3> QED
      BY <3>1
  <2>2. IdsIn(q[1]) \cup SkbIds(t) \subseteq SkbIds(q)
    BY <1>4, <1>5, <1>6
  <2> QED
    BY <2>1, <2>2
<1>8. /\ \A i \in 1..n : Ascending(q[i])
      /\ \A i, k \in 1..n :
           i < k => \A x \in IdsIn(q[i]), y \in IdsIn(q[k]) : x < y
  BY <1>2 DEF InOrder
<1>9. InOrder(t)
  <2>1. \A i \in 1..(n - 1) : Ascending(t[i])
    BY <1>5, <1>8
  <2>2. ASSUME NEW i \in 1..(n - 1), NEW k \in 1..(n - 1), i < k,
               NEW x \in IdsIn(t[i]), NEW y \in IdsIn(t[k])
        PROVE  x < y
    <3>1. i + 1 < k + 1 /\ x \in IdsIn(q[i + 1]) /\ y \in IdsIn(q[k + 1])
      BY <1>5, <2>2
    <3> QED
      BY <1>5, <1>8, <3>1
  <2> QED
    BY <1>5, <2>1, <2>2 DEF InOrder
<1>10. ASSUME NEW x \in IdsIn(q[1]), NEW y \in SkbIds(t)
       PROVE  x < y
  <2>1. PICK i \in 1..(n - 1) : y \in IdsIn(t[i])
    BY <1>4
  <2>2. 1 < i + 1 /\ y \in IdsIn(q[i + 1])
    BY <1>5, <2>1
  <2> QED
    BY <1>5, <1>6, <1>8, <2>2
<1> QED
  BY <1>1, <1>6, <1>7, <1>8, <1>9, <1>10 DEF t
\* Only the process that transmits has MPDUs, and they are all that the
\* op-mode holds.
LEMMA SenderHolds ==
  ASSUME TxInv, OrderInv, NEW p \in Procs, Transmitting(p)
  PROVE  /\ WithOpMode = IdsIn(mpdus[p])
         /\ \A q \in Procs : q # p => mpdus[q] = <<>>
         /\ \A s : mpdus' = [mpdus EXCEPT ![p] = s] => WithOpMode' = IdsIn(s)
<1>1. \A q \in Procs : q # p => mpdus[q] = <<>>
  BY DEF OrderInv, TxInv, OneTransmitter, Transmitting
<1>2. IdsIn(<<>>) = {}
  BY DEF IdsIn
<1>3. WithOpMode = IdsIn(mpdus[p])
  BY <1>1, <1>2 DEF WithOpMode
<1>4. ASSUME NEW s, mpdus' = [mpdus EXCEPT ![p] = s]
      PROVE  WithOpMode' = IdsIn(s)
  <2>1. mpdus'[p] = s /\ \A q \in Procs : q # p => mpdus'[q] = <<>>
    BY <1>1, <1>4 DEF TxInv, TypeOK
  <2>2. WithOpMode' = UNION {IdsIn(mpdus'[q]) : q \in Procs}
    BY DEF WithOpMode, IdsIn
  <2> QED
    BY <1>2, <2>1, <2>2
<1> QED
  BY <1>1, <1>3, <1>4

\* mac80211's queue, before and after a step.
LEMMA MacIds == /\ WithMac80211 = SkbIds(itxq)
                /\ WithMac80211' = SkbIds(itxq')
BY DEF WithMac80211, SkbIds, IdsIn

\* What is held are the numbers of frames that arrived.
LEMMA HeldRange ==
  ASSUME TxInv, OrderInv
  PROVE  /\ arrived \in Nat /\ Held \subseteq 1..arrived
         /\ \E h \in 0..arrived : Held = (h + 1)..arrived /\ Handed = h
<1>1. arrived \in Nat
  BY TxQueueAssumption DEF TxInv, TypeOK
<1>2. PICK h \in 0..arrived : Held = (h + 1)..arrived
  BY DEF OrderInv
<1>3. Cardinality((h + 1)..arrived) = arrived - h
  <2>1. h + 1 \in Int /\ arrived \in Int
    BY <1>1
  <2>2. Cardinality((h + 1)..arrived) =
          IF h + 1 > arrived THEN 0 ELSE arrived - (h + 1) + 1
    BY <2>1, FS_Interval
  <2> QED
    BY <1>1, <2>2
<1>4. Handed = h
  <2>1. Handed = arrived - Cardinality(Held)
    BY DEF Handed, Held
  <2>2. Cardinality(Held) = arrived - h
    BY <1>2, <1>3
  <2>3. PICK a \in Nat : a = arrived
    BY <1>1
  <2>4. h \in Int /\ a - (a - h) = h
    BY <1>2, <2>3
  <2> QED
    BY <2>1, <2>2, <2>3, <2>4
<1> QED
  BY <1>1, <1>2, <1>4

\* New frames are the last ones.
LEMMA QueueOrder ==
  ASSUME TxInv, OrderInv, NEW p \in Threads, NEW n \in Bursts, Queue(p, n)
  PROVE  OrderInv' /\ Held' = Held \cup (arrived + 1)..(arrived + n)
<1>1. /\ p \in Procs /\ n \in Nat \ {0} /\ arrived \in Nat
      /\ itxq \in Seq(Skb) /\ pc \in [Procs -> Labels]
  BY TxQueueAssumption DEF Procs, TxInv, TypeOK
<1>2. PICK a \in Nat : a = arrived
  BY <1>1
<1> DEFINE s == [i \in 1..n |-> arrived + i]
<1>3. /\ itxq' = Append(itxq, s) /\ arrived' = a + n /\ mpdus' = mpdus
      /\ pc[p] = "idle" /\ pc' = [pc EXCEPT ![p] = "enter"]
      /\ a + n <= MaxFrames
  BY <1>2 DEF Queue, Goto
<1>4. s \in Skb
  <2>1. \A i \in 1..n : arrived + i \in Frames
    BY <1>1, <1>2, <1>3, TxQueueAssumption DEF Frames
  <2>2. s \in Seq(Frames)
    BY <1>1, <2>1
  <2>3. 1 \in DOMAIN s
    BY <1>1
  <2>4. s # <<>>
    BY <2>3
  <2> QED
    BY <2>2, <2>4 DEF Skb
<1>5. Len(s) = n /\ \A i \in 1..n : s[i] = a + i
  BY <1>1, <1>2
<1> HIDE DEF s
<1>6. IdsIn(s) = (a + 1)..(a + n)
  <2>1. IdsIn(s) = {a + i : i \in 1..n}
    BY <1>5 DEF IdsIn
  <2>2. \A x \in (a + 1)..(a + n) : x - a \in 1..n /\ x = a + (x - a)
    BY <1>1
  <2>3. \A i \in 1..n : a + i \in (a + 1)..(a + n)
    BY <1>1
  <2> QED
    BY <2>1, <2>2, <2>3
<1>7. Ascending(s)
  BY <1>1, <1>5 DEF Ascending
<1>8. /\ Held \subseteq 1..a
      /\ \E h \in 0..a : Held = (h + 1)..a
  BY <1>2, HeldRange
<1>9. \A x \in SkbIds(itxq), y \in IdsIn(s) : x < y
  BY <1>1, <1>6, <1>8, MacIds DEF Held
<1>10. /\ SkbIds(itxq') = SkbIds(itxq) \cup IdsIn(s)
       /\ InOrder(itxq')
  BY <1>1, <1>3, <1>4, <1>7, <1>9, SkbAppend DEF OrderInv
<1>11. WithOpMode' = WithOpMode
  BY <1>3 DEF WithOpMode, IdsIn
<1>12. Held' = Held \cup (a + 1)..(a + n)
  BY <1>6, <1>10, <1>11, MacIds DEF Held
<1>13. \A x \in WithOpMode', y \in WithMac80211' : x < y
  <2>1. \A x \in WithOpMode, y \in (a + 1)..(a + n) : x < y
    BY <1>1, <1>8 DEF Held
  <2> QED
    BY <1>6, <1>10, <1>11, <2>1, MacIds DEF OrderInv
<1>14. \A q \in Procs : pc'[q] # "send" => mpdus'[q] = <<>>
  BY <1>1, <1>3 DEF OrderInv
<1>15. \E h \in 0..arrived' : Held' = (h + 1)..arrived'
  <2>1. PICK h \in 0..a : Held = (h + 1)..a
    BY <1>8
  <2>2. Held' = (h + 1)..(a + n)
    BY <1>1, <1>12, <2>1
  <2>3. h \in 0..(a + n)
    BY <1>1
  <2> QED
    BY <1>3, <2>2, <2>3
<1>16. \A q \in Procs : Ascending(mpdus'[q])
  BY <1>3 DEF OrderInv
<1>17. OrderInv'
  BY <1>10, <1>13, <1>14, <1>15, <1>16 DEF OrderInv, InOrder, Ascending, IdsIn
<1> QED
  BY <1>2, <1>12, <1>17

\* An skb that the op-mode takes keeps its frames held.
LEMMA DequeueOrder ==
  ASSUME TxInv, OrderInv, NEW p \in Procs, ieee80211_tx_dequeue(p)
  PROVE  OrderInv' /\ Held' = Held
<1>1. /\ itxq \in Seq(Skb) /\ pc \in [Procs -> Labels]
      /\ mpdus \in [Procs -> Seq(Frames)]
      /\ pc[p] = "dequeue" /\ arrived' = arrived /\ Transmitting(p)
  BY DEF TxInv, TypeOK, ieee80211_tx_dequeue, Transmitting
<1>2. CASE netif_stop' \/ itxq = <<>>
  <2>1. /\ UNCHANGED <<itxq, mpdus>> /\ pc' = [pc EXCEPT ![p] = "leave"]
    BY <1>2 DEF ieee80211_tx_dequeue, Goto
  <2>2. WithOpMode' = WithOpMode /\ WithMac80211' = WithMac80211
    BY <2>1 DEF WithOpMode, WithMac80211, IdsIn
  <2>3. \A q \in Procs : pc'[q] # "send" => mpdus'[q] = <<>>
    BY <1>1, <2>1 DEF OrderInv
  <2>4. Held' = Held
    BY <2>2 DEF Held
  <2>5. /\ \A x \in WithOpMode', y \in WithMac80211' : x < y
        /\ \E h \in 0..arrived' : Held' = (h + 1)..arrived'
    BY <1>1, <2>2, <2>4 DEF OrderInv
  <2>6. InOrder(itxq') /\ \A q \in Procs : Ascending(mpdus'[q])
    BY <2>1 DEF OrderInv
  <2>7. OrderInv'
    BY <2>3, <2>5, <2>6 DEF OrderInv, InOrder, Ascending, IdsIn
  <2> QED
    BY <2>4, <2>7
<1>3. CASE ~netif_stop' /\ itxq # <<>>
  <2>1. PICK s : s = Head(itxq)
    OBVIOUS
  <2>2. /\ mpdus' = [mpdus EXCEPT ![p] = s] /\ itxq' = Tail(itxq)
        /\ pc' = [pc EXCEPT ![p] = "send"]
    BY <1>3, <2>1 DEF ieee80211_tx_dequeue, Goto
  <2>3. /\ SkbIds(itxq) = IdsIn(s) \cup SkbIds(itxq')
        /\ InOrder(itxq') /\ Ascending(s)
        /\ \A x \in IdsIn(s), y \in SkbIds(itxq') : x < y
    BY <1>1, <1>3, <2>1, <2>2, SkbTail DEF OrderInv
  <2>4. WithOpMode' = IdsIn(s)
    BY <1>1, <2>2, SenderHolds
  <2>5. WithOpMode = {}
    <3>1. mpdus[p] = <<>>
      BY <1>1 DEF OrderInv
    <3> QED
      BY <1>1, <3>1, SenderHolds DEF IdsIn
  <2>6. Held' = Held
    BY <2>3, <2>4, <2>5, MacIds DEF Held
  <2>7. \A q \in Procs : pc'[q] # "send" => mpdus'[q] = <<>>
    BY <1>1, <2>2 DEF OrderInv
  <2>8. \A q \in Procs : Ascending(mpdus'[q])
    BY <1>1, <2>2, <2>3 DEF OrderInv
  <2>9. \A x \in WithOpMode', y \in WithMac80211' : x < y
    BY <2>3, <2>4, MacIds
  <2>10. \E h \in 0..arrived' : Held' = (h + 1)..arrived'
    BY <1>1, <2>6 DEF OrderInv
  <2>11. OrderInv'
    BY <2>3, <2>7, <2>8, <2>9, <2>10 DEF OrderInv, InOrder, Ascending, IdsIn
  <2> QED
    BY <2>6, <2>11
<1> QED
  BY <1>2, <1>3

\* The MPDU that is sent is the first one held.
LEMMA SendOrder ==
  ASSUME TxInv, OrderInv, NEW p \in Procs, iwl_mvm_tx_mpdu(p)
  PROVE  /\ OrderInv' /\ Head(mpdus[p]) \in Held
         /\ Held' = Held \ {Head(mpdus[p])}
<1>1. /\ pc \in [Procs -> Labels] /\ mpdus \in [Procs -> Seq(Frames)]
      /\ pc[p] = "send" /\ mpdus[p] # <<>> /\ Transmitting(p)
      /\ UNCHANGED <<itxq, arrived>>
  BY DEF TxInv, TypeOK, iwl_mvm_tx_mpdu, Transmitting
<1>2. PICK s \in Seq(Frames) : s = mpdus[p]
  BY <1>1
<1>3. /\ mpdus' = [mpdus EXCEPT ![p] = Tail(s)]
      /\ pc' = [pc EXCEPT ![p] = IF Len(s) = 1 THEN "loop" ELSE "send"]
  BY <1>2 DEF iwl_mvm_tx_mpdu, Goto
<1>4. Ascending(s)
  BY <1>2 DEF OrderInv
<1>5. PICK x : x = Head(s)
  OBVIOUS
<1>6. /\ IdsIn(s) = {x} \cup IdsIn(Tail(s)) /\ Ascending(Tail(s))
      /\ \A y \in IdsIn(Tail(s)) : x < y
  BY <1>1, <1>2, <1>4, <1>5, TailIds
<1>7. WithOpMode = IdsIn(s) /\ WithOpMode' = IdsIn(Tail(s))
  BY <1>1, <1>2, <1>3, SenderHolds
<1>8. WithMac80211' = WithMac80211
  BY <1>1, MacIds
<1>9. x \in Held /\ \A y \in Held' : x < y
  BY <1>6, <1>7, <1>8 DEF Held, OrderInv
<1>10. PICK a \in Nat : a = arrived
  BY HeldRange
<1>11. PICK h \in 0..a : Held = (h + 1)..a
  BY <1>10 DEF OrderInv
<1>12. Held' = Held \ {x}
  <2>1. Held = {x} \cup Held'
    BY <1>6, <1>7, <1>8 DEF Held
  <2>2. x \notin Held'
    BY <1>9, <1>10, <1>11
  <2> QED
    BY <2>1, <2>2
<1>13. x = h + 1 /\ Held' = (h + 2)..a
  <2>1. x \in Int /\ h + 1 <= x /\ x <= a
    BY <1>9, <1>10, <1>11
  <2>2. h + 1 \in Held
    BY <1>10, <1>11, <2>1
  <2>3. ~(x > h + 1)
    BY <1>9, <1>12, <2>1, <2>2
  <2>4. x = h + 1
    BY <2>1, <2>3
  <2> QED
    BY <1>10, <1>11, <1>12, <2>4
<1>14. \E g \in 0..arrived' : Held' = (g + 1)..arrived'
  <2>1. h + 1 \in 0..a
    BY <1>9, <1>10, <1>11, <1>13
  <2>2. (h + 1) + 1 = h + 2
    BY <1>10
  <2> QED
    BY <1>1, <1>10, <1>13, <2>1, <2>2
<1>15. \A q \in Procs : pc'[q] # "send" => mpdus'[q] = <<>>
  <2>1. Len(s) = 1 => Tail(s) = <<>>
    <3>1. Tail(s) \in Seq(Frames) /\ (Len(s) = 1 => Len(Tail(s)) = 0)
      BY <1>1, <1>2
    <3>2. \A t \in Seq(Frames) : Len(t) = 0 => t = <<>>
      OBVIOUS
    <3> QED
      BY <3>1, <3>2
  <2> QED
    BY <1>1, <1>3, <2>1 DEF OrderInv
<1>16. \A q \in Procs : Ascending(mpdus'[q])
  BY <1>1, <1>3, <1>6 DEF OrderInv
<1>17. \A y \in WithOpMode', z \in WithMac80211' : y < z
  BY <1>6, <1>7, <1>8 DEF OrderInv
<1>18. InOrder(itxq')
  BY <1>1 DEF OrderInv
<1>19. OrderInv'
  BY <1>14, <1>15, <1>16, <1>17, <1>18 DEF OrderInv, InOrder, Ascending, IdsIn
<1> QED
  BY <1>2, <1>5, <1>9, <1>12, <1>19
\* An skb that is dropped, MPDUs sent before apart, is the first one held.
LEMMA DropOrder ==
  ASSUME TxInv, OrderInv, NEW p \in Procs, iwl_mvm_tx_skb_drop(p)
  PROVE  /\ OrderInv' /\ IdsIn(mpdus[p]) \subseteq Held
         /\ Held' = Held \ IdsIn(mpdus[p])
<1>1. /\ pc \in [Procs -> Labels] /\ mpdus \in [Procs -> Seq(Frames)]
      /\ pc[p] = "send" /\ mpdus[p] # <<>> /\ Transmitting(p)
      /\ UNCHANGED <<itxq, arrived>>
      /\ mpdus' = [mpdus EXCEPT ![p] = <<>>]
      /\ pc' = [pc EXCEPT ![p] = "loop"]
  BY DEF TxInv, TypeOK, iwl_mvm_tx_skb_drop, Transmitting, Goto
<1>2. PICK s \in Seq(Frames) : s = mpdus[p]
  BY <1>1
<1>3. PICK n \in Nat : n = Len(s) /\ n >= 1
  BY <1>1, <1>2
<1>4. WithOpMode = IdsIn(s) /\ WithOpMode' = {}
  <2>1. WithOpMode = IdsIn(s) /\ WithOpMode' = IdsIn(<<>>)
    BY <1>1, <1>2, SenderHolds
  <2>2. IdsIn(<<>>) = {}
    BY DEF IdsIn
  <2> QED
    BY <2>1, <2>2
<1>5. WithMac80211' = WithMac80211
  BY <1>1, MacIds
<1>6. PICK a \in Nat : a = arrived
  BY HeldRange
<1>7. PICK h \in 0..a : Held = (h + 1)..a
  BY <1>6 DEF OrderInv
<1>8. s[n] \in IdsIn(s) /\ \A x \in IdsIn(s) : x <= s[n]
  <2>1. \A j, l \in 1..n : j < l => s[j] < s[l]
    BY <1>2, <1>3 DEF OrderInv, Ascending
  <2>2. \A j \in 1..n : s[j] \in Int
    BY <1>3, TxQueueAssumption DEF Frames
  <2>3. n \in 1..n /\ \A j \in 1..n : j = n \/ j < n
    BY <1>3
  <2>4. \A j \in 1..n : s[j] <= s[n]
    BY <2>1, <2>2, <2>3
  <2> QED
    BY <1>3, <2>3, <2>4 DEF IdsIn
<1>9. PICK z : z = s[n]
  OBVIOUS
<1>10. /\ z \in Held /\ Held = IdsIn(s) \cup Held'
       /\ \A x \in IdsIn(s) : x <= z
       /\ \A x \in Held' : z < x
  BY <1>4, <1>5, <1>8, <1>9 DEF Held, OrderInv
<1>11. Held' = (z + 1)..a /\ z \in 0..a /\ Held' = Held \ IdsIn(s)
  <2>1. /\ z \in Int /\ h + 1 <= z /\ z <= a
        /\ \A x \in Held : x \in Int /\ x <= a
    BY <1>6, <1>7, <1>10
  <2>2. \A x \in (z + 1)..a : x \in Held /\ ~(x <= z)
    BY <1>6, <1>7, <2>1
  <2>3. (z + 1)..a \subseteq Held'
    BY <1>10, <2>2
  <2>4. PICK K, L, H : K = Held' /\ L = IdsIn(s) /\ H = Held
    OBVIOUS
  <2>5. /\ \A x \in K : x \in H /\ z < x
        /\ \A x \in L : x \in H /\ x <= z
        /\ H = L \cup K /\ \A x \in H : x \in Int /\ x <= a
    BY <1>10, <2>1, <2>4
  <2>6. \A x \in K : x \in (z + 1)..a
    BY <1>6, <2>1, <2>5
  <2>7. \A x \in K : x \notin L
    BY <2>1, <2>5
  <2>8. K = H \ L
    BY <2>5, <2>7
  <2>9. K = (z + 1)..a
    BY <2>3, <2>4, <2>6
  <2>10. z \in 0..a
    BY <1>6, <1>7, <2>1
  <2> QED
    BY <2>4, <2>8, <2>9, <2>10
<1>12. \E g \in 0..arrived' : Held' = (g + 1)..arrived'
  BY <1>1, <1>6, <1>11
<1>13. \A q \in Procs : pc'[q] # "send" => mpdus'[q] = <<>>
  BY <1>1 DEF OrderInv
<1>14. \A q \in Procs : Ascending(mpdus'[q])
  <2>1. Ascending(<<>>)
    BY DEF Ascending
  <2> QED
    BY <1>1, <2>1 DEF OrderInv
<1>15. \A y \in WithOpMode', x \in WithMac80211' : y < x
  BY <1>4
<1>16. InOrder(itxq')
  BY <1>1 DEF OrderInv
<1>17. OrderInv'
  BY <1>12, <1>13, <1>14, <1>15, <1>16 DEF OrderInv, InOrder, Ascending, IdsIn
<1> QED
  BY <1>2, <1>10, <1>11, <1>17

\* A step that moves no frame before the transport.
LEMMA OtherOrder ==
  ASSUME OrderInv, UNCHANGED <<itxq, mpdus, arrived>>,
         \A q \in Procs : pc[q] = "send" => pc'[q] = "send"
  PROVE  OrderInv' /\ Held' = Held
<1>1. WithOpMode' = WithOpMode /\ WithMac80211' = WithMac80211
  BY DEF WithOpMode, WithMac80211, IdsIn
<1>2. Held' = Held
  BY <1>1 DEF Held
<1>3. /\ \A x \in WithOpMode', y \in WithMac80211' : x < y
      /\ \E h \in 0..arrived' : Held' = (h + 1)..arrived'
  BY <1>1, <1>2 DEF OrderInv
<1>4. InOrder(itxq') /\ \A q \in Procs : Ascending(mpdus'[q])
  BY DEF OrderInv
<1>5. \A q \in Procs : pc'[q] # "send" => mpdus'[q] = <<>>
  BY DEF OrderInv
<1>6. OrderInv'
  BY <1>3, <1>4, <1>5 DEF OrderInv, InOrder, Ascending, IdsIn
<1> QED
  BY <1>2, <1>6

-----------------------------------------------------------------------------
(* Every frame stays in one place.                                         *)

\* New frames are held.
LEMMA SplitQueue ==
  ASSUME NEW H, NEW R, NEW Q, NEW F, NEW c, NEW d, NEW l,
         NEW a \in Nat, NEW n \in Nat, Split(H, R, Q, F, c, d, l, a)
  PROVE  Split(H \cup (a + 1)..(a + n), R, Q, F, c, d, l, a + n)
<1>1. 1..(a + n) = 1..a \cup (a + 1)..(a + n)
  OBVIOUS
<1>2. 1..a \cap (a + 1)..(a + n) = {}
  OBVIOUS
<1> QED
  BY <1>1, <1>2, SMTT(30) DEF Split

\* A held frame goes to the ring, or to the overflow queue.
LEMMA SplitSend ==
  ASSUME NEW H, NEW R, NEW Q, NEW F, NEW c, NEW d, NEW l, NEW a,
         NEW x \in H, Split(H, R, Q, F, c, d, l, a)
  PROVE  /\ Split(H \ {x}, R \cup {x}, Q, F, c, d, l, a)
         /\ Split(H \ {x}, R, Q \cup {x}, F, c, d, l, a)
BY SMTT(30) DEF Split

\* Held frames are freed, but for one that is forgotten.
LEMMA SplitDrop ==
  ASSUME NEW H, NEW R, NEW Q, NEW F, NEW c, NEW d, NEW l, NEW a, NEW x, NEW D,
         {x} \cup D \subseteq H, x \notin D, Split(H, R, Q, F, c, d, l, a)
  PROVE  Split(H \ ({x} \cup D), R, Q, F, c, d \cup D, l \cup {x}, a)
BY SMTT(30) DEF Split

\* Frames on the ring are given back, and the overflow queue may be taken
\* over when the list it goes to is empty.
LEMMA SplitReclaim ==
  ASSUME NEW H, NEW R, NEW Q, NEW F, NEW c, NEW d, NEW l, NEW a, NEW X,
         X \subseteq R, Split(H, R, Q, F, c, d, l, a)
  PROVE  /\ Split(H, R \ X, Q, F, c \cup X, d, l, a)
         /\ F = {} => Split(H, R \ X, {}, Q, c \cup X, d, l, a)
BY SMTT(30) DEF Split

\* A frame of that list goes to the ring, the overflow queue or nowhere.
LEMMA SplitFlush ==
  ASSUME NEW H, NEW R, NEW Q, NEW F, NEW c, NEW d, NEW l, NEW a,
         NEW x \in F, Split(H, R, Q, F, c, d, l, a)
  PROVE  /\ Split(H, R \cup {x}, Q, F \ {x}, c, d, l, a)
         /\ Split(H, R, Q \cup {x}, F \ {x}, c, d, l, a)
         /\ Split(H, R, Q, F \ {x}, c, d, l \cup {x}, a)
BY SMTT(30) DEF Split
\* A frame put at the end of a list of the transport.
LEMMA ListAppend ==
  ASSUME NEW q \in Seq(Frame), NEW f \in Frame
  PROVE  /\ IdsOf(Append(q, f)) = IdsOf(q) \cup {f.id}
         /\ Distinct(q) /\ f.id \notin IdsOf(q) => Distinct(Append(q, f))
<1>1. PICK n \in Nat : n = Len(q)
  OBVIOUS
<1> DEFINE a == Append(q, f)
<1>2. /\ Len(a) = n + 1 /\ a[n + 1] = f
      /\ \A i \in 1..n : a[i] = q[i]
  BY <1>1
<1> HIDE DEF a
<1>3. 1..(n + 1) = 1..n \cup {n + 1} /\ n + 1 \notin 1..n
  BY <1>1
<1>4. /\ IdsOf(q) = {q[i].id : i \in 1..n}
      /\ IdsOf(a) = {a[i].id : i \in 1..(n + 1)}
  BY <1>1, <1>2 DEF IdsOf
<1>5. IdsOf(a) = IdsOf(q) \cup {f.id}
  <2>1. IdsOf(a) \subseteq IdsOf(q) \cup {f.id}
    BY <1>2, <1>3, <1>4
  <2>2. f.id \in IdsOf(a)
    <3>1. n + 1 \in 1..(n + 1)
      BY <1>1
    <3> QED
      BY <1>2, <1>4, <3>1
  <2>3. IdsOf(q) \subseteq IdsOf(a)
    BY <1>2, <1>3, <1>4
  <2> QED
    BY <2>1, <2>2, <2>3
<1>6. ASSUME Distinct(q), f.id \notin IdsOf(q)
      PROVE  Distinct(a)
  <2>1. /\ \A i, j \in 1..n : q[i].id = q[j].id => i = j
        /\ \A i \in 1..n : q[i].id # f.id
    BY <1>1, <1>4, <1>6 DEF Distinct
  <2>2. \A i, j \in 1..(n + 1) : a[i].id = a[j].id => i = j
    BY <1>2, <1>3, <2>1, Zenon
  <2> QED
    BY <1>2, <2>2 DEF Distinct
<1> QED
  BY <1>5, <1>6 DEF a

\* A list of the transport without its first frame.
LEMMA ListTail ==
  ASSUME NEW q \in Seq(Frame), q # <<>>, Distinct(q)
  PROVE  /\ Head(q).id \in IdsOf(q)
         /\ IdsOf(Tail(q)) = IdsOf(q) \ {Head(q).id}
         /\ Distinct(Tail(q))
<1>1. /\ Len(q) \in Nat /\ Len(q) >= 1 /\ Len(Tail(q)) = Len(q) - 1
      /\ Head(q) = q[1]
  OBVIOUS
<1>2. PICK n \in Nat : n = Len(q) /\ n >= 1
  BY <1>1
<1> DEFINE t == Tail(q)
<1>3. Len(t) = n - 1 /\ \A i \in 1..(n - 1) : t[i] = q[i + 1] /\ i + 1 \in 1..n
  BY <1>1, <1>2
<1> HIDE DEF t
<1>4. /\ IdsOf(q) = {q[i].id : i \in 1..n}
      /\ IdsOf(t) = {t[i].id : i \in 1..(n - 1)}
  BY <1>2, <1>3 DEF IdsOf
<1>5. \A i, j \in 1..n : q[i].id = q[j].id => i = j
  BY <1>2 DEF Distinct
<1>6. /\ 1 \in 1..n /\ \A i \in 1..(n - 1) : i + 1 # 1
      /\ \A i \in 1..n : i = 1 \/ (i - 1 \in 1..(n - 1) /\ (i - 1) + 1 = i)
  BY <1>2
<1>7. q[1].id \in IdsOf(q)
  BY <1>4, <1>6
<1>8. IdsOf(t) \subseteq IdsOf(q) \ {q[1].id}
  BY <1>3, <1>4, <1>5, <1>6
<1>9. IdsOf(q) \ {q[1].id} \subseteq IdsOf(t)
  <2> SUFFICES ASSUME NEW i \in 1..n, q[i].id # q[1].id
               PROVE  q[i].id \in IdsOf(t)
    BY <1>4
  <2>1. i - 1 \in 1..(n - 1) /\ t[i - 1] = q[i]
    BY <1>3, <1>6
  <2> QED
    BY <1>4, <2>1
<1>10. Distinct(t)
  <2> SUFFICES ASSUME NEW i \in 1..(n - 1), NEW j \in 1..(n - 1),
                      t[i].id = t[j].id
               PROVE  i = j
    BY <1>3 DEF Distinct
  <2>1. /\ i + 1 \in 1..n /\ j + 1 \in 1..n
        /\ t[i] = q[i + 1] /\ t[j] = q[j + 1]
    BY <1>3
  <2>2. q[i + 1].id = q[j + 1].id
    BY <2>1
  <2>3. i + 1 = j + 1
    BY <1>5, <2>1, <2>2, Zenon
  <2> QED
    BY <1>2, <2>3
<1> QED
  BY <1>1, <1>7, <1>8, <1>9, <1>10 DEF t

\* A frame the transport takes, and does not hold yet, is put in one place.
LEMMA TxPlaces ==
  ASSUME TypeOK, RingOnce, Distinct(overflow_q), NEW f \in Frame,
         f.id \notin InRing, f.id \notin IdsOf(overflow_q),
         Overflow(f) \/ OnRing(f)
  PROVE  /\ RingOnce' /\ Distinct(overflow_q')
         /\ \/ /\ InRing' = InRing \cup {f.id}
               /\ IdsOf(overflow_q') = IdsOf(overflow_q)
            \/ /\ InRing' = InRing
               /\ IdsOf(overflow_q') = IdsOf(overflow_q) \cup {f.id}
<1>1. CASE Overflow(f)
  <2>1. InRing' = InRing /\ RingOnce'
    BY <1>1, RingKept
  <2>2. overflow_q \in Seq(Frame) /\ overflow_q' = Append(overflow_q, f)
    BY <1>1 DEF Overflow, TypeOK
  <2>3. /\ IdsOf(overflow_q') = IdsOf(overflow_q) \cup {f.id}
        /\ Distinct(overflow_q')
    BY <2>2, ListAppend
  <2> QED
    BY <2>1, <2>3
<1>2. CASE OnRing(f)
  BY <1>2, RingPutSet DEF OnRing
<1> QED
  BY <1>1, <1>2

\* What the invariant says of the next state, and what a step keeps: a frame
\* that is done with, on the ring or with the transport at all stays so.
PlaceNext ==
  /\ Split(Held', InRing', IdsOf(overflow_q'), IdsOf(flush'),
           reclaimed', freed', leaked', arrived')
  /\ RingOnce' /\ Distinct(overflow_q') /\ Distinct(flush')
  /\ pc'[Rx] # "flush" => flush' = <<>>
Kept ==
  /\ Ends \subseteq Ends'
  /\ InRing \cup Ends \subseteq InRing' \cup Ends'
  /\ InTransport \cup Ends \subseteq InTransport' \cup Ends'

LEMMA PlacePrimed ==
  /\ PlaceNext => PlaceInv'
  /\ Ends' = reclaimed' \cup freed' \cup leaked'
  /\ InTransport' = InRing' \cup IdsOf(overflow_q') \cup IdsOf(flush')
<1>1. /\ IdsOf(overflow_q)' = IdsOf(overflow_q')
      /\ IdsOf(flush)' = IdsOf(flush')
  BY DEF IdsOf
<1>2. /\ Distinct(overflow_q)' = Distinct(overflow_q')
      /\ Distinct(flush)' = Distinct(flush')
  BY DEF Distinct
<1>3. PlaceNext => PlaceInv'
  BY <1>1, <1>2 DEF PlaceNext, PlaceInv, Split
<1> QED
  BY <1>1, <1>3 DEF Ends, InTransport
\* A step that leaves the ring, the lists and what is done with alone.
LEMMA OtherPlace ==
  ASSUME PlaceInv, Held' = Held,
         UNCHANGED <<ringVars, overflow_q, flush, endVars, arrived>>,
         pc'[Rx] # "flush" => pc[Rx] # "flush" \/ flush = <<>>
  PROVE  PlaceInv' /\ Kept
<1>1. InRing' = InRing /\ (RingOnce => RingOnce')
  BY DEF ringVars, InRing, Used, RingOnce, RingId, Slot
<1>2. PlaceNext
  BY <1>1 DEF PlaceNext, PlaceInv, endVars
<1>3. Kept
  BY <1>1, PlacePrimed DEF Kept, Ends, InTransport, endVars
<1> QED
  BY <1>2, <1>3, PlacePrimed

\* mac80211 queues an skb.
LEMMA QueuePlace ==
  ASSUME TxInv, OrderInv, PlaceInv, NEW p \in Threads, NEW n \in Bursts,
         Queue(p, n)
  PROVE  PlaceInv' /\ Kept
<1>1. Held' = Held \cup (arrived + 1)..(arrived + n)
  BY QueueOrder
<1>2. /\ UNCHANGED <<ringVars, overflow_q, flush, endVars>>
      /\ arrived' = arrived + n /\ pc'[Rx] = pc[Rx]
      /\ arrived \in Nat /\ n \in Nat
  BY TxQueueAssumption
     DEF Queue, ovfVars, Goto, TxInv, TypeOK, Procs
<1>3. InRing' = InRing /\ (RingOnce => RingOnce')
  BY <1>2 DEF ringVars, InRing, Used, RingOnce, RingId, Slot
<1>4. Split(Held', InRing, IdsOf(overflow_q), IdsOf(flush),
            reclaimed, freed, leaked, arrived')
  BY <1>1, <1>2, SplitQueue DEF PlaceInv
<1>5. PlaceNext
  BY <1>2, <1>3, <1>4 DEF PlaceNext, PlaceInv, endVars
<1>6. Kept
  BY <1>2, <1>3, PlacePrimed DEF Kept, Ends, InTransport, endVars
<1> QED
  BY <1>5, <1>6, PlacePrimed

\* The transport takes an MPDU.
LEMMA SendPlace ==
  ASSUME TxInv, OrderInv, PlaceInv, NEW p \in Procs, iwl_mvm_tx_mpdu(p)
  PROVE  PlaceInv' /\ Kept
<1>1. /\ mpdus[p] \in Seq(Frames) /\ mpdus[p] # <<>> /\ seq_number \in Positions
      /\ pc \in [Procs -> Labels] /\ pc[p] = "send" /\ TypeOK
  BY DEF TxInv, TypeOK, iwl_mvm_tx_mpdu
<1>2. PICK f : f = [id |-> Head(mpdus[p]), seq |-> seq_number]
  OBVIOUS
<1>3. f \in Frame /\ f.id = Head(mpdus[p])
  BY <1>1, <1>2, HeadTail, TxQueueAssumption DEF Frame, Frames
<1>4. PICK x : x = Head(mpdus[p])
  OBVIOUS
<1>5. x \in Held /\ Held' = Held \ {x}
  BY <1>4, SendOrder
<1>6. /\ Overflow(f) \/ OnRing(f)
      /\ UNCHANGED <<flush, endVars, arrived>>
      /\ pc'[Rx] # "flush" => flush = <<>>
  <2>1. \A l : pc' = [pc EXCEPT ![p] = l] /\ l # "flush" /\ pc'[Rx] # "flush"
               => pc[Rx] # "flush"
    BY <1>1 DEF Procs
  <2> QED
    BY <1>2, <2>1 DEF iwl_mvm_tx_mpdu, Goto, PlaceInv
<1>7. /\ Split(Held, InRing, IdsOf(overflow_q), IdsOf(flush),
               reclaimed, freed, leaked, arrived)
      /\ RingOnce /\ Distinct(overflow_q) /\ Distinct(flush)
  BY DEF PlaceInv
<1>8. x \notin InRing /\ x \notin IdsOf(overflow_q)
  BY <1>5, <1>7 DEF Split
<1>9. /\ RingOnce' /\ Distinct(overflow_q')
      /\ \/ /\ InRing' = InRing \cup {x}
            /\ IdsOf(overflow_q') = IdsOf(overflow_q)
         \/ /\ InRing' = InRing
            /\ IdsOf(overflow_q') = IdsOf(overflow_q) \cup {x}
  BY <1>1, <1>3, <1>4, <1>6, <1>7, <1>8, TxPlaces
<1>10. Split(Held', InRing', IdsOf(overflow_q'), IdsOf(flush),
             reclaimed, freed, leaked, arrived)
  <2>1. /\ Split(Held \ {x}, InRing \cup {x}, IdsOf(overflow_q),
                 IdsOf(flush), reclaimed, freed, leaked, arrived)
        /\ Split(Held \ {x}, InRing, IdsOf(overflow_q) \cup {x},
                 IdsOf(flush), reclaimed, freed, leaked, arrived)
    BY <1>5, <1>7, SplitSend
  <2> QED
    BY <1>5, <1>9, <2>1, Zenon
<1>11. PlaceNext
  BY <1>6, <1>7, <1>9, <1>10 DEF PlaceNext, endVars
<1>12. Kept
  BY <1>6, <1>9, PlacePrimed DEF Kept, Ends, InTransport, endVars
<1> QED
  BY <1>11, <1>12, PlacePrimed

\* The transport refuses one.
LEMMA DropPlace ==
  ASSUME TxInv, OrderInv, PlaceInv, NEW p \in Procs, iwl_mvm_tx_skb_drop(p)
  PROVE  PlaceInv' /\ Kept
<1>1. /\ mpdus[p] \in Seq(Frames) /\ mpdus[p] # <<>> /\ seq_number \in Positions
      /\ pc \in [Procs -> Labels] /\ pc[p] = "send" /\ TypeOK
      /\ Ascending(mpdus[p])
  BY DEF TxInv, TypeOK, iwl_mvm_tx_skb_drop, OrderInv
<1>2. PICK f : f = [id |-> Head(mpdus[p]), seq |-> seq_number]
  OBVIOUS
<1>3. f \in Frame /\ f.id = Head(mpdus[p])
  BY <1>1, <1>2, HeadTail, TxQueueAssumption DEF Frame, Frames
<1>4. PICK x, D : x = Head(mpdus[p]) /\ D = IdsIn(Tail(mpdus[p]))
  OBVIOUS
<1>5. /\ IdsIn(mpdus[p]) = {x} \cup D
      /\ x \in Int /\ \A y \in D : x < y
  BY <1>1, <1>3, <1>4, TailIds, HeadTail, TxQueueAssumption DEF Frames
<1>6. {x} \cup D \subseteq Held /\ Held' = Held \ ({x} \cup D) /\ x \notin D
  BY <1>5, DropOrder
<1>7. leaked' = leaked \cup {x} /\ freed' = freed \cup D
  <2>1. PICK s \in Seq(Frames) : s = mpdus[p] /\ s # <<>>
    BY <1>1
  <2>2. PICK n \in Nat : n = Len(s) /\ n >= 1
    BY <2>1
  <2>3. Len(Tail(s)) = n - 1 /\ \A i \in 1..(n - 1) : Tail(s)[i] = s[i + 1]
    BY <2>1, <2>2
  <2>4. /\ \A i \in 1..(n - 1) : i + 1 \in 2..n
        /\ \A i \in 2..n : i - 1 \in 1..(n - 1) /\ (i - 1) + 1 = i
    BY <2>2
  <2>5. D = {Tail(s)[i] : i \in 1..(n - 1)}
    BY <1>4, <2>1, <2>3 DEF IdsIn
  <2>6. D \subseteq {s[i] : i \in 2..n}
    BY <2>3, <2>4, <2>5
  <2>7. {s[i] : i \in 2..n} \subseteq D
    <3> SUFFICES ASSUME NEW i \in 2..n PROVE s[i] \in D
      OBVIOUS
    <3>1. i - 1 \in 1..(n - 1) /\ Tail(s)[i - 1] = s[i]
      BY <2>3, <2>4
    <3> QED
      BY <2>5, <3>1
  <2>8. /\ leaked' = leaked \cup {Head(mpdus[p])}
        /\ freed' = freed \cup {s[i] : i \in 2..n}
    BY <2>1, <2>2 DEF iwl_mvm_tx_skb_drop
  <2> QED
    BY <1>4, <2>6, <2>7, <2>8
<1>8. /\ TxError(f)
      /\ UNCHANGED <<overflow_q, flush, reclaimed, arrived>>
      /\ pc'[Rx] # "flush" => flush = <<>>
  <2>1. \A l : pc' = [pc EXCEPT ![p] = l] /\ l # "flush" /\ pc'[Rx] # "flush"
               => pc[Rx] # "flush"
    BY <1>1 DEF Procs
  <2> QED
    BY <1>2, <2>1 DEF iwl_mvm_tx_skb_drop, TxError, Goto, PlaceInv
<1>9. /\ Split(Held, InRing, IdsOf(overflow_q), IdsOf(flush),
               reclaimed, freed, leaked, arrived)
      /\ RingOnce /\ Distinct(overflow_q) /\ Distinct(flush)
  BY DEF PlaceInv
<1>10. InRing' = InRing /\ RingOnce'
  BY <1>1, <1>3, <1>8, <1>9, RingKept
<1>11. Split(Held', InRing, IdsOf(overflow_q), IdsOf(flush),
             reclaimed, freed', leaked', arrived)
  BY <1>6, <1>7, <1>9, SplitDrop
<1>12. PlaceNext
  BY <1>8, <1>9, <1>10, <1>11 DEF PlaceNext
<1>13. Kept
  BY <1>7, <1>8, <1>10, PlacePrimed DEF Kept, Ends, InTransport
<1> QED
  BY <1>12, <1>13, PlacePrimed

\* Frames are given back.
LEMMA ReclaimPlace ==
  ASSUME TxInv, PlaceInv, Held' = Held, NEW n \in 1..(QueueSize - 1),
         iwl_trans_pcie_reclaim(n)
  PROVE  PlaceInv' /\ Kept
<1>1. /\ TypeOK /\ pc \in [Procs -> Labels] /\ Rx \in Procs /\ pc[Rx] = "idle"
      /\ flush = <<>> /\ UNCHANGED <<freed, leaked, arrived>>
  BY DEF TxInv, TypeOK, Procs, PlaceInv, iwl_trans_pcie_reclaim, mvmVars
<1>2. /\ Split(Held, InRing, IdsOf(overflow_q), IdsOf(flush),
               reclaimed, freed, leaked, arrived)
      /\ RingOnce /\ Distinct(overflow_q) /\ Distinct(flush)
  BY DEF PlaceInv
<1>3. RingOnce'
  BY <1>1, <1>2, RingTake
<1>4. PICK X : /\ X \subseteq InRing /\ InRing' = InRing \ X
               /\ reclaimed' = reclaimed \cup X
  BY <1>1, <1>2, RingTake
<1>5. IdsOf(<<>>) = {} /\ Distinct(<<>>)
  BY DEF IdsOf, Distinct
<1>6. CASE /\ flush' = overflow_q /\ overflow_q' = <<>>
           /\ pc' = [pc EXCEPT ![Rx] = "flush"]
  <2>1. pc'[Rx] = "flush"
    BY <1>1, <1>6
  <2>2. Split(Held, InRing', {}, IdsOf(overflow_q), reclaimed', freed, leaked,
              arrived)
    BY <1>1, <1>2, <1>4, <1>5, SplitReclaim
  <2>3. PlaceNext
    BY <1>1, <1>2, <1>3, <1>5, <1>6, <2>1, <2>2 DEF PlaceNext
  <2>4. Kept
    BY <1>1, <1>4, <1>5, <1>6, PlacePrimed DEF Kept, Ends, InTransport
  <2> QED
    BY <2>3, <2>4, PlacePrimed
<1>7. CASE UNCHANGED <<overflow_q, flush, pc>>
  <2>1. Split(Held, InRing', IdsOf(overflow_q), IdsOf(flush), reclaimed',
              freed, leaked, arrived)
    BY <1>2, <1>4, SplitReclaim
  <2>2. PlaceNext
    BY <1>1, <1>2, <1>3, <1>7, <2>1 DEF PlaceNext
  <2>3. Kept
    BY <1>1, <1>4, <1>7, PlacePrimed DEF Kept, Ends, InTransport
  <2> QED
    BY <2>2, <2>3, PlacePrimed
<1> QED
  BY <1>6, <1>7 DEF iwl_trans_pcie_reclaim, Goto, ovfVars

\* The next frame of the overflow queue is sent, or lost.
LEMMA FlushPlace ==
  ASSUME TxInv, PlaceInv, Held' = Held, FlushOne \/ FlushFails
  PROVE  PlaceInv' /\ Kept
<1>1. /\ TypeOK /\ flush \in Seq(Frame) /\ flush # <<>> /\ pc[Rx] = "flush"
      /\ flush' = Tail(flush)
      /\ UNCHANGED <<pc, reclaimed, freed, arrived>>
  BY DEF TxInv, TypeOK, FlushOne, FlushFails, mvmVars, endVars
<1>2. /\ Split(Held, InRing, IdsOf(overflow_q), IdsOf(flush),
               reclaimed, freed, leaked, arrived)
      /\ RingOnce /\ Distinct(overflow_q) /\ Distinct(flush)
  BY DEF PlaceInv
<1>3. PICK f \in Frame : f = Head(flush)
  BY <1>1, HeadTail
<1>4. PICK x : x = f.id
  OBVIOUS
<1>5. /\ x \in IdsOf(flush) /\ IdsOf(flush') = IdsOf(flush) \ {x}
      /\ Distinct(flush')
  BY <1>1, <1>2, <1>3, <1>4, ListTail
<1>6. x \notin InRing /\ x \notin IdsOf(overflow_q)
  BY <1>2, <1>5 DEF Split
<1>7. CASE FlushOne
  <2>1. (Overflow(f) \/ OnRing(f)) /\ leaked' = leaked
    BY <1>3, <1>7 DEF FlushOne, endVars
  <2>2. /\ RingOnce' /\ Distinct(overflow_q')
        /\ \/ /\ InRing' = InRing \cup {x}
              /\ IdsOf(overflow_q') = IdsOf(overflow_q)
           \/ /\ InRing' = InRing
              /\ IdsOf(overflow_q') = IdsOf(overflow_q) \cup {x}
    BY <1>1, <1>2, <1>4, <1>6, <2>1, TxPlaces
  <2>3. Split(Held, InRing', IdsOf(overflow_q'), IdsOf(flush'),
              reclaimed, freed, leaked, arrived)
    <3>1. /\ Split(Held, InRing \cup {x}, IdsOf(overflow_q),
                   IdsOf(flush) \ {x}, reclaimed, freed, leaked, arrived)
          /\ Split(Held, InRing, IdsOf(overflow_q) \cup {x},
                   IdsOf(flush) \ {x}, reclaimed, freed, leaked, arrived)
      BY <1>2, <1>5, SplitFlush
    <3> QED
      BY <1>5, <2>2, <3>1, Zenon
  <2>4. PlaceNext
    BY <1>1, <1>5, <2>1, <2>2, <2>3 DEF PlaceNext
  <2>5. Kept
    BY <1>1, <1>5, <2>1, <2>2, PlacePrimed DEF Kept, Ends, InTransport
  <2> QED
    BY <2>4, <2>5, PlacePrimed
<1>8. CASE FlushFails
  <2>1. /\ TxError(f) /\ leaked' = leaked \cup {x} /\ overflow_q' = overflow_q
    BY <1>3, <1>4, <1>8 DEF FlushFails, TxError
  <2>2. InRing' = InRing /\ RingOnce'
    BY <1>1, <1>2, <2>1, RingKept
  <2>3. Split(Held, InRing, IdsOf(overflow_q), IdsOf(flush'),
              reclaimed, freed, leaked', arrived)
    <3>1. Split(Held, InRing, IdsOf(overflow_q), IdsOf(flush) \ {x},
                reclaimed, freed, leaked \cup {x}, arrived)
      BY <1>2, <1>5, SplitFlush
    <3> QED
      BY <1>5, <2>1, <3>1, Zenon
  <2>4. PlaceNext
    BY <1>1, <1>2, <1>5, <2>1, <2>2, <2>3 DEF PlaceNext
  <2>5. Kept
    BY <1>1, <1>5, <2>1, <2>2, PlacePrimed DEF Kept, Ends, InTransport
  <2> QED
    BY <2>4, <2>5, PlacePrimed
<1> QED
  BY <1>7, <1>8
\* Every step keeps the frames in order and each in its place.
LEMMA FramesNext ==
  ASSUME TxInv, OrderInv, PlaceInv, [Next]_vars
  PROVE  OrderInv' /\ PlaceInv' /\ Kept
<1>t. pc \in [Procs -> Labels] /\ Rx \in Procs /\ Threads \subseteq Procs
  BY DEF TxInv, TypeOK, Procs
<1>1. ASSUME UNCHANGED <<ringVars, overflow_q, flush, endVars, mvmVars>>,
             \A q \in Procs : pc[q] = "send" => pc'[q] = "send",
             pc'[Rx] # "flush" => pc[Rx] # "flush" \/ flush = <<>>
      PROVE  OrderInv' /\ PlaceInv' /\ Kept
  BY <1>1, OtherOrder, OtherPlace DEF mvmVars
<1>2. CASE UNCHANGED vars
  BY <1>1, <1>2 DEF vars, ovfVars
<1>3. ASSUME NEW p \in Threads, NEW n \in Bursts, Queue(p, n)
      PROVE  OrderInv' /\ PlaceInv' /\ Kept
  BY <1>3, QueueOrder, QueuePlace
<1>4. ASSUME NEW p \in Procs, Xmit(p)
      PROVE  OrderInv' /\ PlaceInv' /\ Kept
  <2>1. CASE itxq_xmit_enter(p) \/ itxq_xmit_loop(p) \/ itxq_xmit_leave(p)
    <3>1. /\ UNCHANGED <<ringVars, overflow_q, flush, endVars, itxq, mpdus,
                         arrived>>
          /\ pc[p] \in {"enter", "loop", "leave"}
          /\ \E l : pc' = [pc EXCEPT ![p] = l]
      BY <2>1 DEF itxq_xmit_enter, itxq_xmit_loop, itxq_xmit_leave, Goto,
         ovfVars, mvmVars
    <3>2. /\ \A q \in Procs : pc[q] = "send" => pc'[q] = "send"
          /\ pc[Rx] = "flush" => pc'[Rx] = "flush"
      BY <1>t, <3>1
    <3> QED
      BY <3>1, <3>2, OtherOrder, OtherPlace
  <2>2. CASE ieee80211_tx_dequeue(p)
    <3>1. /\ UNCHANGED <<ringVars, overflow_q, flush, endVars, arrived>>
          /\ pc[p] = "dequeue"
          /\ \E l : pc' = [pc EXCEPT ![p] = l]
      BY <2>2 DEF ieee80211_tx_dequeue, Goto, ovfVars
    <3>2. pc[Rx] = "flush" => pc'[Rx] = "flush"
      BY <1>t, <3>1
    <3> QED
      BY <2>2, <3>1, <3>2, DequeueOrder, OtherPlace
  <2>3. CASE iwl_mvm_tx_mpdu(p)
    BY <2>3, SendOrder, SendPlace
  <2>4. CASE iwl_mvm_tx_skb_drop(p)
    BY <2>4, DropOrder, DropPlace
  <2> QED
    BY <1>4, <2>1, <2>2, <2>3, <2>4 DEF Xmit
<1>5. ASSUME NEW n \in 1..(QueueSize - 1), iwl_trans_pcie_reclaim(n)
      PROVE  OrderInv' /\ PlaceInv' /\ Kept
  <2>1. /\ UNCHANGED <<itxq, mpdus, arrived>> /\ pc[Rx] = "idle"
        /\ pc' = pc \/ pc' = [pc EXCEPT ![Rx] = "flush"]
    BY <1>5 DEF iwl_trans_pcie_reclaim, mvmVars, Goto, ovfVars
  <2>2. \A q \in Procs : pc[q] = "send" => pc'[q] = "send"
    BY <1>t, <2>1
  <2>3. OrderInv' /\ Held' = Held
    BY <2>1, <2>2, OtherOrder
  <2> QED
    BY <1>5, <2>3, ReclaimPlace
<1>6. CASE ReclaimPath
  <2>1. CASE FlushOne \/ FlushFails
    <3>1. UNCHANGED <<itxq, mpdus, arrived, pc>>
      BY <2>1 DEF FlushOne, FlushFails, mvmVars
    <3>2. OrderInv' /\ Held' = Held
      BY <3>1, OtherOrder
    <3> QED
      BY <2>1, <3>2, FlushPlace
  <2>2. CASE FlushEnd \/ iwl_wake_queue \/ iwl_mvm_wake_sw_queue \/ Relock
    <3>1. /\ UNCHANGED <<ringVars, overflow_q, flush, endVars, mvmVars>>
          /\ pc[Rx] # "send" /\ \E l : pc' = [pc EXCEPT ![Rx] = l]
          /\ pc[Rx] # "flush" \/ flush = <<>>
      BY <2>2 DEF FlushEnd, iwl_wake_queue, iwl_mvm_wake_sw_queue, Relock,
         Goto, ovfVars
    <3>2. \A q \in Procs : pc[q] = "send" => pc'[q] = "send"
      BY <1>t, <3>1
    <3> QED
      BY <1>1, <3>1, <3>2
  <2> QED
    BY <1>6, <2>1, <2>2 DEF ReclaimPath
<1>7. CASE Wait
  BY <1>1, <1>7 DEF Wait, WaitStart, WaitPtr, WaitTest, WaitSample, WaitExit,
     WaitReturn, waitUnchanged, ovfVars
<1>8. CASE \/ iwl_pcie_txq_stuck_timer \/ FwError
           \/ \E freeze \in BOOLEAN : iwl_trans_pcie_freeze_txq_timer(freeze)
  BY <1>1, <1>8 DEF iwl_pcie_txq_stuck_timer, FwError,
     iwl_trans_pcie_freeze_txq_timer, ovfVars
<1>9. CASE Host
  <2>1. UNCHANGED <<ringVars, overflow_q, flush, endVars, mvmVars>>
    BY <1>9, HostSteps DEF hostUnchanged, ovfVars
  <2>2. \A q \in Procs : pc[q] = "send" => pc'[q] = "send"
    BY <1>9, <1>t, HostSteps
  <2>3. pc'[Rx] # "flush" => pc[Rx] # "flush"
    BY <1>9, <1>t, HostSteps
  <2> QED
    BY <1>1, <2>1, <2>2, <2>3
<1> QED
  BY <1>2, <1>3, <1>4, <1>5, <1>6, <1>7, <1>8, <1>9 DEF Next

\* In the initial state there are no frames.
LEMMA FramesInit == Init => OrderInv /\ PlaceInv
<1> SUFFICES ASSUME Init PROVE OrderInv /\ PlaceInv
  OBVIOUS
<1>1. TypeOK
  BY InitInv DEF TxInv
<1>2. Used = 0
  BY <1>1, UsedRange, TxQueueAssumption DEF Init, Used, TypeOK, Positions
<1>3. /\ itxq = <<>> /\ overflow_q = <<>> /\ flush = <<>> /\ arrived = 0
      /\ reclaimed = {} /\ freed = {} /\ leaked = {}
      /\ \A p \in Procs : mpdus[p] = <<>>
  BY DEF Init
<1>4. WithMac80211 = {} /\ WithOpMode = {} /\ Held = {}
  BY <1>3 DEF WithMac80211, WithOpMode, Held, IdsIn
<1>5. InRing = {} /\ RingOnce
  <2>1. 0..(Used - 1) = {}
    BY <1>2
  <2> QED
    BY <2>1, RingList DEF RingOnce
<1>6. IdsOf(overflow_q) = {} /\ IdsOf(flush) = {}
      /\ Distinct(overflow_q) /\ Distinct(flush)
  BY <1>3 DEF IdsOf, Distinct
<1>7. PlaceInv
  <2>1. Split({}, {}, {}, {}, {}, {}, {}, 0)
    BY DEF Split
  <2> QED
    BY <1>3, <1>4, <1>5, <1>6, <2>1 DEF PlaceInv
<1>8. OrderInv
  <2>1. 0 \in 0..arrived /\ {} = (0 + 1)..arrived
    BY <1>3
  <2>2. InOrder(itxq) /\ \A p \in Procs : Ascending(mpdus[p])
    BY <1>3 DEF InOrder, Ascending
  <2> QED
    BY <1>3, <1>4, <2>1, <2>2 DEF OrderInv
<1> QED
  BY <1>7, <1>8

\* Sets that split the first a numbers have a elements in all.
LEMMA SplitCount ==
  ASSUME NEW a \in Nat, NEW H, NEW R, NEW Q, NEW F, NEW c, NEW d, NEW l,
         Split(H, R, Q, F, c, d, l, a)
  PROVE  /\ \A S \in {H, R, Q, F, c, d, l} :
              S \subseteq 1..a /\ IsFiniteSet(S) /\ Cardinality(S) \in Nat
         /\ Cardinality(H) + Cardinality(R) + Cardinality(Q) + Cardinality(F)
              + Cardinality(c) + Cardinality(d) + Cardinality(l) = a
<1>1. IsFiniteSet(1..a) /\ Cardinality(1..a) = a
  BY FS_Interval
<1>2. \A S : S \subseteq 1..a => IsFiniteSet(S) /\ Cardinality(S) \in Nat
  BY <1>1, FS_Subset, FS_CardinalityType
<1>3. /\ H \subseteq 1..a /\ R \subseteq 1..a /\ Q \subseteq 1..a
      /\ F \subseteq 1..a /\ c \subseteq 1..a /\ d \subseteq 1..a
      /\ l \subseteq 1..a
  BY DEF Split
<1>4. \A S, T : /\ S \subseteq 1..a /\ T \subseteq 1..a /\ S \cap T = {}
                => Cardinality(S \cup T) = Cardinality(S) + Cardinality(T)
  <2> SUFFICES ASSUME NEW S, NEW T, S \subseteq 1..a, T \subseteq 1..a,
                      S \cap T = {}
               PROVE  Cardinality(S \cup T) = Cardinality(S) + Cardinality(T)
    OBVIOUS
  <2>1. Cardinality(S \cup T) =
          Cardinality(S) + Cardinality(T) - Cardinality(S \cap T)
    BY <1>2, FS_Union
  <2>2. Cardinality(S \cap T) = 0
    BY FS_EmptySet
  <2>3. Cardinality(S) \in Nat /\ Cardinality(T) \in Nat
    BY <1>2
  <2> QED
    BY <2>1, <2>2, <2>3
<1> DEFINE A1 == d \cup l
           A2 == c \cup A1
           A3 == F \cup A2
           A4 == Q \cup A3
           A5 == R \cup A4
           A6 == H \cup A5
<1>5. /\ A1 \subseteq 1..a /\ A2 \subseteq 1..a /\ A3 \subseteq 1..a
      /\ A4 \subseteq 1..a /\ A5 \subseteq 1..a /\ A6 = 1..a
      /\ d \cap l = {} /\ c \cap A1 = {} /\ F \cap A2 = {} /\ Q \cap A3 = {}
      /\ R \cap A4 = {} /\ H \cap A5 = {}
  BY <1>3 DEF Split
<1>6. /\ Cardinality(A1) = Cardinality(d) + Cardinality(l)
      /\ Cardinality(A2) = Cardinality(c) + Cardinality(A1)
      /\ Cardinality(A3) = Cardinality(F) + Cardinality(A2)
      /\ Cardinality(A4) = Cardinality(Q) + Cardinality(A3)
      /\ Cardinality(A5) = Cardinality(R) + Cardinality(A4)
      /\ a = Cardinality(H) + Cardinality(A5)
  <2>1. Cardinality(A1) = Cardinality(d) + Cardinality(l)
    BY <1>3, <1>4, <1>5
  <2> HIDE DEF A1
  <2>2. Cardinality(A2) = Cardinality(c) + Cardinality(A1)
    BY <1>3, <1>4, <1>5
  <2> HIDE DEF A2
  <2>3. Cardinality(A3) = Cardinality(F) + Cardinality(A2)
    BY <1>3, <1>4, <1>5
  <2> HIDE DEF A3
  <2>4. Cardinality(A4) = Cardinality(Q) + Cardinality(A3)
    BY <1>3, <1>4, <1>5
  <2> HIDE DEF A4
  <2>5. Cardinality(A5) = Cardinality(R) + Cardinality(A4)
    BY <1>3, <1>4, <1>5
  <2> HIDE DEF A5
  <2>6. Cardinality(A6) = Cardinality(H) + Cardinality(A5)
    BY <1>3, <1>4, <1>5
  <2> QED
    BY <1>1, <1>5, <2>1, <2>2, <2>3, <2>4, <2>5, <2>6
<1>7. \A S \in {H, R, Q, F, c, d, l} :
         S \subseteq 1..a /\ IsFiniteSet(S) /\ Cardinality(S) \in Nat
  BY <1>2, <1>3
<1> HIDE DEF A1, A2, A3, A4, A5, A6
<1> QED
  BY <1>6, <1>7
\* A listing without repetition has as many elements as it is long.
LEMMA ListCount ==
  ASSUME NEW n \in Nat, NEW T, NEW g \in [1..n -> T],
         \A x \in T : \E i \in 1..n : g[i] = x,
         \A i, j \in 1..n : g[i] = g[j] => i = j
  PROVE  Cardinality(T) = n
<1>1. g \in Surjection(1..n, T)
  BY DEF Surjection
<1>2. g \in Injection(1..n, T)
  BY DEF Injection, IsInjective
<1>3. IsFiniteSet(1..n) /\ Cardinality(1..n) = n
  BY FS_Interval
<1> QED
  BY <1>1, <1>2, <1>3, FS_Surjection

\* As many frames are on the ring, on the overflow queue and on the list the
\* reclaim took it to as their lengths say.
LEMMA PlaceCount ==
  ASSUME TxInv, PlaceInv
  PROVE  /\ Cardinality(InRing) = Used
         /\ Cardinality(IdsOf(overflow_q)) = Len(overflow_q)
         /\ Cardinality(IdsOf(flush)) = Len(flush)
         /\ Used \in Nat /\ Len(overflow_q) \in Nat /\ Len(flush) \in Nat
<1>1. Used \in Nat /\ Len(overflow_q) \in Nat /\ Len(flush) \in Nat
  <2>1. Used \in 0..(QueueSize - 1)
    BY UsedRange DEF Used, TxInv, TypeOK
  <2>2. Used \in Nat
    BY <2>1, TxQueueAssumption
  <2> QED
    BY <2>2 DEF TxInv, TypeOK
<1>2. \A q : Distinct(q) /\ Len(q) \in Nat => Cardinality(IdsOf(q)) = Len(q)
  <2> SUFFICES ASSUME NEW q, Distinct(q), Len(q) \in Nat
               PROVE  Cardinality(IdsOf(q)) = Len(q)
    OBVIOUS
  <2>1. PICK n \in Nat : n = Len(q)
    OBVIOUS
  <2>2. PICK g : g = [i \in 1..n |-> q[i].id]
    OBVIOUS
  <2>3. /\ g \in [1..n -> IdsOf(q)]
        /\ \A x \in IdsOf(q) : \E i \in 1..n : g[i] = x
        /\ \A i, j \in 1..n : g[i] = g[j] => i = j
    BY <2>1, <2>2 DEF IdsOf, Distinct
  <2> QED
    BY <2>1, <2>3, ListCount
<1>3. Cardinality(InRing) = Used
  <2>1. PICK n \in Nat : n = Used
    BY <1>1
  <2>2. PICK g : g = [i \in 1..n |-> RingId(i - 1)]
    OBVIOUS
  <2>3. /\ \A i \in 1..n : i - 1 \in 0..(n - 1)
        /\ \A k \in 0..(n - 1) : k + 1 \in 1..n /\ (k + 1) - 1 = k
        /\ \A i, j \in 1..n : i - 1 = j - 1 => i = j
    BY <2>1
  <2>4. InRing = {RingId(k) : k \in 0..(n - 1)}
    BY <2>1, RingList
  <2>5. ASSUME NEW x \in InRing
        PROVE  \E i \in 1..n : g[i] = x
    <3>1. PICK k \in 0..(n - 1) : x = RingId(k)
      BY <2>4
    <3>2. k + 1 \in 1..n /\ g[k + 1] = RingId(k)
      BY <2>2, <2>3
    <3> QED
      BY <3>1, <3>2
  <2>6. g \in [1..n -> InRing]
    BY <2>2, <2>3, <2>4
  <2>7. ASSUME NEW i \in 1..n, NEW j \in 1..n, g[i] = g[j]
        PROVE  i = j
    <3>1. RingId(i - 1) = RingId(j - 1)
      BY <2>2, <2>7
    <3>2. i - 1 = j - 1
      BY <2>1, <2>3, <3>1 DEF PlaceInv, RingOnce
    <3> QED
      BY <2>3, <3>2
  <2> QED
    BY <2>1, <2>5, <2>6, <2>7, ListCount
<1> QED
  BY <1>1, <1>2, <1>3 DEF PlaceInv

\* Together they are the frames that arrived.
LEMMA PlacesCounted == TxInv /\ OrderInv /\ PlaceInv => FramesConserved
<1> SUFFICES ASSUME TxInv, OrderInv, PlaceInv PROVE FramesConserved
  OBVIOUS
<1>1. PICK a \in Nat : a = arrived
  BY HeldRange
<1>2. PICK H, R, Q, F : /\ H = Held /\ R = InRing /\ Q = IdsOf(overflow_q)
                        /\ F = IdsOf(flush)
  OBVIOUS
<1>3. Split(H, R, Q, F, reclaimed, freed, leaked, a)
  BY <1>1, <1>2 DEF PlaceInv
<1>4. /\ \A S \in {H, R, Q, F, reclaimed, freed, leaked} :
           S \subseteq 1..a /\ IsFiniteSet(S) /\ Cardinality(S) \in Nat
      /\ Cardinality(H) + Cardinality(R) + Cardinality(Q) + Cardinality(F)
           + Cardinality(reclaimed) + Cardinality(freed)
           + Cardinality(leaked) = a
  BY <1>1, <1>3, SplitCount
<1>5. /\ Cardinality(R) = Used /\ Cardinality(Q) = Len(overflow_q)
      /\ Cardinality(F) = Len(flush)
      /\ Used \in Nat /\ Len(overflow_q) \in Nat /\ Len(flush) \in Nat
  BY <1>2, PlaceCount
<1>6. /\ Cardinality(H) = Cardinality(WithMac80211) + Cardinality(WithOpMode)
      /\ Cardinality(WithMac80211) \in Nat /\ Cardinality(WithOpMode) \in Nat
  <2>1. WithMac80211 \subseteq H /\ WithOpMode \subseteq H
        /\ H = WithMac80211 \cup WithOpMode
    BY <1>2 DEF Held
  <2>2. IsFiniteSet(H) /\ \A x \in H : x \in Int
    BY <1>1, <1>4
  <2>3. WithMac80211 \cap WithOpMode = {}
    <3>1. ASSUME NEW x \in WithMac80211, x \in WithOpMode PROVE FALSE
      <4>1. x < x /\ x \in Int
        BY <2>1, <2>2, <3>1 DEF OrderInv
      <4> QED
        BY <4>1
    <3> QED
      BY <3>1
  <2>4. /\ IsFiniteSet(WithMac80211) /\ IsFiniteSet(WithOpMode)
        /\ Cardinality(WithMac80211) \in Nat /\ Cardinality(WithOpMode) \in Nat
    BY <2>1, <2>2, FS_Subset, FS_CardinalityType
  <2>5. Cardinality(WithMac80211 \cup WithOpMode) =
          Cardinality(WithMac80211) + Cardinality(WithOpMode)
            - Cardinality(WithMac80211 \cap WithOpMode)
    BY <2>4, FS_Union
  <2>6. Cardinality(WithMac80211 \cap WithOpMode) = 0
    BY <2>3, FS_EmptySet
  <2> QED
    BY <2>1, <2>4, <2>5, <2>6
<1>7. WithMac80211 \cup WithOpMode \cup InTransport \cup reclaimed
        \cup freed \cup leaked = 1..arrived
  <2>1. H \cup R \cup Q \cup F \cup reclaimed \cup freed \cup leaked = 1..a
    BY <1>3 DEF Split
  <2>2. H = WithMac80211 \cup WithOpMode /\ InTransport = R \cup Q \cup F
    BY <1>2 DEF Held, InTransport
  <2> QED
    BY <1>1, <2>1, <2>2
<1>8. Cardinality(WithMac80211) + Cardinality(WithOpMode) + Used
        + Len(overflow_q) + Len(flush) + Cardinality(reclaimed)
        + Cardinality(freed) + Cardinality(leaked) = arrived
  <2>1. /\ Cardinality(reclaimed) \in Nat /\ Cardinality(freed) \in Nat
        /\ Cardinality(leaked) \in Nat
    BY <1>4
  <2>2. Cardinality(H) + Used + Len(overflow_q) + Len(flush)
          + Cardinality(reclaimed) + Cardinality(freed)
          + Cardinality(leaked) = a
    BY <1>4, <1>5
  <2> QED
    BY <1>1, <1>5, <1>6, <2>1, <2>2
<1> QED
  BY <1>7, <1>8 DEF FramesConserved

\* No frame is lost track of, held twice or given back twice between
\* mac80211's queue, the op-mode's loop, the ring, the overflow queue, the list
\* a reclaim takes it to and the frames that were given back or dropped, for
\* every ring size, segmentation and interleaving of the threads with the
\* receive handler.
THEOREM ConservedCorrect == Spec => []FramesConserved
<1> DEFINE I == TxInv /\ OrderInv /\ PlaceInv
<1>1. Init => I
  BY InitInv, FramesInit
<1>2. I /\ [Next]_vars => I'
  BY NextInv, FramesNext
<1>3. I => FramesConserved
  BY PlacesCounted
<1> QED
  BY <1>1, <1>2, <1>3, PTL DEF Spec

-----------------------------------------------------------------------------
(* The wait for an empty queue.                                            *)

\* What the wait knows of the frames the transport had been handed when it
\* began: they never go back, once it has seen the transport add nothing they
\* are on the ring or done with, and once it has then seen the ring empty they
\* are done with.
WaiterInv ==
  /\ flush # <<>> => overflow_tx
  /\ 1..waiter.owed \subseteq InTransport \cup Ends
  /\ waiter.pc \in {"ptr", "test", "sleep"} /\ ~waiter.ovf
       => 1..waiter.owed \subseteq InRing \cup Ends
  /\ waiter.pc \in {"drained", "empty"} => 1..waiter.owed \subseteq Ends

\* The frames handed to the transport are with it, or done with.
LEMMA HandedPlace ==
  ASSUME TxInv, OrderInv, PlaceInv
  PROVE  1..Handed \subseteq InTransport \cup Ends
<1>1. PICK a \in Nat : a = arrived
  BY HeldRange
<1>2. PICK h \in 0..a : Held = (h + 1)..a /\ Handed = h
  BY <1>1, HeldRange
<1>3. \A x \in 1..h : x \in 1..a /\ x \notin (h + 1)..a
  BY <1>1
<1>4. Held \cup InTransport \cup Ends = 1..a
  BY <1>1 DEF PlaceInv, Split, InTransport, Ends
<1> QED
  BY <1>2, <1>3, <1>4

\* A step other than the wait's keeps what it knows.
LEMMA WaiterKept ==
  ASSUME WaiterInv, Kept, waiter' = waiter, flush' # <<>> => overflow_tx'
  PROVE  WaiterInv'
BY DEF WaiterInv, Kept

\* The steps of the wait.
LEMMA WaiterWait ==
  ASSUME TxInv, OrderInv, PlaceInv, WaiterInv, Wait
  PROVE  WaiterInv'
<1>1. waiter \in Waiter
  BY DEF TxInv, TypeOK
<1>2. /\ InRing' = InRing /\ Ends' = Ends /\ InTransport' = InTransport
      /\ UNCHANGED <<flush, overflow_tx, read_ptr, write_ptr>>
  <2>1. UNCHANGED waitUnchanged
    BY DEF Wait, WaitStart, WaitPtr, WaitTest, WaitSample, WaitExit, WaitReturn
  <2> QED
    BY <2>1 DEF waitUnchanged, ringVars, ovfVars, endVars, InRing, Ends,
       InTransport, IdsOf, Used
<1>3. 1..0 = {}
  OBVIOUS
<1>4. ~TransAdds => InTransport \subseteq InRing
  <2>1. ~TransAdds => overflow_q = <<>> /\ flush = <<>>
    BY DEF TransAdds, WaiterInv
  <2>2. IdsOf(<<>>) = {}
    BY DEF IdsOf
  <2> QED
    BY <2>1, <2>2 DEF InTransport
<1>5. read_ptr = write_ptr => InRing = {}
  <2>1. read_ptr = write_ptr => Used = 0
    BY UsedRange, TxQueueAssumption DEF Used, TxInv, TypeOK, Positions
  <2>2. read_ptr = write_ptr => 0..(Used - 1) = {}
    BY <2>1
  <2> QED
    BY <2>2, RingList
<1>6. CASE WaitStart
  <2>1. /\ waiter'.pc = "ptr" /\ waiter'.ovf = TransAdds
        /\ waiter'.owed = Handed
    BY <1>6 DEF WaitStart, Idle
  <2>2. 1..Handed \subseteq InTransport \cup Ends
    BY HandedPlace
  <2> QED
    BY <1>2, <1>4, <2>1, <2>2 DEF WaiterInv
<1>7. CASE WaitPtr
  <2>1. /\ waiter.pc = "ptr" /\ waiter'.pc = "test" /\ waiter'.ovf = waiter.ovf
        /\ waiter'.owed = waiter.owed
    BY <1>1, <1>7 DEF WaitPtr, Waiter
  <2> QED
    BY <1>2, <2>1 DEF WaiterInv
<1>8. CASE WaitTest
  <2>1. /\ waiter.pc = "test" /\ waiter'.owed = waiter.owed
        /\ \/ waiter'.pc = "warned"
           \/ waiter'.pc = "sleep" /\ waiter'.ovf = waiter.ovf
    BY <1>1, <1>8 DEF WaitTest, Waiter, Idle
  <2> QED
    BY <1>2, <2>1 DEF WaiterInv
<1>9. CASE WaitSample
  <2>1. /\ waiter'.pc = "test" /\ waiter'.ovf = TransAdds
        /\ waiter'.owed = waiter.owed
    BY <1>1, <1>9 DEF WaitSample, Waiter
  <2> QED
    BY <1>2, <1>4, <2>1 DEF WaiterInv
<1>10. CASE WaitExit
  <2>1. /\ waiter.pc = "test" /\ waiter'.owed = waiter.owed
        /\ \/ waiter'.pc = "drained" /\ Drained
           \/ waiter'.pc = "late"
    BY <1>1, <1>10 DEF WaitExit, Waiter
  <2>2. Drained => 1..waiter.owed \subseteq Ends
    BY <1>5, <2>1 DEF Drained, WaiterInv
  <2> QED
    BY <1>2, <2>1, <2>2 DEF WaiterInv
<1>11. CASE WaitReturn
  <2>1. \/ waiter'.pc \in {"failed", "late 0"} /\ waiter'.owed = 0
        \/ /\ waiter.pc = "drained" /\ waiter'.pc = "empty"
           /\ waiter'.owed = waiter.owed
    BY <1>1, <1>11 DEF WaitReturn, Waiter, Idle
  <2> QED
    BY <1>2, <1>3, <2>1 DEF WaiterInv
<1> QED
  BY <1>6, <1>7, <1>8, <1>9, <1>10, <1>11 DEF Wait

\* Every step keeps what the wait knows.
LEMMA WaiterNext ==
  ASSUME TxInv, OrderInv, PlaceInv, WaiterInv, [Next]_vars
  PROVE  WaiterInv'
<1>k. Kept
  BY FramesNext
<1>1. CASE UNCHANGED vars
  BY <1>k, <1>1, WaiterKept DEF vars, ovfVars, WaiterInv
<1>2. ASSUME NEW p \in Threads, NEW n \in Bursts, Queue(p, n)
      PROVE  WaiterInv'
  BY <1>k, <1>2, WaiterKept DEF Queue, ovfVars, WaiterInv
<1>3. ASSUME NEW p \in Procs, Xmit(p)
      PROVE  WaiterInv'
  <2>1. UNCHANGED <<waiter, flush, overflow_tx>>
    BY <1>3 DEF Xmit, itxq_xmit_enter, itxq_xmit_loop, ieee80211_tx_dequeue,
       iwl_mvm_tx_mpdu, iwl_mvm_tx_skb_drop, itxq_xmit_leave, ovfVars
  <2> QED
    BY <1>k, <2>1, WaiterKept DEF WaiterInv
<1>4. ASSUME NEW n \in 1..(QueueSize - 1), iwl_trans_pcie_reclaim(n)
      PROVE  WaiterInv'
  <2>1. waiter' = waiter /\ (flush' # <<>> => overflow_tx')
    BY <1>4 DEF iwl_trans_pcie_reclaim, ovfVars, WaiterInv
  <2> QED
    BY <1>k, <2>1, WaiterKept
<1>5. CASE ReclaimPath
  <2>1. CASE FlushOne \/ FlushFails
    <3>1. waiter' = waiter /\ flush # <<>> /\ overflow_tx' = overflow_tx
      BY <2>1 DEF FlushOne, FlushFails
    <3> QED
      BY <1>k, <3>1, WaiterKept DEF WaiterInv
  <2>2. CASE FlushEnd \/ iwl_wake_queue \/ iwl_mvm_wake_sw_queue
    <3>1. UNCHANGED <<waiter, flush, overflow_tx>>
      BY <2>2 DEF FlushEnd, iwl_wake_queue, iwl_mvm_wake_sw_queue, ovfVars
    <3> QED
      BY <1>k, <3>1, WaiterKept DEF WaiterInv
  <2>3. CASE Relock
    <3>1. waiter' = waiter /\ flush' = flush /\ flush = <<>>
      BY <2>3 DEF Relock, PlaceInv
    <3> QED
      BY <1>k, <3>1, WaiterKept
  <2> QED
    BY <1>5, <2>1, <2>2, <2>3 DEF ReclaimPath
<1>6. CASE Wait
  BY <1>6, WaiterWait
<1>7. CASE \/ iwl_pcie_txq_stuck_timer \/ FwError
           \/ \E freeze \in BOOLEAN : iwl_trans_pcie_freeze_txq_timer(freeze)
  <2>1. UNCHANGED <<waiter, flush, overflow_tx>>
    BY <1>7 DEF iwl_pcie_txq_stuck_timer, FwError,
       iwl_trans_pcie_freeze_txq_timer, ovfVars
  <2> QED
    BY <1>k, <2>1, WaiterKept DEF WaiterInv
<1>8. CASE Host
  <2>1. UNCHANGED <<waiter, flush, overflow_tx>>
    BY <1>8, HostSteps DEF hostUnchanged, ovfVars
  <2> QED
    BY <1>k, <2>1, WaiterKept DEF WaiterInv
<1> QED
  BY <1>1, <1>2, <1>3, <1>4, <1>5, <1>6, <1>7, <1>8 DEF Next

\* When iwl_trans_pcie_wait_txq_empty returns success in time, every frame the
\* transport had been handed when it was called is off the queue: sampling
\* overflow_tx and the overflow queue under the lock, and looking at the
\* pointers without it, is enough whatever the receive handler does meanwhile.
THEOREM FlushCorrect == Spec => []FlushComplete
<1> DEFINE I == TxInv /\ OrderInv /\ PlaceInv /\ WaiterInv
<1>1. Init => I
  <2> SUFFICES ASSUME Init PROVE WaiterInv
    BY InitInv, FramesInit
  <2>1. flush = <<>> /\ waiter.owed = 0 /\ waiter.pc = "idle" /\ 1..0 = {}
    BY DEF Init, Idle
  <2> QED
    BY <2>1 DEF WaiterInv
<1>2. I /\ [Next]_vars => I'
  BY NextInv, FramesNext, WaiterNext
<1>3. I => FlushComplete
  BY DEF WaiterInv, FlushComplete, Ends
<1> QED
  BY <1>1, <1>2, <1>3, PTL DEF Spec

=============================================================================
