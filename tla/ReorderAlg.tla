----------------------------- MODULE ReorderAlg -----------------------------
(***************************************************************************)
(* The algorithms of the receive reorder buffer (mvm/rxmq.c): 12-bit       *)
(* sequence-number arithmetic, iwl_mvm_release_frames,                     *)
(* iwl_mvm_reorder_timer_expired, iwl_mvm_oldsn_workaround and             *)
(* iwl_mvm_reorder, as functions from a buffer (and a frame) to the new    *)
(* buffer, the frames passed to mac80211 and the sequence numbers sent to  *)
(* the other RX queues with iwl_mvm_sync_nssn.  Each runs under            *)
(* reorder_buf->lock, so each is one step of ReorderBuffer.                *)
(***************************************************************************)
EXTENDS Naturals, FiniteSets, SequencesExt

CONSTANTS
  SnMod,      \* sequence numbers modulo (IEEE80211_SN_MODULO, 4096)
  BufSize,    \* reorder_buf->buf_size
  DropsDelba  \* IWL_MVM_AMPDU_CONSEC_DROPS_DELBA

ASSUME ReorderAlgAssumption ==
  /\ SnMod \in Nat /\ SnMod > 1 /\ SnMod % 2 = 0
  /\ BufSize \in 1..(SnMod \div 2 - 1)
  /\ DropsDelba \in Nat \ {0}

Sns == 0..SnMod-1
Half == SnMod \div 2
Indices == 0..BufSize-1

(* ieee80211_sn_add, ieee80211_sn_sub and ieee80211_sn_less. *)
SnAdd(sn, n) == (sn + n) % SnMod
SnSub(sn1, sn2) == (sn1 + SnMod - sn2) % SnMod
SnLess(sn1, sn2) == SnSub(sn1, sn2) > Half

\* Mutant of IsSnLess: the comment's strict lower bound.
IsSnLessStrict(sn1, sn2) ==
  SnLess(sn1, sn2) /\ SnLess(SnSub(sn2, BufSize), sn1)

(* iwl_mvm_is_sn_less: sn2 - BufSize <= sn1 < sn2. *)
IsSnLess(sn1, sn2) ==
  SnLess(sn1, sn2) /\ ~SnLess(sn1, SnSub(sn2, BufSize))

(* The two points at which a queue tells the others where it is. *)
SyncPoint(sn) == sn \in {0, Half}

(***************************************************************************)
(* A frame has an unwrapped number id, of which the receiver sees only sn, *)
(* a subframe index, and the NSSN and the old-SN mark of the firmware.     *)
(***************************************************************************)
SnOf(f) == f.id % SnMod

\* Mutant of WholeMpdu: the NSSN is trusted on every subframe.
AnySubframe(f) == TRUE

WholeMpdu(f) == ~f.amsdu \/ f.last

EmptyEntries == [i \in Indices |-> <<>>]

(* The places of the frames stored in the entries with an index in I. *)
Places(entries, I) == UNION {{i} \X (1..Len(entries[i])) : i \in I}

(* iwl_mvm_init_reorder_buffer, for one queue, in zeroed memory. *)
InitBuffer(ssn) ==
  [head |-> ssn, num |-> 0, entries |-> EmptyEntries,
   aged |-> [i \in Indices |-> FALSE], valid |-> FALSE, removed |-> FALSE,
   timer |-> "off", lastAmsdu |-> 0, lastSub |-> 0,
   gp2 |-> 0, prevDrop |-> FALSE, drops |-> 0]

(* The entry the timer is set for: the first one in use, from head_sn on   *)
(* around the ring.                                                        *)
FirstStored(b) ==
  LET at(i) == ((b.head % BufSize) + i) % BufSize
      i == CHOOSE i \in Indices :
             /\ b.entries[at(i)] # <<>>
             /\ \A j \in 0..i-1 : b.entries[at(j)] = <<>>
  IN  at(i)

(* mod_timer: a deadline that has already passed makes the timer due. *)
ModTimer(b, index) ==
  [b EXCEPT !.timer = IF b.aged[index] THEN "due" ELSE "on"]

\* Mutant of SetTimer: the timer is not set.
SetTimerNever(b) == b

SetTimer(b) ==
  IF b.num > 0 /\ ~b.removed THEN ModTimer(b, FirstStored(b))
                             ELSE [b EXCEPT !.timer = "off"]

(***************************************************************************)
(* iwl_mvm_release_frames.  flags holds "send" (SEND_RSS_SYNC), "from"     *)
(* (FROM_RSS_SYNC) or neither.  The loop from head_sn to nssn visits n     *)
(* sequence numbers when head_sn is in the window below nssn and none      *)
(* otherwise; head_sn becomes nssn in both cases.  n is less than Half, so *)
(* the loop meets at most one sync point.                                  *)
(***************************************************************************)
ReleaseFrames(b, nssn, flags) ==
  LET ignored == \/ "from" \in flags /\ SnLess(nssn, b.head)
                 \/ IsSnLess(nssn, b.head)
      n == IF IsSnLess(b.head, nssn) THEN SnSub(nssn, b.head) ELSE 0
      at(i) == SnAdd(b.head, i - 1) % BufSize
      list(i) == IF \E j \in 1..i-1 : at(j) = at(i) THEN <<>>
                                                    ELSE b.entries[at(i)]
      out == FlattenSeq([i \in 1..n |-> list(i)])
      freed == {at(i) : i \in 1..n}
      met == {i \in 1..n : SyncPoint(SnAdd(b.head, i))}
  IN  IF ignored
      THEN [buf |-> SetTimer(b), up |-> <<>>, sync |-> <<>>]
      ELSE [buf |-> SetTimer([b EXCEPT
                      !.head = nssn,
                      !.num = @ - Cardinality(Places(b.entries, freed)),
                      !.entries = [i \in Indices |->
                                     IF i \in freed THEN <<>> ELSE @[i]],
                      !.aged = [i \in Indices |-> i \notin freed /\ @[i]]]),
            up |-> out,
            sync |-> IF "send" \in flags /\ met # {}
                     THEN <<SnAdd(b.head, CHOOSE i \in met : TRUE)>> ELSE <<>>]

(***************************************************************************)
(* iwl_mvm_reorder_timer_expired.  The scan releases every run of          *)
(* consecutive entries whose first frame has timed out and stops at the    *)
(* first run whose first frame has not.                                    *)
(***************************************************************************)
TimerExpired(b) ==
  LET at(i) == (b.head + i) % BufSize
      inUse(i) == b.entries[at(i)] # <<>>
      young == {i \in Indices : /\ inUse(i)
                                /\ i = 0 \/ ~inUse(i - 1)
                                /\ ~b.aged[at(i)]}
      expired == {i \in Indices : inUse(i) /\ \A j \in young : i < j}
      last == CHOOSE i \in expired : \A j \in expired : j <= i
      next == CHOOSE i \in young : \A j \in young : i <= j
  IN  IF b.num = 0 \/ b.removed
      THEN [buf |-> b, up |-> <<>>, sync |-> <<>>]
      ELSE IF expired # {}
      THEN ReleaseFrames(b, SnAdd(b.head, last + 1), {"send"})
      ELSE [buf |-> ModTimer(b, at(next)), up |-> <<>>, sync |-> <<>>]

(* iwl_mvm_oldsn_workaround; the second component says whether             *)
(* ieee80211_stop_rx_ba_session was called.                                *)
OldSnWorkaround(b, f) ==
  LET fresh == f.gp2 # b.gp2
      drops == IF fresh /\ ~b.prevDrop THEN 0 ELSE b.drops
      b1 == [b EXCEPT !.gp2 = f.gp2, !.drops = drops]
      limit == drops + 1 = DropsDelba
  IN  IF ~f.old \/ (~fresh /\ b.prevDrop)
      THEN <<b1, FALSE>>
      ELSE <<[b1 EXCEPT !.prevDrop = ~limit,
                        !.drops = IF limit THEN 0 ELSE drops + 1], limit>>

(* The three tests a frame meets once the window has been adjusted: it is  *)
(* behind head_sn; nothing stored can precede it; its place is taken by    *)
(* something else than the preceding subframes of its own A-MSDU.          *)
Outdated(b, f) == SnLess(SnOf(f), b.head)
Immediate(b, f) == b.num = 0 /\ (SnLess(SnOf(f), f.nssn) \/ SnOf(f) = b.head)
Taken(b, f) ==
  /\ b.entries[SnOf(f) % BufSize] # <<>>
  /\ ~f.amsdu \/ SnOf(f) # b.lastAmsdu \/ b.lastSub >= f.sub

(* The end of iwl_mvm_reorder: keep the frame unless its place is taken,   *)
(* and release up to the NSSN unless more subframes follow.                *)
Store(b, f) ==
  LET sn == SnOf(f)
      index == sn % BufSize
      stored == [b EXCEPT !.entries[index] = Append(@, f),
                          !.num = @ + 1,
                          !.aged[index] = FALSE,
                          !.lastAmsdu = IF f.amsdu THEN sn ELSE @,
                          !.lastSub = IF f.amsdu THEN f.sub ELSE @]
  IN  IF Taken(b, f)
      THEN [buf |-> b, up |-> <<>>, sync |-> <<>>]
      ELSE IF WholeMpdu(f)
      THEN ReleaseFrames(stored, f.nssn, {"send"})
      ELSE [buf |-> stored, up |-> <<>>, sync |-> <<>>]

(* The frame goes up at once and, when it ends its MPDU, head_sn moves to  *)
(* sn: the other queues hear of it at the sync points.                     *)
PassUp(b, f, head) ==
  [buf |-> [b EXCEPT !.head = head],
   up |-> <<f>>,
   sync |-> IF head # b.head /\ SyncPoint(SnOf(f)) THEN <<SnOf(f)>> ELSE <<>>]

\* Mutant of Place: outdated frames are not dropped.
PlaceOutdated(b, f) ==
  IF b.num = 0 THEN PassUp(b, f, SnAdd(SnOf(f), 1)) ELSE Store(b, f)

(* iwl_mvm_reorder after the window has been adjusted: drop what is behind *)
(* head_sn, pass up what nothing stored can precede, store the rest.       *)
Place(b, f) ==
  LET sn == SnOf(f)
  IN  IF Outdated(b, f)
      THEN [buf |-> b, up |-> <<>>, sync |-> <<>>]
      ELSE IF b.num = 0 /\ SnLess(sn, f.nssn)
      THEN PassUp(b, f, IF IsSnLess(b.head, f.nssn) /\ WholeMpdu(f)
                        THEN f.nssn ELSE b.head)
      ELSE IF b.num = 0 /\ sn = b.head
      THEN PassUp(b, f, IF WholeMpdu(f) THEN SnAdd(sn, 1) ELSE b.head)
      ELSE Store(b, f)

(* A frame or an NSSN outside the window moves the window. *)
Adjust(b, f) ==
  LET sn == SnOf(f)
      end == SnAdd(b.head, BufSize)
      jump == ~IsSnLess(f.nssn, end) \/ ~SnLess(sn, end)
      minSn == IF SnLess(sn, f.nssn) THEN sn ELSE f.nssn
      b0 == [b EXCEPT !.valid = TRUE]
      r == IF jump THEN ReleaseFrames(b0, minSn, {"send"})
                   ELSE [buf |-> b0, up |-> <<>>, sync |-> <<>>]
  IN  [r EXCEPT !.buf = OldSnWorkaround(r.buf, f)[1]]

(***************************************************************************)
(* iwl_mvm_reorder for a QoS data frame of the session.  (A block-ack      *)
(* request never reaches the buffer here: it carries no data, so the       *)
(* function has already returned false.)  up holds what goes to mac80211,  *)
(* the frame itself last when the function returns false.                  *)
(***************************************************************************)
Reorder(b, f) ==
  LET r == Adjust(b, f)
      p == Place(r.buf, f)
  IN  IF ~b.valid /\ f.old
      THEN [buf |-> b, up |-> <<f>>, sync |-> <<>>]
      ELSE [buf |-> p.buf, up |-> r.up \o p.up, sync |-> r.sync \o p.sync]

(* iwl_mvm_reorder frees the frame ("goto drop"). *)
Drops(b, f) ==
  LET a == Adjust(b, f).buf
  IN  /\ b.valid \/ ~f.old
      /\ Outdated(a, f) \/ (~Immediate(a, f) /\ Taken(a, f))

(* iwl_mvm_is_dup: a retry of the last MPDU seen on this queue.  last is   *)
(* dup_data->last_seq and last_sub_frame for the session's TID.            *)
IsDup(last, f) == f.retry /\ last[1] = SnOf(f) /\ last[2] >= f.sub
=============================================================================
