--------------------------- MODULE NotifWaitProof ---------------------------
(* Proofs about NotifWait, for any number of threads and RX contexts. *)
EXTENDS NotifWait, TLAPS

USE NotifWaitAssumption

(* The invariant holds when nobody waits. *)
LEMMA InitIInv == Init => IInv
  <1> SUFFICES ASSUME Init PROVE IInv
    OBVIOUS
  <1>1. TypeOK
    BY DEF Init, TypeOK, Retvals
  <1>2. EntryLifetime /\ AcceptsFollow /\ FinishReason /\ SuccessIsGenuine
    BY DEF Init, EntryLifetime, AcceptsFollow, FinishReason, SuccessIsGenuine
  <1>3. InFlightOK
    BY DEF Init, InFlightOK, InFlight
  <1>4. NoAnswerLost /\ NoLostWakeup
    BY DEF Init, NoAnswerLost, NoLostWakeup
  <1> QED
    BY <1>1, <1>2, <1>3, <1>4 DEF IInv

(* Every step keeps the types. *)
LEMMA TypeStep == TypeOK /\ [Next]_vars => TypeOK'
  <1> SUFFICES ASSUME TypeOK, [Next]_vars PROVE TypeOK'
    OBVIOUS
  <1> USE DEF TypeOK, threadVars, entryVars, rxVars, fwVars, historyVars
  <1>1. ASSUME NEW w \in Waiters, iwl_init_notification_wait(w) PROVE TypeOK'
    BY <1>1 DEF iwl_init_notification_wait, ClearFlags, Retvals
  <1>2. ASSUME NEW w \in Waiters, AskFirmware(w) PROVE TypeOK'
    <2>1. PICK c \in cmds[w] : \E i \in AnswerIds(c), more \in BOOLEAN :
            fw' = fw \cup {Answer(w, i, TRUE)}
                     \cup (IF more THEN {Answer(w, i, FALSE)} ELSE {})
      BY <1>2 DEF AskFirmware
    <2>2. PICK i \in AnswerIds(c) :
            fw' \subseteq fw \cup {Answer(w, i, TRUE), Answer(w, i, FALSE)}
      BY <2>1
    <2>3. i \in Ids
      BY <2>1, <2>2 DEF AnswerIds, Ids, DEF_ID, WIDE_ID
    <2>4. \A l \in BOOLEAN : Answer(w, i, l) \in Packets
      BY <2>3 DEF Answer, Packets
    <2>5. fw' \subseteq Packets
      BY <2>2, <2>4
    <2> QED
      BY <1>2, <2>5 DEF AskFirmware
  <1>3. ASSUME NEW w \in Waiters, iwl_remove_notification(w) PROVE TypeOK'
    BY <1>3 DEF iwl_remove_notification, ListDel
  <1>4. ASSUME NEW w \in Waiters, WaitEvent(w) PROVE TypeOK'
    BY <1>4 DEF WaitEvent, AfterTest
  <1>5. ASSUME NEW w \in Waiters, WaitTimeout(w) PROVE TypeOK'
    BY <1>5 DEF WaitTimeout, Finished
  <1>6. ASSUME NEW w \in Waiters, iwl_wait_notification(w) PROVE TypeOK'
    BY <1>6 DEF iwl_wait_notification, ListDel, Retval, Retvals
  <1>7. ASSUME NEW r \in RxContexts, CheckList(r) PROVE TypeOK'
    <2>1. PICK p \in fw :
            /\ fw' = fw \ {p}
            /\ IF notif_waits = {}
               THEN RecordAnswer(p) /\ UNCHANGED rxVars
               ELSE /\ rxpc' = [rxpc EXCEPT ![r] = "scan"]
                    /\ pkt' = [pkt EXCEPT ![r] = {p}]
                    /\ UNCHANGED answered
      BY <1>7 DEF CheckList
    <2>2. answered' \in [Waiters -> BOOLEAN]
      BY <2>1 DEF RecordAnswer
    <2>3. rxpc' \in [RxContexts -> {"idle", "scan", "notify"}]
      BY <2>1
    <2>4. pkt' \in [RxContexts -> SUBSET Packets] /\ fw' \subseteq Packets
      BY <2>1
    <2> QED
      BY <1>7, <2>2, <2>3, <2>4 DEF CheckList
  <1>8. ASSUME NEW r \in RxContexts, iwl_notification_wait(r) PROVE TypeOK'
    BY <1>8 DEF iwl_notification_wait, RecordAnswer
  <1>9. ASSUME NEW r \in RxContexts, iwl_notification_notify(r) PROVE TypeOK'
    BY <1>9 DEF iwl_notification_notify, WakeUpAll
  <1>10. ASSUME iwl_abort_notification_waits PROVE TypeOK'
    BY <1>10 DEF iwl_abort_notification_waits
  <1>11. ASSUME AbortWakeUp PROVE TypeOK'
    BY <1>11 DEF AbortWakeUp, WakeUpAll
  <1>12. ASSUME FwUnsolicited PROVE TypeOK'
    BY <1>12 DEF FwUnsolicited, Packets
  <1>13. CASE UNCHANGED vars
    BY <1>13 DEF vars
  <1> QED
    BY <1>1, <1>2, <1>3, <1>4, <1>5, <1>6, <1>7, <1>8, <1>9, <1>10, <1>11,
       <1>12, <1>13 DEF Next, ThreadStep, RxStep

(* What the RX loop does, entry by entry, for the packet p it handles. *)
LEMMA ScanFacts ==
  ASSUME TypeOK, NEW r \in RxContexts, iwl_notification_wait(r)
  PROVE  \E p \in pkt[r] :
           /\ \A v \in Waiters :
                /\ triggered'[v] = (triggered[v] \/ v \in Accepting(p))
                /\ accepts'[v] = IF v \in Accepting(p) THEN accepts[v] + 1
                                                      ELSE accepts[v]
                /\ answered'[v] = (answered[v] \/ (/\ p.last /\ v \in p.by
                                                  /\ p.wait = nwaits[v]))
           /\ pkt' = [pkt EXCEPT ![r] = {}]
  BY DEF TypeOK, iwl_notification_wait, RecordAnswer

(* Each remaining conjunct of IInv is preserved by every step, given that  *)
(* IInv holds before it.                                                   *)
LEMMA LifetimeStep == IInv /\ [Next]_vars => EntryLifetime'
  <1> SUFFICES ASSUME IInv, [Next]_vars PROVE EntryLifetime'
    OBVIOUS
  <1> USE DEF IInv, TypeOK, EntryLifetime, threadVars, entryVars, rxVars,
              fwVars, historyVars
  <1>1. ASSUME NEW w \in Waiters, ThreadStep(w) PROVE EntryLifetime'
    <2>1. CASE iwl_init_notification_wait(w)
      BY <2>1 DEF iwl_init_notification_wait, ClearFlags
    <2>2. CASE AskFirmware(w) \/ WaitEvent(w) \/ WaitTimeout(w)
      BY <2>2 DEF AskFirmware, WaitEvent, AfterTest, WaitTimeout
    <2>3. CASE iwl_remove_notification(w) \/ iwl_wait_notification(w)
      BY <2>3 DEF iwl_remove_notification, iwl_wait_notification, ListDel
    <2> QED
      BY <1>1, <2>1, <2>2, <2>3 DEF ThreadStep
  <1>2. ASSUME NEW r \in RxContexts, CheckList(r) \/ iwl_notification_wait(r)
        PROVE EntryLifetime'
    <2>1. UNCHANGED <<pc, notif_waits>>
      BY <1>2 DEF CheckList, iwl_notification_wait
    <2> QED
      BY <2>1
  <1>3. ASSUME NEW r \in RxContexts, iwl_notification_notify(r)
        PROVE EntryLifetime'
    BY <1>3 DEF iwl_notification_notify, WakeUpAll
  <1>4. CASE AbortWakeUp
    BY <1>4 DEF AbortWakeUp, WakeUpAll
  <1>5. CASE iwl_abort_notification_waits \/ FwUnsolicited \/ UNCHANGED vars
    BY <1>5 DEF iwl_abort_notification_waits, FwUnsolicited, vars
  <1> QED
    BY <1>1, <1>2, <1>3, <1>4, <1>5 DEF Next, RxStep

(* Only the scan sets triggered, and it counts when it does. *)
LEMMA AcceptsStep == IInv /\ [Next]_vars => AcceptsFollow'
  <1> SUFFICES ASSUME IInv, [Next]_vars PROVE AcceptsFollow'
    OBVIOUS
  <1> USE DEF IInv, AcceptsFollow, threadVars, entryVars, rxVars, fwVars,
              historyVars
  <1>1. ASSUME NEW w \in Waiters, ThreadStep(w) PROVE AcceptsFollow'
    BY <1>1 DEF TypeOK, ThreadStep, iwl_init_notification_wait, ClearFlags, AskFirmware,
       iwl_remove_notification, WaitEvent, WaitTimeout, iwl_wait_notification
  <1>2. ASSUME NEW r \in RxContexts, iwl_notification_wait(r)
        PROVE AcceptsFollow'
    <2>1. PICK p \in pkt[r] : \A v \in Waiters :
            /\ triggered'[v] = (triggered[v] \/ v \in Accepting(p))
            /\ accepts'[v] = IF v \in Accepting(p) THEN accepts[v] + 1
                                                  ELSE accepts[v]
      BY <1>2, ScanFacts
    <2>2. \A v \in Accepting(p) : ~triggered[v]
      BY DEF Accepting
    <2>3. \A v \in Waiters : accepts'[v] = IF triggered'[v] THEN 1 ELSE 0
      BY <2>1, <2>2, 0 + 1 = 1
    <2> QED
      BY <2>3
  <1>3. ASSUME NEW r \in RxContexts, CheckList(r) \/ iwl_notification_notify(r)
        PROVE AcceptsFollow'
    BY <1>3 DEF CheckList, iwl_notification_notify
  <1>4. CASE iwl_abort_notification_waits \/ AbortWakeUp \/ FwUnsolicited
             \/ UNCHANGED vars
    BY <1>4 DEF iwl_abort_notification_waits, AbortWakeUp, FwUnsolicited, vars
  <1> QED
    BY <1>1, <1>2, <1>3, <1>4 DEF Next, RxStep

(* A thread leaves wait_event_timeout only finished or expired. *)
LEMMA FinishStep == IInv /\ [Next]_vars => FinishReason'
  <1> SUFFICES ASSUME IInv, [Next]_vars PROVE FinishReason'
    OBVIOUS
  <1> USE DEF IInv, FinishReason, Finished, threadVars, entryVars, rxVars,
              fwVars, historyVars
  <1>1. ASSUME NEW w \in Waiters, ThreadStep(w) PROVE FinishReason'
    <2>1. CASE iwl_init_notification_wait(w)
      BY <2>1 DEF TypeOK, iwl_init_notification_wait, ClearFlags
    <2>2. CASE AskFirmware(w)
      BY <2>2 DEF TypeOK, AskFirmware
    <2>3. CASE WaitEvent(w) \/ WaitTimeout(w)
      <3>1. pc'[w] = "finish" => Finished(w) \/ expired'[w]
        BY <2>3 DEF TypeOK, WaitEvent, AfterTest, WaitTimeout
      <3>2. \A v \in Waiters \ {w} : pc'[v] = pc[v] /\ expired'[v] = expired[v]
        BY <2>3 DEF TypeOK, WaitEvent, WaitTimeout
      <3>3. UNCHANGED <<ret, triggered, aborted>> /\ pc[w] # "idle"
        BY <2>3 DEF WaitEvent, WaitTimeout
      <3> QED
        BY <3>1, <3>2, <3>3
    <2>4. CASE iwl_remove_notification(w) \/ iwl_wait_notification(w)
      BY <2>4 DEF TypeOK, iwl_remove_notification, iwl_wait_notification
    <2> QED
      BY <1>1, <2>1, <2>2, <2>3, <2>4 DEF ThreadStep
  <1>2. ASSUME NEW r \in RxContexts, CheckList(r) PROVE FinishReason'
    BY <1>2 DEF CheckList
  <1>3. ASSUME NEW r \in RxContexts, iwl_notification_wait(r)
        PROVE FinishReason'
    <2>1. \A v \in Waiters : triggered[v] => triggered'[v]
      BY <1>3, ScanFacts
    <2> QED
      BY <1>3, <2>1 DEF iwl_notification_wait
  <1>4. ASSUME NEW r \in RxContexts, iwl_notification_notify(r)
        PROVE FinishReason'
    BY <1>4 DEF TypeOK, iwl_notification_notify, WakeUpAll
  <1>5. CASE iwl_abort_notification_waits
    <2>1. \A v \in Waiters : aborted[v] => aborted'[v]
      BY <1>5 DEF iwl_abort_notification_waits
    <2> QED
      BY <1>5, <2>1 DEF iwl_abort_notification_waits
  <1>6. CASE AbortWakeUp
    BY <1>6 DEF TypeOK, AbortWakeUp, WakeUpAll
  <1>7. CASE FwUnsolicited \/ UNCHANGED vars
    BY <1>7 DEF FwUnsolicited, vars
  <1> QED
    BY <1>1, <1>2, <1>3, <1>4, <1>5, <1>6, <1>7 DEF Next, RxStep

(* Success is decided under the lock, when the entry leaves the list. *)
LEMMA SuccessStep == IInv /\ [Next]_vars => SuccessIsGenuine'
  <1> SUFFICES ASSUME IInv, [Next]_vars PROVE SuccessIsGenuine'
    OBVIOUS
  <1> USE DEF IInv, SuccessIsGenuine, threadVars, entryVars, rxVars, fwVars,
              historyVars
  <1>0. \A v \in Waiters : ret[v] = "ok" => v \notin notif_waits
    BY DEF FinishReason, EntryLifetime
  <1>1. ASSUME NEW w \in Waiters, iwl_init_notification_wait(w)
        PROVE SuccessIsGenuine'
    BY <1>1 DEF TypeOK, iwl_init_notification_wait, ClearFlags
  <1>2. ASSUME NEW w \in Waiters, AskFirmware(w) \/ iwl_remove_notification(w)
                                  \/ WaitEvent(w) \/ WaitTimeout(w)
        PROVE SuccessIsGenuine'
    BY <1>2 DEF AskFirmware, iwl_remove_notification, WaitEvent, WaitTimeout
  <1>3. ASSUME NEW w \in Waiters, iwl_wait_notification(w)
        PROVE SuccessIsGenuine'
    <2>1. Retval(w) = "ok" => triggered[w] /\ ~aborted[w]
      BY <1>3 DEF iwl_wait_notification, Retval, FinishReason, Finished
    <2>2. triggered[w] => accepts[w] = 1
      BY DEF AcceptsFollow
    <2> QED
      BY <1>3, <2>1, <2>2 DEF TypeOK, iwl_wait_notification
  <1>4. ASSUME NEW r \in RxContexts, iwl_notification_wait(r)
        PROVE SuccessIsGenuine'
    <2>1. PICK p \in pkt[r] : \A v \in Waiters :
            accepts'[v] = IF v \in Accepting(p) THEN accepts[v] + 1
                                               ELSE accepts[v]
      BY <1>4, ScanFacts
    <2>2. Accepting(p) \subseteq notif_waits
      BY DEF Accepting
    <2>3. \A v \in Waiters : ret[v] = "ok" => accepts'[v] = accepts[v]
      BY <1>0, <2>1, <2>2
    <2> QED
      BY <1>4, <2>3 DEF iwl_notification_wait
  <1>5. ASSUME NEW r \in RxContexts, CheckList(r) \/ iwl_notification_notify(r)
        PROVE SuccessIsGenuine'
    BY <1>5 DEF CheckList, iwl_notification_notify
  <1>6. CASE iwl_abort_notification_waits
    <2>1. \A v \in Waiters : ret[v] = "ok" => aborted'[v] = aborted[v]
      BY <1>0, <1>6 DEF TypeOK, iwl_abort_notification_waits
    <2> QED
      BY <1>6, <2>1 DEF iwl_abort_notification_waits
  <1>7. CASE AbortWakeUp \/ FwUnsolicited \/ UNCHANGED vars
    BY <1>7 DEF AbortWakeUp, FwUnsolicited, vars
  <1> QED
    BY <1>1, <1>2, <1>3, <1>4, <1>5, <1>6, <1>7 DEF Next, ThreadStep, RxStep

(* Whoever finishes a wait still has its wake-up to do. *)
LEMMA WakeupStep == IInv /\ [Next]_vars => NoLostWakeup'
  <1> SUFFICES ASSUME IInv, [Next]_vars PROVE NoLostWakeup'
    OBVIOUS
  <1> USE DEF IInv, TypeOK, NoLostWakeup, Finished, threadVars, entryVars,
              rxVars, fwVars, historyVars
  <1>1. ASSUME NEW w \in Waiters, ThreadStep(w) PROVE NoLostWakeup'
    <2>1. CASE iwl_init_notification_wait(w) \/ AskFirmware(w)
      BY <2>1 DEF iwl_init_notification_wait, ClearFlags, AskFirmware
    <2>2. CASE iwl_remove_notification(w) \/ iwl_wait_notification(w)
      BY <2>2 DEF iwl_remove_notification, iwl_wait_notification
    <2>3. CASE WaitEvent(w) \/ WaitTimeout(w)
      BY <2>3 DEF WaitEvent, AfterTest, WaitTimeout
    <2> QED
      BY <1>1, <2>1, <2>2, <2>3 DEF ThreadStep
  <1>2. ASSUME NEW r \in RxContexts, CheckList(r) PROVE NoLostWakeup'
    BY <1>2 DEF CheckList
  <1>3. ASSUME NEW r \in RxContexts, iwl_notification_wait(r)
        PROVE NoLostWakeup'
    BY <1>3 DEF iwl_notification_wait, Accepting
  <1>4. ASSUME NEW r \in RxContexts, iwl_notification_notify(r)
        PROVE NoLostWakeup'
    BY <1>4 DEF iwl_notification_notify, WakeUpAll
  <1>5. CASE iwl_abort_notification_waits
    BY <1>5 DEF iwl_abort_notification_waits
  <1>6. CASE AbortWakeUp
    BY <1>6 DEF AbortWakeUp, WakeUpAll
  <1>7. CASE FwUnsolicited \/ UNCHANGED vars
    BY <1>7 DEF FwUnsolicited, vars
  <1> QED
    BY <1>1, <1>2, <1>3, <1>4, <1>5, <1>6, <1>7 DEF Next, RxStep

(* InFlightOK speaks of the packets that were asked for, of cmds and of    *)
(* nwaits; a step that leaves the last two alone and brings no such packet *)
(* preserves it.                                                           *)
LEMMA InFlightShrinks ==
  ASSUME InFlightOK, UNCHANGED <<cmds, nwaits>>,
         \A p \in InFlight' : p \in InFlight \/ p.by = {}
  PROVE  InFlightOK'
  BY DEF InFlightOK

(* New packets match their wait; a new wait has no packets yet. *)
LEMMA InFlightStep == IInv /\ [Next]_vars => InFlightOK'
  <1> SUFFICES ASSUME IInv, [Next]_vars PROVE InFlightOK'
    OBVIOUS
  <1> USE DEF IInv, threadVars, entryVars, rxVars, fwVars, historyVars
  <1>1. ASSUME NEW w \in Waiters, iwl_init_notification_wait(w)
        PROVE InFlightOK'
    <2>1. InFlight' = InFlight
      BY <1>1 DEF iwl_init_notification_wait, ClearFlags, InFlight
    <2>2. SUFFICES ASSUME NEW p \in InFlight, NEW v \in Waiters, v \in p.by
                   PROVE  /\ p.wait <= nwaits'[v]
                          /\ p.wait = nwaits'[v] =>
                               \E c \in cmds'[v] : Matches(c, p.id)
      BY <2>1 DEF InFlightOK
    <2>3. p.wait <= nwaits[v] /\ p.wait \in Nat /\ nwaits[v] \in Nat
      BY <2>2 DEF InFlightOK, InFlight, TypeOK, Packets
    <2>4. CASE v = w
      <3>1. nwaits'[v] = nwaits[v] + 1
        BY <1>1, <2>4 DEF iwl_init_notification_wait, ClearFlags, TypeOK
      <3> QED
        BY <2>3, <3>1
    <2>5. CASE v # w
      <3>1. nwaits'[v] = nwaits[v] /\ cmds'[v] = cmds[v]
        BY <1>1, <2>5 DEF iwl_init_notification_wait, ClearFlags, TypeOK
      <3> QED
        BY <2>2, <3>1 DEF InFlightOK
    <2> QED
      BY <2>4, <2>5
  <1>2. ASSUME NEW w \in Waiters, AskFirmware(w) PROVE InFlightOK'
    <2>1. PICK c \in cmds[w] : \E i \in AnswerIds(c), more \in BOOLEAN :
            fw' = fw \cup {Answer(w, i, TRUE)}
                     \cup (IF more THEN {Answer(w, i, FALSE)} ELSE {})
      BY <1>2 DEF AskFirmware
    <2>2. PICK i \in AnswerIds(c) :
            fw' \subseteq fw \cup {Answer(w, i, TRUE), Answer(w, i, FALSE)}
      BY <2>1
    <2>3. Matches(c, i)
      BY <2>2 DEF Matches, AnswerIds
    <2>4. InFlight' \subseteq InFlight \cup {Answer(w, i, TRUE),
                                            Answer(w, i, FALSE)}
      BY <1>2, <2>2 DEF AskFirmware, InFlight
    <2>5. UNCHANGED <<cmds, nwaits>> /\ nwaits[w] \in Nat
      BY <1>2 DEF AskFirmware, TypeOK
    <2>6. ASSUME NEW l \in BOOLEAN, NEW p, p = Answer(w, i, l)
          PROVE  p.by = {w} /\ p.wait = nwaits[w] /\ p.id = i
      BY <2>6 DEF Answer
    <2>7. ASSUME NEW p \in InFlight', NEW v \in Waiters, v \in p.by
          PROVE  /\ p.wait <= nwaits[v]
                 /\ p.wait = nwaits[v] => \E d \in cmds[v] : Matches(d, p.id)
      <3>1. CASE p \in InFlight
        BY <2>7, <3>1 DEF InFlightOK
      <3>2. CASE \E l \in BOOLEAN : p = Answer(w, i, l)
        <4>1. v = w /\ p.wait = nwaits[w] /\ p.id = i
          BY <2>6, <2>7, <3>2
        <4> QED
          BY <2>1, <2>3, <2>5, <4>1
      <3> QED
        BY <2>4, <2>7, <3>1, <3>2
    <2> QED
      BY <2>5, <2>7 DEF InFlightOK
  <1>3. ASSUME NEW w \in Waiters, iwl_remove_notification(w) \/ WaitEvent(w)
                                  \/ WaitTimeout(w) \/ iwl_wait_notification(w)
        PROVE InFlightOK'
    <2>1. UNCHANGED <<cmds, nwaits, fw, pkt>>
      BY <1>3 DEF iwl_remove_notification, WaitEvent, WaitTimeout,
         iwl_wait_notification
    <2> QED
      BY <2>1, InFlightShrinks DEF InFlight
  <1>4. ASSUME NEW r \in RxContexts, CheckList(r) PROVE InFlightOK'
    <2>1. UNCHANGED <<cmds, nwaits>>
      BY <1>4 DEF CheckList
    <2>2. PICK p \in fw : /\ fw' = fw \ {p}
                          /\ pkt' = pkt \/ pkt' = [pkt EXCEPT ![r] = {p}]
      BY <1>4 DEF CheckList
    <2>3. \A q \in RxContexts : pkt'[q] = pkt[q] \/ pkt'[q] = {p}
      BY <2>2 DEF TypeOK
    <2>4. InFlight' \subseteq InFlight
      BY <2>2, <2>3 DEF InFlight
    <2> QED
      BY <2>1, <2>4, InFlightShrinks
  <1>5. ASSUME NEW r \in RxContexts, iwl_notification_wait(r)
        PROVE InFlightOK'
    <2>1. UNCHANGED <<cmds, nwaits, fw>> /\ pkt' = [pkt EXCEPT ![r] = {}]
      BY <1>5 DEF iwl_notification_wait
    <2>2. \A q \in RxContexts : pkt'[q] = pkt[q] \/ pkt'[q] = {}
      BY <2>1 DEF TypeOK
    <2>3. InFlight' \subseteq InFlight
      BY <2>1, <2>2 DEF InFlight
    <2> QED
      BY <2>1, <2>3, InFlightShrinks
  <1>6. ASSUME NEW r \in RxContexts, iwl_notification_notify(r)
        PROVE InFlightOK'
    <2>1. UNCHANGED <<cmds, nwaits, fw, pkt>>
      BY <1>6 DEF iwl_notification_notify
    <2> QED
      BY <2>1, InFlightShrinks DEF InFlight
  <1>7. CASE iwl_abort_notification_waits \/ AbortWakeUp \/ UNCHANGED vars
    <2>1. UNCHANGED <<cmds, nwaits, fw, pkt>>
      BY <1>7 DEF iwl_abort_notification_waits, AbortWakeUp, vars
    <2> QED
      BY <2>1, InFlightShrinks DEF InFlight
  <1>8. CASE FwUnsolicited
    <2>1. UNCHANGED <<cmds, nwaits, pkt>>
      BY <1>8 DEF FwUnsolicited
    <2>2. PICK i \in Ids, l \in BOOLEAN :
            fw' = fw \cup {[id |-> i, last |-> l, by |-> {}, wait |-> 0]}
      BY <1>8 DEF FwUnsolicited
    <2>3. \A p \in InFlight' : p \in InFlight \/ p.by = {}
      BY <2>1, <2>2 DEF InFlight
    <2> QED
      BY <2>1, <2>3, InFlightShrinks
  <1> QED
    BY <1>1, <1>2, <1>3, <1>4, <1>5, <1>6, <1>7, <1>8
    DEF Next, ThreadStep, RxStep

(* An answer meets its entry on the list, and finishes it. *)
LEMMA AnswerStep == IInv /\ [Next]_vars => NoAnswerLost'
  <1> SUFFICES ASSUME IInv, [Next]_vars PROVE NoAnswerLost'
    OBVIOUS
  <1> USE DEF IInv, NoAnswerLost, Finished, threadVars, entryVars, rxVars,
              fwVars, historyVars
  <1>1. ASSUME NEW w \in Waiters, ThreadStep(w) PROVE NoAnswerLost'
    <2>1. CASE iwl_init_notification_wait(w)
      BY <2>1 DEF TypeOK, iwl_init_notification_wait, ClearFlags
    <2>2. CASE AskFirmware(w) \/ iwl_remove_notification(w)
      BY <2>2 DEF TypeOK, AskFirmware, iwl_remove_notification
    <2>3. CASE WaitEvent(w) \/ WaitTimeout(w) \/ iwl_wait_notification(w)
      BY <2>3 DEF TypeOK, WaitEvent, WaitTimeout, iwl_wait_notification
    <2> QED
      BY <1>1, <2>1, <2>2, <2>3 DEF ThreadStep
  <1>2. ASSUME NEW r \in RxContexts, CheckList(r) PROVE NoAnswerLost'
    <2>1. CASE notif_waits = {}
      BY <1>2, <2>1 DEF CheckList, EntryLifetime
    <2>2. CASE notif_waits # {}
      BY <1>2, <2>2 DEF CheckList
    <2> QED
      BY <2>1, <2>2
  <1>3. ASSUME NEW r \in RxContexts, iwl_notification_wait(r)
        PROVE NoAnswerLost'
    <2>1. PICK p \in pkt[r] : \A v \in Waiters :
            /\ triggered'[v] = (triggered[v] \/ v \in Accepting(p))
            /\ answered'[v] = (answered[v] \/ (/\ p.last /\ v \in p.by
                                              /\ p.wait = nwaits[v]))
      BY <1>3, ScanFacts
    <2>2. UNCHANGED <<pc, aborted>>
      BY <1>3 DEF iwl_notification_wait
    <2>3. SUFFICES ASSUME NEW v \in Waiters, answered'[v], pc[v] # "idle"
                   PROVE  triggered'[v] \/ aborted[v]
      BY <2>2
    <2>4. CASE answered[v]
      BY <2>1, <2>3, <2>4
    <2>5. CASE p.last /\ v \in p.by /\ p.wait = nwaits[v]
      <3>1. \E c \in cmds[v] : Matches(c, p.id)
        BY <2>1, <2>5 DEF InFlightOK, InFlight
      <3>2. v \in notif_waits
        BY <2>3 DEF EntryLifetime
      <3>3. v \in Accepting(p) \/ triggered[v] \/ aborted[v]
        BY <2>5, <3>1, <3>2 DEF Accepting
      <3> QED
        BY <2>1, <3>3
    <2> QED
      BY <2>1, <2>3, <2>4, <2>5
  <1>4. ASSUME NEW r \in RxContexts, iwl_notification_notify(r)
        PROVE NoAnswerLost'
    BY <1>4 DEF TypeOK, iwl_notification_notify, WakeUpAll
  <1>5. CASE iwl_abort_notification_waits
    <2>1. \A v \in Waiters : aborted[v] => aborted'[v]
      BY <1>5 DEF iwl_abort_notification_waits
    <2> QED
      BY <1>5, <2>1 DEF iwl_abort_notification_waits
  <1>6. CASE AbortWakeUp
    BY <1>6 DEF TypeOK, AbortWakeUp, WakeUpAll
  <1>7. CASE FwUnsolicited \/ UNCHANGED vars
    BY <1>7 DEF FwUnsolicited, vars
  <1> QED
    BY <1>1, <1>2, <1>3, <1>4, <1>5, <1>6, <1>7 DEF Next, RxStep

(* IInv is an invariant of the notification waits. *)
THEOREM IInvInvariant == Spec => []IInv
  <1>1. IInv /\ [Next]_vars => IInv'
    BY TypeStep, LifetimeStep, AcceptsStep, FinishStep, SuccessStep,
       InFlightStep, AnswerStep, WakeupStep DEF IInv
  <1> QED
    BY <1>1, InitIInv, PTL DEF Spec

(* Type correctness of the notification waits. *)
THEOREM TypeCorrect == Spec => []TypeOK
  <1>1. IInv => TypeOK
    BY DEF IInv
  <1> QED
    BY <1>1, IInvInvariant, PTL

(* The list of waits holds exactly the stack entries of the threads inside *)
(* a wait (iwl_init_notification_wait ... iwl_remove_notification).        *)
THEOREM LifetimeCorrect == Spec => []EntryLifetime
  <1>1. IInv => EntryLifetime
    BY DEF IInv
  <1> QED
    BY <1>1, IInvInvariant, PTL

(* No callback that returned true is called again for the same wait by     *)
(* any RX context running iwl_notification_wait.                           *)
THEOREM CallbackOnceCorrect == Spec => []CallbackOnce
  <1>1. IInv => CallbackOnce
    BY DEF IInv, AcceptsFollow, CallbackOnce
  <1> QED
    BY <1>1, IInvInvariant, PTL

(* iwl_wait_notification returns 0 only for a wait whose callback accepted *)
(* a packet and that no abort has reached.                                 *)
THEOREM SuccessCorrect == Spec => []SuccessIsGenuine
  <1>1. IInv => SuccessIsGenuine
    BY DEF IInv
  <1> QED
    BY <1>1, IInvInvariant, PTL

(* The list_empty test iwl_notification_wait makes without the lock never  *)
(* loses the answer to a registered wait.                                  *)
THEOREM AnswerCorrect == Spec => []NoAnswerLost
  <1>1. IInv => NoAnswerLost
    BY DEF IInv
  <1> QED
    BY <1>1, IInvInvariant, PTL

(* Waking up after the lock is released loses no wake-up: whoever ended    *)
(* the wait of a sleeping thread has its wake_up_all still to do.          *)
THEOREM WakeupCorrect == Spec => []NoLostWakeup
  <1>1. IInv => NoLostWakeup
    BY DEF IInv
  <1> QED
    BY <1>1, IInvInvariant, PTL
=============================================================================
