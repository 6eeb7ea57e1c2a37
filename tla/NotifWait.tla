------------------------------ MODULE NotifWait ------------------------------
(***************************************************************************)
(* Notification waits (fw/notif-wait.c).  A thread that expects a          *)
(* notification from the firmware puts an entry that lives on its own      *)
(* stack on a shared list, asks the firmware for something, and sleeps     *)
(* until the RX path marks the entry triggered, until an error path marks  *)
(* it aborted, or until its timeout expires.                               *)
(*                                                                         *)
(* Three kinds of context run concurrently: the waiting threads, the RX    *)
(* contexts (one per interrupt thread that can deliver a packet to the     *)
(* op-mode) and the error path (firmware assert, RF-kill) that aborts      *)
(* every wait.  Everything done under notif_wait_lock is one step; what    *)
(* the code does outside the lock (the list_empty test, the wake-ups) is a *)
(* step of its own.                                                        *)
(***************************************************************************)
EXTENDS Naturals, FiniteSets

CONSTANTS
  Waiters,        \* threads that use notification waits
  RxContexts,     \* contexts that run iwl_notification_wait_notify
  Opcodes,        \* command opcodes
  CmdSets,        \* the sets of ids callers wait for
  MaxWaits,       \* bound: waits a thread registers in a behaviour
  MaxUnsolicited  \* bound: notifications the firmware sends on its own

(* A command id is a pair <<group, opcode>>.  Group 0 is the legacy group, *)
(* group 1 is IWL_ALWAYS_LONG_GROUP, group 2 stands for every other group. *)
WIDE_ID(grp, opcode) == <<grp, opcode>>
DEF_ID(opcode) == WIDE_ID(1, opcode)
Ids == {WIDE_ID(g, o) : g \in 0..2, o \in Opcodes}

ASSUME NotifWaitAssumption ==
  /\ MaxWaits \in Nat \ {0}
  /\ MaxUnsolicited \in Nat
  /\ CmdSets \subseteq SUBSET Ids

(* A packet: its id, whether the waiter's callback is content with it (a   *)
(* callback such as iwl_wait_phy_db_entry refuses all but the last one),   *)
(* and, for the properties only, the thread that asked for it (none for an *)
(* unsolicited one) and the number of that thread's wait.                  *)
Packets == [id : Ids, last : BOOLEAN, by : SUBSET Waiters, wait : 0..MaxWaits]

Retvals == {"none", "ok", "EIO", "ETIMEDOUT"}

VARIABLES
  pc,         \* per thread: where it is
  notif_waits,\* the list of entries, named by the thread that owns them
  cmds,       \* entry->cmds: the ids the entry waits for
  triggered,  \* entry->triggered
  aborted,    \* entry->aborted
  expired,    \* wait_event_timeout returned 0
  ret,        \* what the last wait of the thread returned
  nwaits,     \* number of waits the thread has registered
  rxpc,       \* per RX context: "idle", "scan" or "notify"
  pkt,        \* the packet an RX context handles, as a set of at most one
  abortpc,    \* the error path: "idle" or "wake"
  fw,         \* packets the firmware has sent and RX has not taken yet
  unsolicited,\* notifications the firmware has sent on its own
  accepts,    \* history: callbacks that returned true for this wait
  answered    \* history: the answer to this wait went through RX

threadVars == <<pc, expired, ret, nwaits>>
entryVars == <<cmds, triggered, aborted>>
rxVars == <<rxpc, pkt>>
fwVars == <<fw, unsolicited>>
historyVars == <<accepts, answered>>
vars == <<threadVars, notif_waits, entryVars, rxVars, abortpc, fwVars,
          historyVars>>

Init ==
  /\ pc = [w \in Waiters |-> "idle"]
  /\ notif_waits = {}
  /\ cmds = [w \in Waiters |-> {}]
  /\ triggered = [w \in Waiters |-> FALSE]
  /\ aborted = [w \in Waiters |-> FALSE]
  /\ expired = [w \in Waiters |-> FALSE]
  /\ ret = [w \in Waiters |-> "none"]
  /\ nwaits = [w \in Waiters |-> 0]
  /\ rxpc = [r \in RxContexts |-> "idle"]
  /\ pkt = [r \in RxContexts |-> {}]
  /\ abortpc = "idle"
  /\ fw = {}
  /\ unsolicited = 0
  /\ accepts = [w \in Waiters |-> 0]
  /\ answered = [w \in Waiters |-> FALSE]

-----------------------------------------------------------------------------
(* The waiting threads.                                                    *)

(* The condition wait_event_timeout sleeps on. *)
Finished(w) == triggered[w] \/ aborted[w]

(* list_del of the entry, under the lock. *)
ListDelForgotten(w) == UNCHANGED notif_waits
ListDel(w) == notif_waits' = notif_waits \ {w}

(* The flags of an entry before it is put on the list. *)
ClearFlags(w) ==
  /\ triggered' = [triggered EXCEPT ![w] = FALSE]
  /\ aborted' = [aborted EXCEPT ![w] = FALSE]

(* iwl_init_notification_wait: the entry is reset, then put on the list.   *)
(* No caller passes more than MAX_NOTIF_CMDS ids, so the clamp under the   *)
(* WARN_ON changes nothing.                                                *)
iwl_init_notification_wait(w) ==
  /\ pc[w] = "idle"
  /\ nwaits[w] < MaxWaits
  /\ \E c \in CmdSets : cmds' = [cmds EXCEPT ![w] = c]
  /\ ClearFlags(w)
  /\ notif_waits' = notif_waits \cup {w}
  /\ pc' = [pc EXCEPT ![w] = "armed"]
  /\ ret' = [ret EXCEPT ![w] = "none"]
  /\ expired' = [expired EXCEPT ![w] = FALSE]
  /\ nwaits' = [nwaits EXCEPT ![w] = @ + 1]
  /\ accepts' = [accepts EXCEPT ![w] = 0]
  /\ answered' = [answered EXCEPT ![w] = FALSE]
  /\ UNCHANGED <<rxVars, abortpc, fwVars>>

(* The ids under which the firmware answers what a thread asked for with   *)
(* id c: firmware with long command headers moved the legacy group 0 to    *)
(* group 1 and answers there.                                              *)
AnswerIds(c) == {c} \cup (IF c[1] = 0 THEN {DEF_ID(c[2])} ELSE {})

Answer(w, i, l) == [id |-> i, last |-> l, by |-> {w}, wait |-> nwaits[w]]

(* The caller has registered its entry and does whatever makes the         *)
(* firmware notify: start_fw, a host command.  It succeeds, and the answer *)
(* (possibly preceded by others the callback refuses) is now on its way.   *)
AskFirmware(w) ==
  /\ pc[w] = "armed"
  /\ \E c \in cmds[w] : \E i \in AnswerIds(c), more \in BOOLEAN :
       fw' = fw \cup {Answer(w, i, TRUE)}
                \cup (IF more THEN {Answer(w, i, FALSE)} ELSE {})
  /\ pc' = [pc EXCEPT ![w] = "asked"]
  /\ UNCHANGED <<expired, ret, nwaits, notif_waits, entryVars, rxVars,
                 abortpc, unsolicited, historyVars>>

(* The caller could not ask the firmware: it takes its entry off the list  *)
(* with iwl_remove_notification and gives up.                              *)
iwl_remove_notification(w) ==
  /\ pc[w] = "armed"
  /\ ListDel(w)
  /\ pc' = [pc EXCEPT ![w] = "idle"]
  /\ UNCHANGED <<expired, ret, nwaits, entryVars, rxVars, abortpc, fwVars,
                 historyVars>>

(* wait_event_timeout: the condition is tested before sleeping and after   *)
(* each wake-up; the thread sleeps only while it is false.                 *)
SleepFirst(w) == IF pc[w] = "woken" /\ Finished(w) THEN "finish" ELSE "asleep"
AfterTest(w) == IF Finished(w) THEN "finish" ELSE "asleep"

WaitEvent(w) ==
  /\ pc[w] \in {"asked", "woken"}
  /\ pc' = [pc EXCEPT ![w] = AfterTest(w)]
  /\ UNCHANGED <<expired, ret, nwaits, notif_waits, entryVars, rxVars,
                 abortpc, fwVars, historyVars>>

(* The timeout of wait_event_timeout expires.  The condition is tested a   *)
(* last time: 0 is returned only if it is still false.                     *)
WaitTimeout(w) ==
  /\ pc[w] = "asleep"
  /\ pc' = [pc EXCEPT ![w] = "finish"]
  /\ expired' = [expired EXCEPT ![w] = ~Finished(w)]
  /\ UNCHANGED <<ret, nwaits, notif_waits, entryVars, rxVars, abortpc,
                 fwVars, historyVars>>

(* What iwl_wait_notification returns.  The mutated form forgets the       *)
(* timeout.                                                                *)
RetvalNoTimeout(w) == IF aborted[w] THEN "EIO" ELSE "ok"
Retval(w) ==
  IF aborted[w] THEN "EIO" ELSE IF expired[w] THEN "ETIMEDOUT" ELSE "ok"

(* The rest of iwl_wait_notification: the entry leaves the list, and only  *)
(* then is it read to decide what to return.                               *)
iwl_wait_notification(w) ==
  /\ pc[w] = "finish"
  /\ ListDel(w)
  /\ ret' = [ret EXCEPT ![w] = Retval(w)]
  /\ pc' = [pc EXCEPT ![w] = "idle"]
  /\ UNCHANGED <<expired, nwaits, entryVars, rxVars, abortpc, fwVars,
                 historyVars>>

-----------------------------------------------------------------------------
(* The RX contexts.                                                        *)

(* An id of the entry matches the id of the packet. *)
MatchesExactly(c, rec) == c = rec
Matches(c, rec) == c = rec \/ (c[1] = 0 /\ DEF_ID(c[2]) = rec)

(* The entries whose callback runs for the packet and returns true. *)
AcceptingAgain(p) ==
  {w \in notif_waits : /\ ~aborted[w]
                       /\ \E c \in cmds[w] : Matches(c, p.id)
                       /\ p.last}
Accepting(p) ==
  {w \in notif_waits : /\ ~triggered[w] /\ ~aborted[w]
                       /\ \E c \in cmds[w] : Matches(c, p.id)
                       /\ p.last}

(* The history of packet p having been through the notification waits. *)
RecordAnswer(p) ==
  answered' = [w \in Waiters |->
                 answered[w] \/ (p.last /\ w \in p.by /\ p.wait = nwaits[w])]

(* A packet reaches iwl_notification_wait, which first looks, without the  *)
(* lock, whether any wait is registered at all.                            *)
CheckList(r) ==
  /\ rxpc[r] = "idle"
  /\ \E p \in fw :
       /\ fw' = fw \ {p}
       /\ IF notif_waits = {}
          THEN RecordAnswer(p) /\ UNCHANGED rxVars
          ELSE /\ rxpc' = [rxpc EXCEPT ![r] = "scan"]
               /\ pkt' = [pkt EXCEPT ![r] = {p}]
               /\ UNCHANGED answered
  /\ UNCHANGED <<threadVars, notif_waits, entryVars, abortpc, unsolicited,
                 accepts>>

(* The loop over the list, under the lock. *)
iwl_notification_wait(r) ==
  /\ rxpc[r] = "scan"
  /\ \E p \in pkt[r] : LET hit == Accepting(p) IN
       /\ triggered' = [w \in Waiters |-> triggered[w] \/ w \in hit]
       /\ accepts' = [w \in Waiters |->
                        IF w \in hit THEN accepts[w] + 1 ELSE accepts[w]]
       /\ rxpc' = [rxpc EXCEPT ![r] = IF hit # {} THEN "notify" ELSE "idle"]
       /\ pkt' = [pkt EXCEPT ![r] = {}]
       /\ RecordAnswer(p)
  /\ UNCHANGED <<threadVars, notif_waits, cmds, aborted, abortpc, fwVars>>

(* wake_up_all: every sleeping thread will test its condition again. *)
WakeUpAll ==
  pc' = [w \in Waiters |-> IF pc[w] = "asleep" THEN "woken" ELSE pc[w]]

(* iwl_notification_notify, after the lock has been released. *)
iwl_notification_notify(r) ==
  /\ rxpc[r] = "notify"
  /\ rxpc' = [rxpc EXCEPT ![r] = "idle"]
  /\ WakeUpAll
  /\ UNCHANGED <<expired, ret, nwaits, notif_waits, entryVars, pkt, abortpc,
                 fwVars, historyVars>>

-----------------------------------------------------------------------------
(* The error path, and the firmware.                                       *)

(* iwl_abort_notification_waits, under the lock ... *)
iwl_abort_notification_waits ==
  /\ abortpc = "idle"
  /\ aborted' = [w \in Waiters |-> aborted[w] \/ w \in notif_waits]
  /\ abortpc' = "wake"
  /\ UNCHANGED <<threadVars, notif_waits, cmds, triggered, rxVars, fwVars,
                 historyVars>>

\* Mutant of AbortWakeUp.
AbortSilently ==
  /\ abortpc = "wake"
  /\ abortpc' = "idle"
  /\ UNCHANGED <<threadVars, notif_waits, entryVars, rxVars, fwVars, historyVars>>

(* ... and its wake-up after the lock has been released. *)
AbortWakeUp ==
  /\ abortpc = "wake"
  /\ abortpc' = "idle"
  /\ WakeUpAll
  /\ UNCHANGED <<expired, ret, nwaits, notif_waits, entryVars, rxVars, fwVars,
                 historyVars>>

(* The firmware sends a notification nobody asked for. *)
FwUnsolicited ==
  /\ unsolicited < MaxUnsolicited
  /\ unsolicited' = unsolicited + 1
  /\ \E i \in Ids, l \in BOOLEAN :
       fw' = fw \cup {[id |-> i, last |-> l, by |-> {}, wait |-> 0]}
  /\ UNCHANGED <<threadVars, notif_waits, entryVars, rxVars, abortpc,
                 historyVars>>

-----------------------------------------------------------------------------
ThreadStep(w) ==
  \/ iwl_init_notification_wait(w)
  \/ AskFirmware(w)
  \/ iwl_remove_notification(w)
  \/ WaitEvent(w)
  \/ WaitTimeout(w)
  \/ iwl_wait_notification(w)

RxStep(r) ==
  \/ CheckList(r)
  \/ iwl_notification_wait(r)
  \/ iwl_notification_notify(r)

Next ==
  \/ \E w \in Waiters : ThreadStep(w)
  \/ \E r \in RxContexts : RxStep(r)
  \/ iwl_abort_notification_waits
  \/ AbortWakeUp
  \/ FwUnsolicited

(* Threads that run and interrupt threads that have a packet in hand make  *)
(* progress.  Nothing is assumed of the firmware, of the error path being  *)
(* entered, or of the timeouts, which may be arbitrarily long.             *)
Fairness ==
  /\ \A w \in Waiters : /\ WF_vars(WaitEvent(w))
                        /\ WF_vars(iwl_wait_notification(w))
  /\ \A r \in RxContexts : /\ WF_vars(iwl_notification_wait(r))
                           /\ WF_vars(iwl_notification_notify(r))
  /\ WF_vars(AbortWakeUp)

Spec == Init /\ [][Next]_vars

FairSpec == Spec /\ Fairness

-----------------------------------------------------------------------------
(* Type invariant of the threads, the entries, the RX contexts and the     *)
(* firmware.                                                               *)
TypeOK ==
  /\ pc \in [Waiters -> {"idle", "armed", "asked", "asleep", "woken",
                         "finish"}]
  /\ notif_waits \subseteq Waiters
  /\ cmds \in [Waiters -> SUBSET Ids]
  /\ triggered \in [Waiters -> BOOLEAN]
  /\ aborted \in [Waiters -> BOOLEAN]
  /\ expired \in [Waiters -> BOOLEAN]
  /\ ret \in [Waiters -> Retvals]
  /\ nwaits \in [Waiters -> 0..MaxWaits]
  /\ rxpc \in [RxContexts -> {"idle", "scan", "notify"}]
  /\ pkt \in [RxContexts -> SUBSET Packets]
  /\ abortpc \in {"idle", "wake"}
  /\ fw \subseteq Packets
  /\ unsolicited \in 0..MaxUnsolicited
  /\ accepts \in [Waiters -> Nat]
  /\ answered \in [Waiters -> BOOLEAN]

(* An entry is on the list exactly while its thread is between             *)
(* iwl_init_notification_wait and the removal: the list never holds a      *)
(* pointer to the stack frame of a wait that has returned, and no running  *)
(* wait is missing from it.                                                *)
EntryLifetime == notif_waits = {w \in Waiters : pc[w] # "idle"}

(* The comment in iwl_notification_wait: an entry that was triggered is    *)
(* not evaluated again, so a callback that returned true is never called a *)
(* second time for the same wait, with any number of RX contexts.          *)
CallbackOnce == \A w \in Waiters : accepts[w] <= 1

(* A wait returns success only if its callback accepted a packet while the *)
(* entry was registered and no abort has reached it.                       *)
SuccessIsGenuine ==
  \A w \in Waiters : ret[w] = "ok" => accepts[w] = 1 /\ ~aborted[w]

(* The unlocked list_empty test loses nothing: once the answer a thread    *)
(* asked for has been through iwl_notification_wait, the wait is over.     *)
NoAnswerLost ==
  \A w \in Waiters : answered[w] /\ pc[w] # "idle" => Finished(w)

(* No lost wake-up: a thread that sleeps although its wait is over will be *)
(* woken by the RX context or by the error path that ended the wait.       *)
NoLostWakeup ==
  \A w \in Waiters : pc[w] = "asleep" /\ Finished(w) =>
    abortpc = "wake" \/ \E r \in RxContexts : rxpc[r] = "notify"

-----------------------------------------------------------------------------
(* The inductive invariant the proofs in NotifWaitProof rest on.           *)

(* The history counter follows the triggered flag. *)
AcceptsFollow ==
  \A w \in Waiters : accepts[w] = (IF triggered[w] THEN 1 ELSE 0)

(* How a thread got to the end of wait_event_timeout, and that the result  *)
(* of a wait is only read after it.                                        *)
FinishReason ==
  \A w \in Waiters : /\ pc[w] = "finish" => Finished(w) \/ expired[w]
                     /\ ret[w] = "ok" => pc[w] = "idle"

(* Packets on their way to the notification waits. *)
InFlight == fw \cup UNION {pkt[r] : r \in RxContexts}

(* A packet was asked for by a wait that has been registered, and if that  *)
(* wait is the current one, its entry matches the packet.                  *)
InFlightOK ==
  \A p \in InFlight : \A w \in Waiters :
    w \in p.by =>
      /\ p.wait <= nwaits[w]
      /\ p.wait = nwaits[w] => \E c \in cmds[w] : Matches(c, p.id)

(* All of them together: what every step of fw/notif-wait.c keeps.         *)
IInv ==
  /\ TypeOK
  /\ EntryLifetime
  /\ AcceptsFollow
  /\ FinishReason
  /\ SuccessIsGenuine
  /\ InFlightOK
  /\ NoAnswerLost
  /\ NoLostWakeup

-----------------------------------------------------------------------------
(* A wait that is over returns, however long its timeout is.               *)
FinishedWaitReturns ==
  \A w \in Waiters :
    (pc[w] \in {"asked", "asleep", "woken"} /\ Finished(w)) ~> pc[w] = "idle"
=============================================================================
