--------------------------- MODULE CorrelatedTime ---------------------------
(***************************************************************************)
(* The PTP hardware clock of a discrete device: iwl_mvm_get_correlated_time*)
(* (mvm/timing_measurement.c) pairs a read of the 32-bit microsecond       *)
(* register GP2 with the system time, trying again while the pair looks    *)
(* bad; iwl_mvm_phc_get_crosstimestamp (mvm/ptp.c) reports the pair and    *)
(* keeps it as the reference from which the timing-measurement handlers    *)
(* derive the system time of a frame.                                      *)
(*                                                                         *)
(* The device counter and the system clock run at the same rate here; what *)
(* varies is how long the register read takes and when within it the       *)
(* register is sampled.  One call reads at a time; others are refused      *)
(* while it does, and report what they find.  Nanosecond quantities are    *)
(* integers: the differences the code takes modulo 2^64 and reads as s64   *)
(* are the integer differences.                                            *)
(***************************************************************************)
EXTENDS Integers, FiniteSets

CONSTANTS
  Wrap,          \* 2^32: the register counts modulo Wrap
  NS_PER_COUNT,  \* 1000: nanoseconds in a count of the register
  Slack,         \* 1024: an error of less is accepted
  NUM_TRY_AGAIN, \* 16: readings before the best one is taken
  Delays,        \* how long the halves of a register read may take, in ns
  Pauses,        \* time between two calls, in ns
  U64,           \* 2^64
  MaxTime,       \* bound: no call begins after this time
  MaxRefused     \* bound: calls refused because another one reads

ASSUME CorrelatedTimeAssumption ==
  /\ Wrap \in Nat \ {0}
  /\ NS_PER_COUNT \in Nat \ {0}
  /\ Slack \in Nat
  /\ NUM_TRY_AGAIN \in Nat \ {0}
  /\ Delays \subseteq Nat
  /\ Pauses \subseteq Nat
  /\ U64 \in Nat \ {0}
  /\ MaxTime \in Nat
  /\ MaxRefused \in Nat

VARIABLES
  now,                 \* the time, in ns
  pc,                  \* "idle", "try" or "report"
  s_last_GP2,          \* raw register value kept from the last call
  s_cumulative_gp2,    \* whether the static of this name is not 0
  num_try_again,
  good,                \* the best reading so far, as a set of at most one
  GP2_ns,
  sys_realtime_ns,
  sys_monoraw_ns,
  last_GP2_ns,
  last_system_time_ns,
  error,
  xtstamp,             \* what the last call to return reported
  nrefused,            \* calls refused so far
  calls,               \* history: some call has been reported
  tried                \* history: the readings of this call

refVars == <<last_GP2_ns, last_system_time_ns, error, xtstamp, calls>>
tryVars == <<num_try_again, good, tried>>
timeVars == <<GP2_ns, sys_realtime_ns, sys_monoraw_ns>>
vars == <<now, pc, s_last_GP2, s_cumulative_gp2, tryVars, timeVars, refVars,
          nrefused>>

(* iwl_mvm_mac_start clears the reference; the statics start as 0. *)
Init ==
  /\ now = 1
  /\ pc = "idle"
  /\ s_last_GP2 = 0
  /\ s_cumulative_gp2 = FALSE
  /\ num_try_again = NUM_TRY_AGAIN
  /\ good = {}
  /\ GP2_ns = 0
  /\ sys_realtime_ns = 0
  /\ sys_monoraw_ns = 0
  /\ last_GP2_ns = 0
  /\ last_system_time_ns = 0
  /\ error = 0
  /\ xtstamp = [device |-> 0, sys_realtime |-> 0, sys_monoraw |-> 0]
  /\ nrefused = 0
  /\ calls = FALSE
  /\ tried = {}

-----------------------------------------------------------------------------
(* Some time passes and a cross timestamp is asked for. *)
iwl_mvm_get_correlated_time ==
  /\ pc = "idle"
  /\ now <= MaxTime
  /\ \E d \in Pauses : now' = now + d
  /\ pc' = "try"
  /\ num_try_again' = NUM_TRY_AGAIN
  /\ good' = {}
  /\ tried' = {}
  /\ UNCHANGED <<s_last_GP2, s_cumulative_gp2, timeVars, refVars, nrefused>>

(* The register at time t, and its value adjusted for a wrap since the     *)
(* last call.                                                              *)
Register(t) == (t \div NS_PER_COUNT) % Wrap
Adjusted(gp2) ==
  (IF s_last_GP2 > gp2 THEN gp2 + Wrap ELSE gp2) * NS_PER_COUNT

(* A reading that begins now: the register is sampled after d1 and the     *)
(* read takes d1 + d2; the system time is interpolated at 12/16 of it, and *)
(* the raw time is taken after it.  The error is known only if an earlier  *)
(* call left a register value.                                             *)
Reading(d1, d2) ==
  LET gp2 == Register(now + d1)
      ns  == Adjusted(gp2)
      sys == now + ((d1 + d2) * 12) \div 16
  IN  [gp2 |-> gp2, ns |-> ns, sys |-> sys, raw |-> now + d1 + d2,
       known |-> s_cumulative_gp2 /\ s_last_GP2 # 0,
       err |-> (sys - last_system_time_ns)
                 - (ns - s_last_GP2 * NS_PER_COUNT)]

(* The better of the best reading so far and r; min_error_in_change starts *)
(* larger than any error.  The mutated form keeps the latest.              *)
BetterLatest(r) == {r}
Better(r) == IF \E g \in good : g.err <= r.err THEN good ELSE {r}

(* What s_last_GP2 becomes: good_GP2 unless it is 0, the value that stands *)
(* for none.                                                               *)
LastGP2(r, best) ==
  IF \E g \in best : g.gp2 # 0 THEN (CHOOSE g \in best : TRUE).gp2 ELSE r.gp2

(* The call ends with reading f and best reading best; r was the last one. *)
(* The raw time is not put back to that of f.  The mutated form does not   *)
(* put back the system time either.                                        *)
DoneStaleSystem(r, f, best) ==
  /\ GP2_ns' = f.ns
  /\ sys_realtime_ns' = r.sys
  /\ s_last_GP2' = LastGP2(r, best)
  /\ good' = best
  /\ pc' = "report"
  /\ UNCHANGED num_try_again
Done(r, f, best) ==
  /\ GP2_ns' = f.ns
  /\ sys_realtime_ns' = f.sys
  /\ s_last_GP2' = LastGP2(r, best)
  /\ good' = best
  /\ pc' = "report"
  /\ UNCHANGED num_try_again

(* One pass from TRY_AGAIN. *)
TryAgain ==
  /\ pc = "try"
  /\ \E d1, d2 \in Delays : LET r == Reading(d1, d2) best == Better(r) IN
       /\ now' = now + d1 + d2
       /\ tried' = tried \cup {r}
       /\ sys_monoraw_ns' = r.raw
       /\ \/ (* no delta, or cases 1 and 2: a negative error is accepted *)
             /\ ~r.known \/ r.err < 0
             /\ Done(r, r, good)
          \/ (* case 3, the error is small enough *)
             /\ r.known /\ r.err >= 0
             /\ \A b \in best : b.err < Slack
             /\ Done(r, r, best)
          \/ (* case 3, another try *)
             /\ r.known /\ r.err >= 0
             /\ \E b \in best : b.err >= Slack
             /\ num_try_again > 1
             /\ num_try_again' = num_try_again - 1
             /\ good' = best
             /\ GP2_ns' = r.ns
             /\ sys_realtime_ns' = r.sys
             /\ UNCHANGED <<pc, s_last_GP2>>
          \/ (* case 3, no more tries: the best reading is reported *)
             /\ r.known /\ r.err >= 0
             /\ \E b \in best : b.err >= Slack /\ Done(r, b, best)
             /\ num_try_again = 1
  /\ s_cumulative_gp2' = TRUE
  /\ UNCHANGED <<refVars, nrefused>>

(* The rest of iwl_mvm_phc_get_crosstimestamp, for a call that found dev,  *)
(* sys and raw: the system time is reported with the drift since the last  *)
(* call added and kept without it.                                         *)
Drift(dev, sys) ==
  IF last_GP2_ns # 0
  THEN (sys - last_system_time_ns) - (dev - last_GP2_ns) ELSE 0
Report(dev, sys, raw) ==
  /\ error' = Drift(dev, sys)
  /\ last_GP2_ns' = dev
  /\ last_system_time_ns' = sys
  /\ xtstamp' = [device |-> dev, sys_realtime |-> sys + Drift(dev, sys),
                 sys_monoraw |-> raw]
  /\ calls' = TRUE

iwl_mvm_phc_get_crosstimestamp ==
  /\ pc = "report"
  /\ pc' = "idle"
  /\ Report(GP2_ns, sys_realtime_ns, sys_monoraw_ns)
  /\ UNCHANGED <<now, s_last_GP2, s_cumulative_gp2, tryVars, timeVars,
                 nrefused>>

(* A call that iwl_mvm_get_correlated_time refuses, because another one    *)
(* keeps firmware_operation_done set: its caller does not look at the      *)
(* result and reports what the fields hold, each at its own moment, then   *)
(* or later: what the other call found there or one of its readings.       *)
RefusedCall ==
  /\ nrefused < MaxRefused
  /\ pc = "try" \/ tried # {}
  /\ nrefused' = nrefused + 1
  /\ \E dev \in {GP2_ns} \cup {r.ns : r \in tried},
        sys \in {sys_realtime_ns} \cup {r.sys : r \in tried},
        raw \in {sys_monoraw_ns} \cup {r.raw : r \in tried} :
       Report(dev, sys, raw)
  /\ UNCHANGED <<now, pc, s_last_GP2, s_cumulative_gp2, tryVars, timeVars>>

Next ==
  \/ iwl_mvm_get_correlated_time
  \/ TryAgain
  \/ iwl_mvm_phc_get_crosstimestamp
  \/ RefusedCall

Spec == Init /\ [][Next]_vars

(* A call that began goes on: nothing in it waits. *)
FairSpec ==
  Spec /\ WF_vars(TryAgain) /\ WF_vars(iwl_mvm_phc_get_crosstimestamp)

-----------------------------------------------------------------------------
(* The system time of a frame (in ns) with device time stamp ts, as the    *)
(* timing-measurement handlers compute it in u64 arithmetic.  The mutated  *)
(* form takes the counter for a 32-bit one where it has wrapped.           *)
SystemTime32(ts) ==
  IF last_GP2_ns > ts
  THEN (last_system_time_ns + (ts + (Wrap - 1 - last_GP2_ns)) + error) % U64
  ELSE (last_system_time_ns + (ts - last_GP2_ns) + error) % U64
get_system_time_corresponding_to_ts(ts) ==
  IF last_GP2_ns > ts
  THEN (last_system_time_ns + (ts + (U64 - 1 - last_GP2_ns)) + error) % U64
  ELSE (last_system_time_ns + (ts - last_GP2_ns) + error) % U64

(* The times of two frames are as far apart as their time stamps, up to    *)
(* the nanosecond the wrap branch loses, whichever side of the reference   *)
(* they are on: ingress and egress times are in the order of the frames.   *)
FrameTimesOrdered ==
  \A a, b \in {0} \cup ((last_GP2_ns - 2)..(last_GP2_ns + 2)) :
    pc = "idle" /\ 0 <= a /\ a <= b =>
      (get_system_time_corresponding_to_ts(b)
         - get_system_time_corresponding_to_ts(a)) % U64 \in {b - a, b - a + 1}

-----------------------------------------------------------------------------
Readings == [gp2 : 0..(Wrap - 1), ns : Nat, sys : Nat, raw : Nat,
             known : BOOLEAN, err : Int]

(* Type invariant: a kept register value is below the wrap, and tries are  *)
(* counted from NUM_TRY_AGAIN down to 1.                                   *)
TypeOK ==
  /\ now \in Nat
  /\ pc \in {"idle", "try", "report"}
  /\ s_last_GP2 \in 0..(Wrap - 1)
  /\ s_cumulative_gp2 \in BOOLEAN
  /\ num_try_again \in 1..NUM_TRY_AGAIN
  /\ good \subseteq Readings
  /\ GP2_ns \in Nat
  /\ sys_realtime_ns \in Nat
  /\ sys_monoraw_ns \in Nat
  /\ last_GP2_ns \in Nat
  /\ last_system_time_ns \in Nat
  /\ error \in Int
  /\ xtstamp \in [device : Nat, sys_realtime : Int, sys_monoraw : Nat]
  /\ nrefused \in 0..MaxRefused
  /\ calls \in BOOLEAN
  /\ tried \subseteq Readings

(* A reading that the call may report: the device time and the system time *)
(* it hands over are of this reading.                                      *)
Reported(r) == r.ns = GP2_ns /\ r.sys = sys_realtime_ns

(* The device time and the system time a call hands over come from one and *)
(* the same reading of that call, also when the call falls back to its     *)
(* best reading; the raw time is of that reading too, or, once the tries   *)
(* are used up, of the last one.  A call that is refused meanwhile changes *)
(* nothing of it.                                                          *)
PairFromOneReading ==
  pc = "report" =>
    \E r \in tried :
      /\ Reported(r)
      /\ \/ r.raw = sys_monoraw_ns
         \/ /\ num_try_again = 1
            /\ \A q \in tried : q.raw <= sys_monoraw_ns

(* A call hands over a reading whose error, against the reference at the   *)
(* time of the reading, was unknown or below Slack; or it has used all its *)
(* tries, and it is the reading with the smallest error of all of them.    *)
BestOfTries ==
  pc = "report" =>
    \E r \in tried :
      /\ Reported(r)
      /\ r.known /\ r.err >= Slack
           => num_try_again = 1 /\ \A q \in tried : r.err <= q.err

(* u64_GP2 is "adjusted for wrap": the device time two successive calls    *)
(* report never goes backwards.                                            *)
DeviceTimeMonotonic == [][calls => xtstamp'.device >= xtstamp.device]_vars

(* s_last_GP2 is the "last GP2 register value": when a call has reported   *)
(* its device time, s_last_GP2 is the register value behind it.            *)
LastIsReported ==
  pc = "idle" /\ calls
    => s_last_GP2 = (xtstamp.device \div NS_PER_COUNT) % Wrap

(* "Read device and system (ART) clock simultaneously": the three times a  *)
(* call that was not refused reports come from one reading.                *)
ReadSimultaneously ==
  pc = "report" =>
    \E r \in tried : Reported(r) /\ r.raw = sys_monoraw_ns
=============================================================================
