------------------------- MODULE CorrelatedTimeProof -------------------------
(***************************************************************************)
(* Proofs about the reading loop of CorrelatedTime: for every width of the *)
(* register, slack, number of tries and length of a reading, the pair a    *)
(* call reports is one reading of that call, and the best of them when the *)
(* tries are used up; and frame time stamps converted with it are ordered  *)
(* like the register values they come from.                                *)
(***************************************************************************)
EXTENDS CorrelatedTime, TLAPS

(* Between two tries every reading was refused for its error, so the best  *)
(* one is a reading of this call with an error of Slack or more; and raw   *)
(* times only grow.                                                        *)
TryInv ==
  pc = "try" =>
    /\ tried # {} => good # {}
    /\ \A r \in tried : r.raw <= now
    /\ \A g \in good : g \in tried /\ g.err >= Slack
    /\ \A g \in good : \A r \in tried : g.err <= r.err

IInv == TypeOK /\ TryInv /\ PairFromOneReading /\ BestOfTries

(* A reading is well formed, and so is what is kept of it. *)
LEMMA ReadingType ==
  ASSUME TypeOK, NEW d1 \in Delays, NEW d2 \in Delays
  PROVE  /\ Reading(d1, d2) \in Readings
         /\ Reading(d1, d2).raw = now + d1 + d2
         /\ Better(Reading(d1, d2)) \subseteq good \cup {Reading(d1, d2)}
         /\ Better(Reading(d1, d2)) # {}
  <1> DEFINE gp2 == Register(now + d1)
             ns == Adjusted(gp2)
             sys == now + ((d1 + d2) * 12) \div 16
  <1>1. d1 \in Nat /\ d2 \in Nat /\ now \in Nat /\ s_last_GP2 \in 0..(Wrap - 1)
    BY CorrelatedTimeAssumption DEF TypeOK
  <1>2. (now + d1) \div NS_PER_COUNT \in Nat
    BY <1>1, CorrelatedTimeAssumption
  <1>3. gp2 \in 0..(Wrap - 1)
    BY <1>2, CorrelatedTimeAssumption DEF Register
  <1>4. ns \in Nat
    <2>1. gp2 \in Nat /\ gp2 + Wrap \in Nat
      BY <1>3, CorrelatedTimeAssumption
    <2>2. (IF s_last_GP2 > gp2 THEN gp2 + Wrap ELSE gp2) \in Nat
      BY <2>1
    <2> HIDE DEF gp2
    <2>3. \A x \in Nat : x * NS_PER_COUNT \in Nat
      BY CorrelatedTimeAssumption
    <2> QED
      BY <2>2, <2>3 DEF Adjusted
  <1>5. sys \in Nat
    BY <1>1
  <1>6. s_last_GP2 * NS_PER_COUNT \in Int
    BY <1>1, CorrelatedTimeAssumption
  <1>7. (sys - last_system_time_ns) - (ns - s_last_GP2 * NS_PER_COUNT) \in Int
    <2> HIDE DEF sys, ns
    <2> QED
      BY <1>4, <1>5, <1>6 DEF TypeOK
  <1>8. Reading(d1, d2) = [gp2 |-> gp2, ns |-> ns, sys |-> sys,
                           raw |-> now + d1 + d2,
                           known |-> s_cumulative_gp2 /\ s_last_GP2 # 0,
                           err |-> (sys - last_system_time_ns)
                                     - (ns - s_last_GP2 * NS_PER_COUNT)]
    BY DEF Reading
  <1>9. (s_cumulative_gp2 /\ s_last_GP2 # 0) \in BOOLEAN
    BY DEF TypeOK
  <1> HIDE DEF gp2, ns, sys
  <1>10. now + d1 + d2 \in Nat
    BY <1>1
  <1>11. Reading(d1, d2) \in Readings
    BY <1>3, <1>4, <1>5, <1>7, <1>8, <1>9, <1>10 DEF Readings
  <1>12. Reading(d1, d2).raw = now + d1 + d2
    BY <1>8
  <1>13. /\ Better(Reading(d1, d2)) \subseteq good \cup {Reading(d1, d2)}
         /\ Better(Reading(d1, d2)) # {}
    BY DEF Better
  <1> QED
    BY <1>11, <1>12, <1>13

(* The register value a call keeps is one of a reading. *)
LEMMA LastType ==
  ASSUME NEW r \in Readings, NEW best \in SUBSET Readings
  PROVE  LastGP2(r, best) \in 0..(Wrap - 1)
  <1>1. CASE \E g \in best : g.gp2 # 0
    <2>1. (CHOOSE g \in best : TRUE) \in best
      BY <1>1
    <2>2. (CHOOSE g \in best : TRUE) \in Readings
      BY <2>1
    <2> QED
      BY <1>1, <2>2 DEF LastGP2, Readings
  <1>2. CASE ~(\E g \in best : g.gp2 # 0)
    BY <1>2 DEF LastGP2, Readings
  <1> QED
    BY <1>1, <1>2

LEMMA InitIInv == Init => IInv
  <1>1. ASSUME Init PROVE TypeOK
    <2>1. 0 \in 0..(Wrap - 1) /\ NUM_TRY_AGAIN \in 1..NUM_TRY_AGAIN
      BY CorrelatedTimeAssumption
    <2>2. now \in Nat /\ error \in Int /\ last_GP2_ns \in Nat /\ GP2_ns \in Nat
      BY <1>1 DEF Init
    <2>3. /\ sys_realtime_ns \in Nat /\ last_system_time_ns \in Nat
          /\ sys_monoraw_ns \in Nat /\ nrefused \in 0..MaxRefused
          /\ xtstamp \in [device : Nat, sys_realtime : Int, sys_monoraw : Nat]
      BY <1>1, CorrelatedTimeAssumption DEF Init
    <2>4. s_last_GP2 \in 0..(Wrap - 1) /\ num_try_again \in 1..NUM_TRY_AGAIN
      BY <1>1, <2>1 DEF Init
    <2>5. /\ pc \in {"idle", "try", "report"}
          /\ s_cumulative_gp2 \in BOOLEAN /\ calls \in BOOLEAN
          /\ good \subseteq Readings /\ tried \subseteq Readings
      BY <1>1 DEF Init
    <2> QED
      BY <2>2, <2>3, <2>4, <2>5 DEF TypeOK
  <1>2. Init => TryInv /\ PairFromOneReading /\ BestOfTries
    BY DEF Init, TryInv, PairFromOneReading, BestOfTries
  <1> QED
    BY <1>1, <1>2 DEF IInv

(* A try keeps the invariant. *)
LEMMA TryStep == IInv /\ TryAgain => IInv'
  <1> SUFFICES ASSUME IInv, TryAgain PROVE IInv'
    OBVIOUS
  <1>1. PICK d1 \in Delays, d2 \in Delays :
          LET r == Reading(d1, d2)
              best == Better(r)
          IN  /\ now' = now + d1 + d2
              /\ tried' = tried \cup {r}
              /\ sys_monoraw_ns' = r.raw
              /\ \/ /\ ~r.known \/ r.err < 0
                    /\ Done(r, r, good)
                 \/ /\ r.known /\ r.err >= 0
                    /\ \A b \in best : b.err < Slack
                    /\ Done(r, r, best)
                 \/ /\ r.known /\ r.err >= 0
                    /\ \E b \in best : b.err >= Slack
                    /\ num_try_again > 1
                    /\ num_try_again' = num_try_again - 1
                    /\ good' = best
                    /\ GP2_ns' = r.ns
                    /\ sys_realtime_ns' = r.sys
                    /\ UNCHANGED <<pc, s_last_GP2>>
                 \/ /\ r.known /\ r.err >= 0
                    /\ \E b \in best : b.err >= Slack /\ Done(r, b, best)
                    /\ num_try_again = 1
    BY DEF TryAgain
  <1> DEFINE r == Reading(d1, d2)
             best == Better(r)
  <1>2. /\ r \in Readings
        /\ r.raw = now + d1 + d2
        /\ best \subseteq good \cup {r}
        /\ best # {}
    BY ReadingType DEF IInv
  <1>3. /\ pc = "try"
        /\ s_cumulative_gp2' = TRUE
        /\ UNCHANGED <<refVars, nrefused>>
    BY DEF TryAgain
  <1>4. /\ tried' = tried \cup {r} /\ sys_monoraw_ns' = r.raw
        /\ now' = r.raw /\ now' \in Nat /\ now <= now'
    BY <1>1, <1>2, CorrelatedTimeAssumption DEF IInv, TypeOK
  <1>5. best \in SUBSET Readings /\ tried' \in SUBSET Readings
    BY <1>2, <1>4 DEF IInv, TypeOK
  <1>6. best = {r} \/ (best = good /\ \E g \in good : g.err <= r.err)
    BY DEF Better
  <1>7. /\ tried # {} => good # {}
        /\ \A t \in tried : t.raw <= now
        /\ \A g \in good : g \in tried /\ g.err >= Slack
        /\ \A g \in good : \A t \in tried : g.err <= t.err
    BY <1>3 DEF IInv, TryInv
  <1>8. \A t \in tried' : t \in Readings /\ t.err \in Int /\ t.raw \in Nat
    BY <1>5 DEF Readings
  <1>9. \A t \in tried' : t.raw <= now'
    <2>1. now \in Nat
      BY DEF IInv, TypeOK
    <2> QED
      BY <1>4, <1>7, <1>8, <2>1
  <1>10. \A g \in best : g \in tried' /\ \A t \in tried' : g.err <= t.err
    BY <1>2, <1>4, <1>6, <1>7, <1>8 DEF Better
  <1> HIDE DEF r, best
  <1>11. CASE (~r.known \/ r.err < 0) /\ Done(r, r, good)
    <2>1. LastGP2(r, good) \in 0..(Wrap - 1)
      BY <1>2, LastType DEF IInv, TypeOK
    <2>2. TypeOK'
      BY <1>2, <1>3, <1>4, <1>5, <1>11, <2>1
      DEF IInv, TypeOK, Done, refVars, Readings
    <2>3. /\ r \in tried' /\ r.raw = sys_monoraw_ns'
          /\ r.ns = GP2_ns' /\ r.sys = sys_realtime_ns'
      BY <1>4, <1>11 DEF Done
    <2>4. ~(r.known /\ r.err >= Slack)
      BY <1>2, <1>11, CorrelatedTimeAssumption DEF Readings
    <2>5. PairFromOneReading' /\ BestOfTries'
      BY <2>3, <2>4 DEF PairFromOneReading, BestOfTries, Reported
    <2>6. TryInv'
      BY <1>11 DEF Done, TryInv
    <2> QED
      BY <2>2, <2>5, <2>6 DEF IInv
  <1>12. CASE r.known /\ r.err >= 0 /\ (\A b \in best : b.err < Slack) /\ Done(r, r, best)
    <2>1. LastGP2(r, best) \in 0..(Wrap - 1)
      BY <1>2, <1>5, LastType
    <2>2. TypeOK'
      BY <1>2, <1>3, <1>4, <1>5, <1>12, <2>1
      DEF IInv, TypeOK, Done, refVars, Readings
    <2>3. /\ r \in tried' /\ r.raw = sys_monoraw_ns'
          /\ r.ns = GP2_ns' /\ r.sys = sys_realtime_ns'
      BY <1>4, <1>12 DEF Done
    <2>4. r.err < Slack
      <3>1. \A g \in good : g.err \in Int /\ Slack \in Int
        BY CorrelatedTimeAssumption DEF IInv, TypeOK, Readings
      <3>2. ~(best = good /\ \E g \in good : g.err <= r.err)
        BY <1>7, <1>12, <3>1
      <3> QED
        BY <1>6, <1>12, <3>2
    <2>5. ~(r.err >= Slack)
      BY <1>2, <2>4, CorrelatedTimeAssumption DEF Readings
    <2>6. PairFromOneReading' /\ BestOfTries'
      BY <2>3, <2>5 DEF PairFromOneReading, BestOfTries, Reported
    <2>7. TryInv'
      BY <1>12 DEF Done, TryInv
    <2> QED
      BY <2>2, <2>6, <2>7 DEF IInv
  <1>13. CASE /\ r.known /\ r.err >= 0
              /\ \E b \in best : b.err >= Slack
              /\ num_try_again > 1
              /\ num_try_again' = num_try_again - 1
              /\ good' = best
              /\ GP2_ns' = r.ns
              /\ sys_realtime_ns' = r.sys
              /\ UNCHANGED <<pc, s_last_GP2>>
    <2>1. TypeOK'
      BY <1>2, <1>3, <1>4, <1>5, <1>13, CorrelatedTimeAssumption
      DEF IInv, TypeOK, refVars, Readings
    <2>2. good' # {}
      BY <1>2, <1>13
    <2>3. \A g \in good' : \A t \in tried' : g.err <= t.err
      BY <1>10, <1>13
    <2>4. \A g \in good' : g \in tried' /\ g.err >= Slack
      <3>1. \A g \in best : g.err >= Slack
        BY <1>6, <1>7, <1>13
      <3> QED
        BY <1>10, <1>13, <3>1
    <2>5. TryInv'
      BY <1>9, <2>2, <2>3, <2>4 DEF TryInv
    <2>6. PairFromOneReading' /\ BestOfTries'
      BY <1>3, <1>13 DEF PairFromOneReading, BestOfTries
    <2> QED
      BY <2>1, <2>5, <2>6 DEF IInv
  <1>14. CASE /\ r.known /\ r.err >= 0
              /\ \E b \in best : b.err >= Slack /\ Done(r, b, best)
              /\ num_try_again = 1
    <2>1. PICK b \in best : b.err >= Slack /\ Done(r, b, best)
      BY <1>14
    <2>2. LastGP2(r, best) \in 0..(Wrap - 1)
      BY <1>2, <1>5, LastType
    <2>3. /\ b \in tried' /\ b \in Readings
          /\ b.ns = GP2_ns' /\ b.sys = sys_realtime_ns'
      BY <1>5, <1>10, <2>1 DEF Done
    <2>4. TypeOK'
      BY <1>2, <1>3, <1>4, <1>5, <2>1, <2>2, <2>3
      DEF IInv, TypeOK, Done, refVars, Readings
    <2>5. num_try_again' = 1
      BY <1>14, <2>1 DEF Done
    <2>6. \A t \in tried' : t.raw <= sys_monoraw_ns' /\ b.err <= t.err
      BY <1>4, <1>9, <1>10, <2>1
    <2>7. PairFromOneReading' /\ BestOfTries'
      BY <2>3, <2>5, <2>6 DEF PairFromOneReading, BestOfTries, Reported
    <2>8. TryInv'
      BY <2>1 DEF Done, TryInv
    <2> QED
      BY <2>4, <2>7, <2>8 DEF IInv
  <1> QED
    BY <1>1, <1>11, <1>12, <1>13, <1>14 DEF r, best

(* The rest of a call keeps the types: the drift is an integer. *)
LEMMA ReportType ==
  ASSUME TypeOK, NEW dev \in Nat, NEW sys \in Nat, NEW raw \in Nat,
         Report(dev, sys, raw)
  PROVE  /\ error' \in Int
         /\ last_GP2_ns' = dev
         /\ last_system_time_ns' \in Nat
         /\ xtstamp' \in [device : Nat, sys_realtime : Int, sys_monoraw : Nat]
         /\ calls' \in BOOLEAN
  <1>1. Drift(dev, sys) \in Int
    BY DEF TypeOK, Drift
  <1>2. sys + Drift(dev, sys) \in Int
    BY <1>1
  <1> QED
    BY <1>1, <1>2 DEF Report

(* Every step keeps the invariant. *)
LEMMA StepIInv == IInv /\ [Next]_vars => IInv'
  <1> SUFFICES ASSUME IInv, [Next]_vars PROVE IInv'
    OBVIOUS
  <1>1. CASE iwl_mvm_get_correlated_time
    <2>1. TypeOK'
      BY <1>1, CorrelatedTimeAssumption
      DEF IInv, TypeOK, iwl_mvm_get_correlated_time, refVars, timeVars
    <2>2. TryInv' /\ PairFromOneReading' /\ BestOfTries'
      BY <1>1 DEF iwl_mvm_get_correlated_time, TryInv, PairFromOneReading, BestOfTries
    <2> QED
      BY <2>1, <2>2 DEF IInv
  <1>2. CASE TryAgain
    BY <1>2, TryStep
  <1>3. CASE iwl_mvm_phc_get_crosstimestamp
    <2>1. Report(GP2_ns, sys_realtime_ns, sys_monoraw_ns)
      BY <1>3 DEF iwl_mvm_phc_get_crosstimestamp
    <2>2. TypeOK'
      <3>1. GP2_ns \in Nat /\ sys_realtime_ns \in Nat /\ sys_monoraw_ns \in Nat
        BY DEF IInv, TypeOK
      <3> QED
        BY <1>3, <2>1, <3>1, ReportType
        DEF IInv, TypeOK, iwl_mvm_phc_get_crosstimestamp, tryVars, timeVars
    <2>3. TryInv' /\ PairFromOneReading' /\ BestOfTries'
      BY <1>3 DEF iwl_mvm_phc_get_crosstimestamp, TryInv, PairFromOneReading, BestOfTries
    <2> QED
      BY <2>2, <2>3 DEF IInv
  <1>4. CASE RefusedCall
    <2>1. PICK dev \in {GP2_ns} \cup {r.ns : r \in tried} :
          \E sys \in {sys_realtime_ns} \cup {r.sys : r \in tried},
             raw \in {sys_monoraw_ns} \cup {r.raw : r \in tried} :
            Report(dev, sys, raw)
      BY <1>4 DEF RefusedCall
    <2>2. PICK sys \in {sys_realtime_ns} \cup {r.sys : r \in tried},
               raw \in {sys_monoraw_ns} \cup {r.raw : r \in tried} :
            Report(dev, sys, raw)
      BY <2>1
    <2>3. dev \in Nat /\ sys \in Nat /\ raw \in Nat
      BY DEF IInv, TypeOK, Readings
    <2>4. nrefused' \in 0..MaxRefused
      BY <1>4, CorrelatedTimeAssumption DEF RefusedCall, IInv, TypeOK
    <2>5. TypeOK'
      BY <1>4, <2>2, <2>3, <2>4, ReportType
      DEF RefusedCall, IInv, TypeOK, tryVars, timeVars
    <2>6. TryInv' /\ PairFromOneReading' /\ BestOfTries'
      BY <1>4 DEF RefusedCall, IInv, TryInv, PairFromOneReading, BestOfTries,
                  Reported, tryVars, timeVars
    <2> QED
      BY <2>5, <2>6 DEF IInv
  <1>5. CASE UNCHANGED vars
    BY <1>5 DEF IInv, TypeOK, TryInv, PairFromOneReading, BestOfTries, Reported,
                vars, refVars, tryVars, timeVars
  <1> QED
    BY <1>1, <1>2, <1>3, <1>4, <1>5 DEF Next

(* The reading loop keeps its invariant. *)
LEMMA Invariant == Spec => []IInv
  BY InitIInv, StepIInv, PTL DEF Spec

(* Type correctness: a kept register value is below the wrap, and the tries *)
(* are counted down to 1 and no further.                                   *)
THEOREM TypeCorrect == Spec => []TypeOK
  <1>1. IInv => TypeOK
    BY DEF IInv
  <1> QED
    BY Invariant, <1>1, PTL

(* The device time and the system time a call hands over come from one     *)
(* reading of that call, also after the retreat to the best reading, which *)
(* alone may leave the raw time of another reading, the last.              *)
THEOREM PairCorrect == Spec => []PairFromOneReading
  <1>1. IInv => PairFromOneReading
    BY DEF IInv
  <1> QED
    BY Invariant, <1>1, PTL

(* A call hands over a reading with an error below Slack, or, its tries    *)
(* used up, the one with the smallest error among them, also when a        *)
(* refused call moves the reference between two tries.                     *)
THEOREM BestCorrect == Spec => []BestOfTries
  <1>1. IInv => BestOfTries
    BY DEF IInv
  <1> QED
    BY Invariant, <1>1, PTL
------------------------------------------------------------------------------
(* The system times of frames *)

(* A remainder is known from any way to write the number with it. *)
LEMMA RemainderIs ==
  ASSUME NEW n \in Int, NEW d \in Nat \ {0}, NEW k \in Int, NEW r \in 0..(d - 1),
         n = d * k + r
  PROVE  n % d = r
  <1>1. n = d * (n \div d) + (n % d) /\ n % d \in 0..(d - 1) /\ n \div d \in Int
    OBVIOUS
  <1>2. PICK m \in Int : m = k - (n \div d)
    BY <1>1
  <1>3. d * m = (n % d) - r
    BY <1>1, <1>2
  <1>4. m >= 1 => d * m >= d
    OBVIOUS
  <1>5. m <= -1 => d * m <= -d
    OBVIOUS
  <1>6. m = 0
    BY <1>1, <1>3, <1>4, <1>5
  <1> QED
    BY <1>1, <1>3, <1>6

(* The difference of two u64 values is that of the numbers they are cut    *)
(* from, when it fits.                                                     *)
LEMMA DifferenceIs ==
  ASSUME NEW p \in Int, NEW q \in Int, NEW k \in Int, NEW d \in 0..(U64 - 1),
         p - q = U64 * k + d
  PROVE  ((p % U64) - (q % U64)) % U64 = d
  <1>0. U64 \in Nat \ {0}
    BY CorrelatedTimeAssumption
  <1>1. PICK a \in Int, x \in Int : p = U64 * a + x /\ x = p % U64
    <2>1. p = U64 * (p \div U64) + (p % U64) /\ p \div U64 \in Int /\ p % U64 \in Int
      BY <1>0
    <2> QED
      BY <2>1
  <1>2. PICK b \in Int, y \in Int : q = U64 * b + y /\ y = q % U64
    <2>1. q = U64 * (q \div U64) + (q % U64) /\ q \div U64 \in Int /\ q % U64 \in Int
      BY <1>0
    <2> QED
      BY <2>1
  <1>3. x - y = U64 * (k - a + b) + d /\ k - a + b \in Int /\ x - y \in Int
    <2>1. /\ U64 * (k - a + b) = U64 * k - U64 * a + U64 * b
          /\ U64 * k \in Int /\ U64 * a \in Int /\ U64 * b \in Int
      BY <1>0
    <2>2. x = p - U64 * a /\ y = q - U64 * b
      BY <1>0, <1>1, <1>2, <2>1
    <2> QED
      BY <2>1, <2>2
  <1>4. (x - y) % U64 = d
    BY <1>0, <1>3, RemainderIs
  <1> QED
    BY <1>1, <1>2, <1>4

(* The system times of any two frames of one reference whose time stamps   *)
(* fit in 64 bits are as far apart as the time stamps, up to 1 ns.         *)
LEMMA FramesApart ==
  ASSUME TypeOK, NEW a \in Nat, NEW b \in Nat, a <= b, b - a + 1 < U64
  PROVE  (get_system_time_corresponding_to_ts(b)
            - get_system_time_corresponding_to_ts(a)) % U64 \in {b - a, b - a + 1}
  <1>1. PICK l, s, e \in Int :
          l = last_GP2_ns /\ s = last_system_time_ns /\ e = error
    BY DEF TypeOK
  <1>2. U64 \in Nat \ {0} /\ U64 \in Int
    BY CorrelatedTimeAssumption
  <1>3. PICK p \in Int, q \in Int :
          /\ p = IF l > b THEN s + (b + (U64 - 1 - l)) + e ELSE s + (b - l) + e
          /\ q = IF l > a THEN s + (a + (U64 - 1 - l)) + e ELSE s + (a - l) + e
    <2>1. \A t \in Nat : /\ s + (t + (U64 - 1 - l)) + e \in Int
                         /\ s + (t - l) + e \in Int
      BY <1>2
    <2>2. (IF l > b THEN s + (b + (U64 - 1 - l)) + e ELSE s + (b - l) + e) \in Int
      BY <2>1
    <2>3. (IF l > a THEN s + (a + (U64 - 1 - l)) + e ELSE s + (a - l) + e) \in Int
      BY <2>1
    <2> QED
      BY <2>2, <2>3
  <1>4. /\ get_system_time_corresponding_to_ts(b) = p % U64
        /\ get_system_time_corresponding_to_ts(a) = q % U64
    BY <1>1, <1>3 DEF get_system_time_corresponding_to_ts
  <1>5. CASE l > b \/ ~(l > a)
    <2>1. p - q = b - a
      BY <1>2, <1>3, <1>5
    <2>2. p - q = U64 * 0 + (b - a) /\ b - a \in 0..(U64 - 1)
      BY <1>2, <2>1
    <2>3. ((p % U64) - (q % U64)) % U64 = b - a
      BY <2>2, DifferenceIs
    <2> QED
      BY <1>4, <2>3
  <1>6. CASE l > a /\ ~(l > b)
    <2>1. p - q = b - a + 1 - U64
      BY <1>2, <1>3, <1>6
    <2>2. p - q = U64 * (-1) + (b - a + 1) /\ b - a + 1 \in 0..(U64 - 1) /\ -1 \in Int
      BY <1>2, <2>1
    <2>3. ((p % U64) - (q % U64)) % U64 = b - a + 1
      BY <2>2, DifferenceIs
    <2> QED
      BY <1>4, <2>3
  <1> QED
    BY <1>5, <1>6

(* Device times are below two turns of the register. *)
Turns == 2 * (Wrap * NS_PER_COUNT)
RangeInv ==
  /\ GP2_ns < Turns /\ last_GP2_ns < Turns
  /\ \A g \in good \cup tried : g.ns < Turns

LEMMA ReadingRange ==
  ASSUME TypeOK, NEW d1 \in Delays, NEW d2 \in Delays
  PROVE  Reading(d1, d2).ns < Turns
  <1> USE CorrelatedTimeAssumption
  <1>1. d1 \in Nat /\ now \in Nat /\ s_last_GP2 \in 0..(Wrap - 1)
    BY DEF TypeOK
  <1>2. (now + d1) \div NS_PER_COUNT \in Nat
    BY <1>1
  <1>3. PICK g \in 0..(Wrap - 1) : g = Register(now + d1)
    BY <1>2 DEF Register
  <1>4. PICK c \in 0..(2 * Wrap - 1) : c = IF s_last_GP2 > g THEN g + Wrap ELSE g
    BY <1>1
  <1>5. Reading(d1, d2).ns = c * NS_PER_COUNT
    BY <1>3, <1>4 DEF Reading, Adjusted
  <1>6. PICK m \in Nat : m = 2 * Wrap - c /\ m >= 1
    <2>1. 2 * Wrap - c \in Nat /\ 2 * Wrap - c >= 1
      BY <1>4
    <2> QED
      BY <2>1
  <1>7. m * NS_PER_COUNT >= NS_PER_COUNT
    BY <1>6
  <1>8. Turns = c * NS_PER_COUNT + m * NS_PER_COUNT
    BY <1>6 DEF Turns
  <1>9. c * NS_PER_COUNT \in Nat /\ m * NS_PER_COUNT \in Nat
    BY <1>4, <1>6
  <1> QED
    BY <1>5, <1>7, <1>8, <1>9

LEMMA RangeStep == TypeOK /\ RangeInv /\ [Next]_vars => RangeInv'
  <1> SUFFICES ASSUME TypeOK, RangeInv, [Next]_vars PROVE RangeInv'
    OBVIOUS
  <1>0. Turns' = Turns
    BY DEF Turns
  <1>1. CASE iwl_mvm_get_correlated_time
    BY <1>0, <1>1 DEF iwl_mvm_get_correlated_time, refVars, timeVars, RangeInv
  <1>2. CASE TryAgain
    <2>1. PICK d1 \in Delays, d2 \in Delays : \E f :
            /\ f \in good \cup {Reading(d1, d2)}
            /\ good' \subseteq good \cup {Reading(d1, d2)}
            /\ tried' = tried \cup {Reading(d1, d2)}
            /\ GP2_ns' = f.ns
      BY <1>2 DEF TryAgain, Done, Better
    <2>2. \A g \in good \cup tried \cup {Reading(d1, d2)} : g.ns < Turns
      BY ReadingRange DEF RangeInv
    <2>3. last_GP2_ns' = last_GP2_ns
      BY <1>2 DEF TryAgain, refVars
    <2> QED
      BY <1>0, <2>1, <2>2, <2>3 DEF RangeInv
  <1>3. CASE iwl_mvm_phc_get_crosstimestamp
    BY <1>0, <1>3 DEF iwl_mvm_phc_get_crosstimestamp, Report, tryVars, timeVars,
                      RangeInv
  <1>4. CASE RefusedCall
    <2>1. last_GP2_ns' \in {GP2_ns} \cup {r.ns : r \in tried}
      BY <1>4 DEF RefusedCall, Report
    <2> QED
      BY <1>0, <1>4, <2>1 DEF RefusedCall, tryVars, timeVars, RangeInv
  <1>5. CASE UNCHANGED vars
    BY <1>0, <1>5 DEF vars, refVars, tryVars, timeVars, RangeInv
  <1> QED
    BY <1>1, <1>2, <1>3, <1>4, <1>5 DEF Next

(* When two turns of the register and three more ns fit in 64 bits (2^33 us  *)
(* do), frames on either side of the reference keep their order and their  *)
(* distance, to the nanosecond the wrap branch of                          *)
(* get_system_time_corresponding_to_ts loses.                              *)
THEOREM FramesOrdered ==
  ASSUME 2 * (Wrap * NS_PER_COUNT) + 3 <= U64
  PROVE  Spec => []FrameTimesOrdered
  <1>1. Init => RangeInv
    <2>1. Wrap * NS_PER_COUNT >= 1
      BY CorrelatedTimeAssumption
    <2>2. 0 < Turns
      BY <2>1, CorrelatedTimeAssumption DEF Turns
    <2> QED
      BY <2>2 DEF Init, RangeInv
  <1>2. TypeOK /\ RangeInv => FrameTimesOrdered
    <2> SUFFICES ASSUME TypeOK, RangeInv,
                        NEW a \in {0} \cup ((last_GP2_ns - 2)..(last_GP2_ns + 2)),
                        NEW b \in {0} \cup ((last_GP2_ns - 2)..(last_GP2_ns + 2)),
                        0 <= a, a <= b
                 PROVE  (get_system_time_corresponding_to_ts(b)
                           - get_system_time_corresponding_to_ts(a)) % U64
                          \in {b - a, b - a + 1}
      BY DEF FrameTimesOrdered
    <2>1. PICK l \in Nat : l = last_GP2_ns /\ l < Turns
      BY DEF TypeOK, RangeInv
    <2>2. a \in Nat /\ b \in Nat /\ b <= l + 2
      BY <2>1
    <2>3. Turns + 3 <= U64 /\ Turns \in Nat /\ U64 \in Nat
      BY CorrelatedTimeAssumption DEF Turns
    <2>4. b - a + 1 < U64
      BY <2>1, <2>2, <2>3
    <2> QED
      BY <2>2, <2>4, FramesApart
  <1> QED
    BY <1>1, <1>2, RangeStep, TypeCorrect, PTL DEF Spec
==============================================================================
