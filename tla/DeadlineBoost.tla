--------------------------- MODULE DeadlineBoost ---------------------------
(***************************************************************************)
(* The deadline boost of the priority and ordered policies                 *)
(* (src/src/policy/qhw_deadline_boost.c): the urgency tier of a task at a  *)
(* moment, its effective priority, and the moment at which to look again.  *)
(*                                                                         *)
(* Unsigned 64-bit values are 0..WordMax and signed ones IntMin..IntMax.   *)
(***************************************************************************)
EXTENDS Integers

CONSTANTS WordMax, IntMin, IntMax,
          Scale     \* QHW_BOOST_SCALE: thresholds are in units of 1/Scale

ASSUME WidthAssumption ==
    /\ WordMax \in Nat /\ Scale \in Nat \ {0} /\ Scale <= WordMax
    /\ IntMin \in Int /\ IntMax \in Int /\ IntMin < 0 /\ IntMax > 0

Never == WordMax        \* QHW_DEADLINE_BOOST_NEVER

\* struct qhw_deadline_boost_config
BoostConfigType ==
    [enabled : BOOLEAN,
     normal_threshold : 0..WordMax, urgent_threshold : 0..WordMax,
     critical_threshold : 0..WordMax,
     normal_boost : IntMin..IntMax, urgent_boost : IntMin..IntMax,
     critical_boost : IntMin..IntMax]

\* The test at the end of qhw_deadline_boost_config_parse_options.
Accepted(config) ==
    config.enabled =>
        /\ config.normal_threshold # 0
        /\ config.urgent_threshold >= config.normal_threshold
        /\ config.critical_threshold >= config.urgent_threshold

\* Mutant: only the upper end is saturated.
AddSaturatingUpper(base, delta) ==
    IF delta > 0 /\ base > IntMax - delta THEN IntMax ELSE base + delta

\* add_i64_saturating
AddSaturating(base, delta) ==
    IF delta > 0 /\ base > IntMax - delta THEN IntMax
    ELSE IF delta < 0 /\ base < IntMin - delta THEN IntMin
    ELSE base + delta

\* scale_div_ceil_u64 with 128-bit arithmetic.
ScaleDivCeil(value, divisor) ==
    LET product  == value * Scale
        quotient == (product \div divisor) + (IF product % divisor # 0 THEN 1 ELSE 0)
    IN  IF divisor = 0 \/ quotient > WordMax THEN WordMax ELSE quotient

\* Mutant: what is left of the last addition is dropped.
ScaledRemainderFloor(remainder, divisor) == (remainder * Scale) \div divisor

\* scaled_remainder_ceil_u64, for builds without 128-bit integers: remainder is
\* added Scale times to an accumulator that is kept below the divisor.
ScaledRemainderCeil(remainder, divisor) ==
    LET Add(s) == IF s.acc >= divisor - remainder
                  THEN [quotient |-> s.quotient + 1, acc |-> s.acc - (divisor - remainder)]
                  ELSE [quotient |-> s.quotient, acc |-> s.acc + remainder]
        step[i \in 0..Scale] ==
            IF i = 0 THEN [quotient |-> 0, acc |-> 0] ELSE Add(step[i - 1])
    IN  IF remainder = 0 THEN 0
        ELSE step[Scale].quotient + (IF step[Scale].acc # 0 THEN 1 ELSE 0)

\* scale_div_ceil_u64 of those builds.
ScaleDivCeilPortable(value, divisor) ==
    LET quotient == value \div divisor
        scaled   == quotient * Scale
        extra    == ScaledRemainderCeil(value % divisor, divisor)
    IN  IF divisor = 0 THEN WordMax
        ELSE IF quotient > WordMax \div Scale \/ extra > WordMax - scaled THEN WordMax
        ELSE scaled + extra

\* Mutant: the moment may lie in the past.
NextThresholdTimePast(deadline, runtime, threshold, now) ==
    LET window == ScaleDivCeil(runtime, threshold)
    IN  IF threshold = 0 THEN Never
        ELSE IF window >= deadline THEN 1 ELSE deadline - window

\* Mutant: the threshold is taken for a plain ratio, the scale is forgotten.
NextThresholdTimeUnscaled(deadline, runtime, threshold, now) ==
    LET window == runtime \div threshold
        next   == IF window >= deadline THEN 1 ELSE deadline - window
    IN  IF threshold = 0 THEN Never
        ELSE IF next > now THEN next
        ELSE IF now = WordMax THEN Never ELSE now + 1

\* next_threshold_time
NextThresholdTime(deadline, runtime, threshold, now) ==
    LET window == ScaleDivCeil(runtime, threshold)
        next   == IF window >= deadline THEN 1 ELSE deadline - window
    IN  IF threshold = 0 THEN Never
        ELSE IF next > now THEN next
        ELSE IF now = WordMax THEN Never ELSE now + 1

\* urgency_permille
Urgency(runtime, slack) == IF slack = 0 THEN WordMax ELSE ScaleDivCeil(runtime, slack)

\* The urgency tier qhw_deadline_boost_compute finds.
Tier(config, deadline, runtime, now) ==
    LET urgency == Urgency(runtime, deadline - now)
    IN  IF ~config.enabled \/ deadline = 0 \/ runtime = 0 THEN "none"
        ELSE IF now >= deadline THEN "critical"
        ELSE IF urgency > config.critical_threshold THEN "critical"
        ELSE IF urgency > config.urgent_threshold THEN "urgent"
        ELSE IF urgency > config.normal_threshold THEN "normal"
        ELSE "none"

\* qhw_deadline_boost_compute
Compute(config, base, deadline, runtime, now) ==
    LET tier  == Tier(config, deadline, runtime, now)
        boost == [none |-> 0, normal |-> config.normal_boost,
                  urgent |-> config.urgent_boost, critical |-> config.critical_boost]
        above == [none |-> config.normal_threshold, normal |-> config.urgent_threshold,
                  urgent |-> config.critical_threshold]
    IN  [tier |-> tier,
         effective_priority |-> AddSaturating(base, boost[tier]),
         next_refresh |->
            IF ~config.enabled \/ deadline = 0 \/ runtime = 0 \/ tier = "critical" THEN Never
            ELSE NextThresholdTime(deadline, runtime, above[tier], now)]
=============================================================================
