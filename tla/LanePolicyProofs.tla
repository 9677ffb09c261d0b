-------------------------- MODULE LanePolicyProofs --------------------------
(* The rate and the pauses of a lane, for every rate, every backoff,
   every maximum interval and an unbounded clock. *)
EXTENDS LanePolicy, TLAPS

(* What makes the rate inductive: the interval is never narrower than the
   configured one or the maximum, the next slot is never inside the pause, it lies after the
   last claim when there is a rate, and more than one interval after the
   claim before that. *)
Schedule ==
    /\ now > 0
    /\ Smaller(base, Maximum) <= interval
    /\ until <= next
    /\ base > 0 /\ latest > 0 => next > latest
    /\ base > 0 /\ second > 0 => next > second + Spacing

(* The claims are remembered in order. *)
Ordered == (third > 0 => second > 0) /\ (second > 0 => latest > 0)

IInv == TypeOK /\ Schedule /\ Ordered /\ RateHonoured

(* A new policy. *)
LEMMA InitSchedule == Init => IInv
BY PolicyAssumption
   DEF Init, IInv, TypeOK, Schedule, Ordered, RateHonoured, Spacing, Larger, Smaller

(* A widened interval may be narrower than the one before, but only when that
   was configured above the maximum: the spacing never grows and never falls
   below the configured interval or the maximum. *)
LEMMA WideningKeepsSpacing ==
    ASSUME NEW b \in Nat, NEW i \in Nat, NEW w \in Nat, Smaller(b, Maximum) <= i
    PROVE  LET x == Smaller(Maximum, Larger(b, w))
           IN  /\ x \in 0 .. Larger(b, Maximum)
               /\ Smaller(b, Maximum) <= x
               /\ Smaller(b, x) <= Smaller(b, i)
BY PolicyAssumption DEF Smaller, Larger

(* Every call keeps the schedule. *)
LEMMA NextSchedule == IInv /\ [Next]_vars => IInv'
<1> SUFFICES ASSUME IInv, [Next]_vars PROVE IInv'
  OBVIOUS
<1> USE PolicyAssumption
<1>1. /\ now \in Nat /\ base \in Nat /\ backoff \in Nat
      /\ interval \in 0 .. Larger(base, Maximum) /\ interval \in Nat
      /\ next \in Nat /\ until \in Nat
      /\ third \in Nat /\ second \in Nat /\ latest \in Nat
  BY DEF IInv, TypeOK, Larger
<1>2. CASE Tick
  BY <1>1, <1>2 DEF Tick, IInv, TypeOK, Schedule, Ordered, RateHonoured, Spacing,
                    settings, claims, Larger, Smaller
<1>3. CASE Claim
  <2>1. /\ next <= now /\ now' = now /\ base' = base /\ backoff' = backoff
        /\ interval' = interval /\ until' = until
        /\ third' = second /\ second' = latest /\ latest' = now
    BY <1>3 DEF Claim, Claimed, settings
  <2>2. /\ next' \in Nat /\ next' >= next + interval /\ next' >= next
        /\ (interval > 0 => next' > now)
    BY <1>1, <1>3 DEF Claim
  <2>3. /\ Spacing \in Nat /\ Spacing' = Spacing /\ Spacing <= interval
        /\ (base > 0 => interval > 0)
    BY <1>1, <2>1 DEF Spacing, Smaller, Schedule, IInv
  <2>4. TypeOK'
    BY <1>1, <2>1, <2>2 DEF TypeOK
  <2>5. Schedule'
    BY <1>1, <2>1, <2>2, <2>3 DEF Schedule, IInv
  <2>6. Ordered' /\ RateHonoured'
    BY <1>1, <2>1, <2>3 DEF Ordered, RateHonoured, Schedule, IInv
  <2> QED BY <2>4, <2>5, <2>6 DEF IInv
<1>4. ASSUME NEW c \in Nat, Pause(c), interval' = OpenPause.interval,
             UNCHANGED <<now, settings, claims>>
      PROVE  IInv'
  <2>1. /\ now' = now /\ base' = base /\ backoff' = backoff
        /\ third' = third /\ second' = second /\ latest' = latest
    BY <1>4 DEF settings, claims
  <2>2. until' \in Nat /\ next' \in Nat /\ until' <= next' /\ next <= next'
    BY <1>1, <1>4 DEF Pause, Larger
  <2>3. Smaller(base, Maximum) <= interval
    BY DEF Schedule, IInv
  <2>4. interval' = interval \/ interval' = Widened
    BY <1>4 DEF OpenPause
  <2>5. /\ interval' \in 0 .. Larger(base, Maximum)
        /\ Smaller(base, Maximum) <= interval'
        /\ Smaller(base, interval') <= Smaller(base, interval)
    <3>1. CASE interval' = interval
      BY <1>1, <2>3, <3>1 DEF Smaller
    <3>2. CASE interval' = Widened
      <4> DEFINE w == IF interval = 0 THEN Floor ELSE interval * 2
      <4>1. w \in Nat
        BY <1>1
      <4> QED BY <1>1, <2>3, <3>2, <4>1, WideningKeepsSpacing DEF Widened
    <3> QED BY <2>4, <3>1, <3>2
  <2>6. /\ Spacing \in Nat /\ Spacing' \in Nat /\ Spacing' <= Spacing
        /\ Smaller(base, Maximum)' <= Spacing'
    BY <1>1, <2>1, <2>5 DEF Spacing, Smaller
  <2>7. TypeOK'
    BY <1>1, <2>1, <2>2, <2>5 DEF TypeOK
  <2>8. Schedule'
    <3>1. (now > 0 /\ until <= next)'
      BY <2>1, <2>2 DEF Schedule, IInv
    <3>2. (Smaller(base, Maximum) <= interval)'
      BY <2>1, <2>5 DEF Smaller
    <3>3. (base > 0 /\ latest > 0 => next > latest)'
      BY <1>1, <2>1, <2>2 DEF Schedule, IInv
    <3>4. (base > 0 /\ second > 0 => next > second + Spacing)'
      <4>1. base > 0 /\ second > 0 => next > second + Spacing
        BY DEF Schedule, IInv
      <4>2. ASSUME NEW a \in Nat, NEW b \in Nat, b <= a, next > second + a
            PROVE  next' > second + b
        BY <1>1, <2>2, <4>2
      <4> QED BY <2>1, <2>6, <4>1, <4>2
    <3> QED BY <3>1, <3>2, <3>3, <3>4 DEF Schedule
  <2>9. Ordered' /\ RateHonoured'
    BY <1>1, <2>1, <2>6 DEF Ordered, RateHonoured, IInv
  <2> QED BY <2>7, <2>8, <2>9 DEF IInv
<1>5. CASE Failed
  <2>1. OpenPause.cooldown \in Nat
    BY <1>1 DEF OpenPause, Widened, Smaller, Larger
  <2> QED BY <1>4, <1>5, <2>1 DEF Failed
<1>6. CASE \E after \in RetryAfters : Limited(after)
  <2>1. PICK after \in RetryAfters : Limited(after)
    BY <1>6
  <2>2. Larger(base, after) \in Nat
    BY <1>1, <2>1 DEF Larger
  <2> QED BY <1>4, <2>1, <2>2 DEF Limited
<1>7. ASSUME Restart, base' \in Nat, backoff' \in Nat
      PROVE  IInv'
  BY <1>1, <1>7 DEF Restart, IInv, TypeOK, Schedule, Ordered, RateHonoured, Spacing,
                    Larger, Smaller
<1>8. CASE Reset
  BY <1>1, <1>7, <1>8 DEF Reset, settings
<1>9. CASE \E i \in Intervals, b \in ErrorBackoffs : Configure(i, b)
  BY <1>7, <1>9 DEF Configure
<1>10. CASE UNCHANGED vars
  BY <1>10 DEF vars, IInv, TypeOK, Schedule, Ordered, RateHonoured, Spacing
<1> QED BY <1>2, <1>3, <1>5, <1>6, <1>8, <1>9, <1>10 DEF Next

(* Of three requests of a lane in a row, the last comes more than one interval
   after the first (LanePolicy::claim).  The interval is the configured one,
   or, when that is above the maximum and a request has failed, the maximum
   (LanePolicy::widen). *)
THEOREM RateTheorem == Spec => []RateHonoured
<1>1. Init => IInv
  BY InitSchedule
<1>2. IInv /\ [Next]_vars => IInv'
  BY NextSchedule
<1>3. IInv => RateHonoured
  BY DEF IInv
<1> QED BY <1>1, <1>2, <1>3, PTL DEF Spec

(* No request of a lane starts inside its pause (LanePolicy::pause). *)
THEOREM PauseTheorem == Spec => NoClaimInPause
<1>1. Init => IInv
  BY InitSchedule
<1>2. IInv /\ [Next]_vars => IInv'
  BY NextSchedule
<1>3. IInv /\ [Next]_vars => [claims' # claims /\ latest' # 0 => now >= until]_vars
  <2> SUFFICES ASSUME IInv, Next, claims' # claims, latest' # 0
               PROVE  now >= until
    OBVIOUS
  <2>1. Claim
    BY DEF Next, Tick, Failed, Reset, Restart, Limited, Configure
  <2> QED BY <2>1 DEF Claim, IInv, Schedule, TypeOK
<1> QED BY <1>1, <1>2, <1>3, PTL DEF Spec, NoClaimInPause

-----------------------------------------------------------------------------
(* Times and intervals are natural numbers, for every rate. *)
Numbers ==
    /\ now \in Nat /\ base \in Nat /\ backoff \in Nat /\ interval \in Nat
    /\ next \in Nat /\ until \in Nat

(* The clocks and the pause stay numbers. *)
LEMMA NumbersStay == Numbers /\ [Next]_vars => Numbers'
<1> SUFFICES ASSUME Numbers, [Next]_vars PROVE Numbers'
  OBVIOUS
<1> USE PolicyAssumption DEF Numbers
<1>1. CASE Tick \/ Claim
  BY <1>1 DEF Tick, Claim, settings
<1>2. Widened \in Nat /\ OpenPause.interval \in Nat /\ OpenPause.cooldown \in Nat
  BY DEF Widened, OpenPause, Smaller, Larger
<1>3. CASE Failed
  BY <1>2, <1>3 DEF Failed, Pause, Larger, settings
<1>4. ASSUME NEW after \in RetryAfters, Limited(after) PROVE Numbers'
  BY <1>2, <1>4 DEF Limited, Pause, Larger, settings
<1>5. CASE Reset \/ \E i \in Intervals, b \in ErrorBackoffs : Configure(i, b)
  BY <1>5 DEF Reset, Configure, Restart, settings
<1>6. CASE UNCHANGED vars
  BY <1>6 DEF vars
<1> QED BY <1>1, <1>3, <1>4, <1>5, <1>6 DEF Next

(* Failures inside an open pause leave the interval and the pause as they are,
   unless a 429 names a later time (LanePolicy::openPause), for every rate. *)
THEOREM PauseIsNotCompounded == Spec => PauseNotCompounded
<1>1. Init => Numbers
  BY PolicyAssumption DEF Init, Numbers
<1>2. ASSUME Numbers, Next, now < until, until' # 0
      PROVE  /\ interval' = interval
             /\ until' = until \/ \E after \in RetryAfters : until' = now + Larger(base, after)
  <2> USE PolicyAssumption DEF Numbers
  <2>1. OpenPause = [interval |-> interval, cooldown |-> 0]
    BY <1>2 DEF OpenPause
  <2>2. CASE Tick \/ Claim
    BY <2>2 DEF Tick, Claim
  <2>3. CASE Failed
    BY <1>2, <2>1, <2>3 DEF Failed, Pause, Larger
  <2>4. ASSUME NEW after \in RetryAfters, Limited(after)
        PROVE  interval' = interval /\ (until' = until \/ until' = now + Larger(base, after))
    BY <2>1, <2>4 DEF Limited, Pause, Larger
  <2>5. CASE Reset \/ \E i \in Intervals, b \in ErrorBackoffs : Configure(i, b)
    BY <1>2, <2>5 DEF Reset, Configure, Restart
  <2> QED BY <1>2, <2>2, <2>3, <2>4, <2>5 DEF Next
<1>3. Numbers /\ [Next]_vars =>
        [now < until /\ until' # 0 =>
          /\ interval' = interval
          /\ until' = until \/ \E after \in RetryAfters :
                                   until' = now + Larger(base, after)]_vars
  BY <1>2
<1> QED BY <1>1, <1>3, NumbersStay, PTL DEF Spec, PauseNotCompounded
=============================================================================
