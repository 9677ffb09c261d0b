----------------------------- MODULE LanePolicy -----------------------------
(***************************************************************************)
(* The request schedule of one host or group of hosts                      *)
(* (IDHANDownloader/http/LanePolicy): slots one interval apart, pauses     *)
(* after failures, and an interval that widens with every pause.           *)
(*                                                                         *)
(* Time is counted in ticks of the steady clock; 0 is its epoch, which the *)
(* code writes as a default-constructed time_point.                        *)
(***************************************************************************)
EXTENDS Integers

CONSTANTS Intervals,     \* intervalFor() of the configured rates; 0: no rate
          ErrorBackoffs, \* configured error_backoff durations
          RetryAfters,   \* what a Retry-After header may ask for
          Floor,         \* one second
          Maximum,       \* m_maximum_interval, one hour unless given
          Start,         \* the clock when the lane is made
          MaxTime        \* bound on the clock

ASSUME PolicyAssumption ==
    /\ Intervals \subseteq Nat
    /\ ErrorBackoffs \subseteq Nat /\ ErrorBackoffs # {}
    /\ RetryAfters \subseteq Nat
    /\ Floor \in Nat \ {0} /\ Maximum \in Nat \ {0}
    /\ Start \in Nat \ {0} /\ MaxTime \in Nat

VARIABLES now,       \* steady_clock::now()
          base,      \* m_base_interval
          interval,  \* m_interval
          backoff,   \* m_error_backoff
          next,      \* m_next_request
          until,     \* m_backoff_until
          \* history: when the last three slots since the schedule began were
          \* claimed, the newest last; 0: not yet
          third, second, latest

claims == <<third, second, latest>>
settings == <<base, backoff>>
vars == <<now, base, interval, backoff, next, until, third, second, latest>>

Larger(a, b) == IF a > b THEN a ELSE b
Smaller(a, b) == IF a < b THEN a ELSE b

(* Widening stops at the maximum interval. *)
TypeOK ==
    /\ now \in Nat
    /\ base \in Nat /\ backoff \in Nat
    /\ interval \in 0 .. Larger(base, Maximum)
    /\ next \in Nat /\ until \in Nat
    /\ third \in Nat /\ second \in Nat /\ latest \in Nat

Init ==
    /\ now = Start
    /\ base \in Intervals /\ backoff \in ErrorBackoffs
    /\ interval = base
    /\ next = 0 /\ until = 0 /\ third = 0 /\ second = 0 /\ latest = 0

Tick ==
    /\ now < MaxTime
    /\ now' = now + 1
    /\ UNCHANGED <<settings, interval, next, until, claims>>

Claimed == third' = second /\ second' = latest /\ latest' = now

(* Mutant: slots missed while the lane was idle are kept for later. *)
ClaimBanked ==
    /\ next <= now
    /\ next' = next + interval
    /\ Claimed
    /\ UNCHANGED <<now, settings, interval, until>>

(* claim() succeeds; it only reports a delay while next > now. *)
Claim ==
    /\ next <= now
    /\ next' = IF next + interval > now THEN next + interval ELSE now + interval
    /\ Claimed
    /\ UNCHANGED <<now, settings, interval, until>>

Widened ==
    Smaller(Maximum, Larger(base, IF interval = 0 THEN Floor ELSE interval * 2))

(* Mutant: every failure opens a pause of its own. *)
OpenPauseAlways ==
    [interval |-> Widened, cooldown |-> Larger(Widened, backoff)]

(* openPause(): the interval, and the cooldown a failure earns, which is
   none inside a pause that is open. *)
OpenPause ==
    IF now < until THEN [interval |-> interval, cooldown |-> 0]
    ELSE [interval |-> Widened, cooldown |-> Larger(Widened, backoff)]

(* Mutant: a pause does not move the next slot. *)
PauseKeepsSlot(cooldown) ==
    /\ until' = Larger(until, now + cooldown)
    /\ next' = next

Pause(cooldown) ==
    /\ until' = Larger(until, now + cooldown)
    /\ next' = Larger(next, until')

(* A failed request, and a 429 that does not say for how long. *)
Failed ==
    /\ interval' = OpenPause.interval
    /\ Pause(OpenPause.cooldown)
    /\ UNCHANGED <<now, settings, claims>>

(* A 429 with a Retry-After, which replaces the cooldown. *)
Limited(after) ==
    /\ interval' = OpenPause.interval
    /\ Pause(Larger(base, after))
    /\ UNCHANGED <<now, settings, claims>>

(* reset() and configure() begin a new schedule. *)
Restart ==
    /\ interval' = base'
    /\ next' = 0 /\ until' = 0
    /\ third' = 0 /\ second' = 0 /\ latest' = 0
    /\ UNCHANGED now

Reset == UNCHANGED settings /\ Restart

Configure(i, b) == base' = i /\ backoff' = b /\ Restart

Next ==
    \/ Tick \/ Claim \/ Failed \/ Reset
    \/ \E after \in RetryAfters : Limited(after)
    \/ \E i \in Intervals, b \in ErrorBackoffs : Configure(i, b)

Spec == Init /\ [][Next]_vars

-----------------------------------------------------------------------------
(* The interval that requests can count on.  widen() applies its cap last, so
   a failure narrows an interval that was configured above the maximum. *)
Spacing == Smaller(base, interval)

(* The rate is honoured: of three requests in a row the last comes more than
   one interval after the first, however late the slots are claimed and
   whatever pauses came between ("Claiming a slot late does not shift the ones
   after it", "gets one slot, not a burst").  The interval is the configured
   one, unless that is above the maximum; then it is the maximum after a
   failure, and never less. *)
RateHonoured ==
    /\ base > 0 /\ third > 0 => latest - third > Spacing
    /\ Spacing >= Smaller(base, Maximum)

(* No request starts inside a pause ("A failed request stops its lane for
   the whole backoff"). *)
NoClaimInPause == [][claims' # claims /\ latest' # 0 => now >= until]_vars

(* "Failures arriving inside an open pause do not compound it": inside a
   pause the interval changes only when the backoff is cleared, and only a
   Retry-After makes the pause longer. *)
PauseNotCompounded ==
    [][now < until /\ until' # 0 =>
          /\ interval' = interval
          /\ until' = until \/ \E after \in RetryAfters :
                                   until' = now + Larger(base, after)]_vars

=============================================================================
