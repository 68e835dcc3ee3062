--------------------------- MODULE HeartbeatProofs ---------------------------
(***************************************************************************)
(* The margin of check_liveness, for every TTL, interval, clock resolution *)
(* and delay.                                                              *)
(***************************************************************************)
EXTENDS Heartbeat, TLAPS

\* What Seconds and multiplication need: the only non-linear facts.
LEMMA SecondsBounds ==
    ASSUME NEW t \in Nat
    PROVE  /\ Seconds(t) \in Nat
           /\ Seconds(t) * TicksPerSecond <= t
           /\ t < Seconds(t) * TicksPerSecond + TicksPerSecond
  BY ClockAssumption DEF Seconds

\* The order is kept by a factor.
LEMMA TimesMonotone ==
    ASSUME NEW a \in Int, NEW b \in Int, NEW c \in Nat, a <= b
    PROVE  a * c <= b * c
  OBVIOUS

\* A sum of seconds is a sum of ticks.
LEMMA TimesDistributes ==
    ASSUME NEW a \in Int, NEW b \in Int, NEW c \in Int
    PROVE  (a + b) * c = a * c + b * c
  OBVIOUS

-----------------------------------------------------------------------------
\* How far a beat and the next round of upkeep can be apart.
ClockInv ==
    /\ worker_ttl \in Nat /\ interval \in Nat
    /\ now \in Nat /\ beatAt \in Nat /\ due \in Nat
    /\ misses \in {0, 1}
    /\ beatAt <= now
    /\ score = Seconds(beatAt)
    /\ CheckLiveness(worker_ttl, interval)
    /\ state = "alive" => now <= due + Latency
    /\ misses = 0 => due <= beatAt + interval
    /\ misses = 1 => due <= beatAt + 2 * interval + Latency
    /\ HealthyNotReaped

\* A beat that is reapable is older than the TTL less a second, and one as old
\* as the TTL is reapable: floor rounding loses less than a second.
LEMMA CutOff == ClockInv => DetectionWindow
<1> SUFFICES ASSUME ClockInv PROVE DetectionWindow
  OBVIOUS
<1> DEFINE T == TicksPerSecond
           s == Seconds(beatAt)
           n == Seconds(now)
<1>1. /\ T \in Nat /\ T > 0 /\ worker_ttl \in Nat /\ now \in Nat
      /\ beatAt \in Nat /\ score = s
  BY ClockAssumption DEF ClockInv
<1>2. s \in Nat /\ s * T <= beatAt /\ beatAt < s * T + T
  BY <1>1, SecondsBounds
<1>3. n \in Nat /\ n * T <= now /\ now < n * T + T
  BY <1>1, SecondsBounds
<1> HIDE DEF T, s, n
<1>4. ASSUME score <= n - worker_ttl
      PROVE  now - beatAt > worker_ttl * T - T
  <2>1. (s + worker_ttl) * T <= n * T
    BY <1>1, <1>2, <1>3, <1>4, TimesMonotone
  <2>2. (s + worker_ttl) * T = s * T + worker_ttl * T
    BY <1>1, <1>2, TimesDistributes
  <2>3. s * T \in Int /\ worker_ttl * T \in Int /\ n * T \in Int
    BY <1>1, <1>2, <1>3
  <2> QED
    BY <1>1, <1>2, <1>3, <2>1, <2>2, <2>3
<1>5. ASSUME ~(score <= n - worker_ttl)
      PROVE  now - beatAt < worker_ttl * T
  <2>1. (n + 1) * T <= (s + worker_ttl) * T
    BY <1>1, <1>2, <1>3, <1>5, TimesMonotone
  <2>2. (s + worker_ttl) * T = s * T + worker_ttl * T
    BY <1>1, <1>2, TimesDistributes
  <2>3. (n + 1) * T = n * T + T
    BY <1>1, <1>3, TimesDistributes
  <2>4. s * T \in Int /\ worker_ttl * T \in Int /\ n * T \in Int
    BY <1>1, <1>2, <1>3
  <2> QED
    BY <1>1, <1>2, <1>3, <2>1, <2>2, <2>3, <2>4
<1> QED
  <2>1. Reapable <=> score <= n - worker_ttl
    BY DEF Reapable, n
  <2>2. worker_ttl * T \in Int /\ now - beatAt \in Int
    BY <1>1
  <2> QED
    BY <1>1, <1>4, <1>5, <2>1, <2>2 DEF DetectionWindow, T

-----------------------------------------------------------------------------
\* The first beat is written before the first round of upkeep is due.
LEMMA ClockInvInit == ClockInit => ClockInv
  BY ClockAssumption DEF ClockInit, ClockInv, HealthyNotReaped

\* A pool with room is not reapable: its beat is younger than two intervals and
\* two delays, which is a second less than the TTL.
LEMMA NotReapable ==
    ASSUME ClockInv, state = "alive", Roomy
    PROVE  ~Reapable
<1> DEFINE R == worker_ttl * TicksPerSecond
<1>1. /\ R \in Nat /\ interval \in Nat /\ Latency \in Nat
      /\ TicksPerSecond \in Nat /\ now \in Nat /\ beatAt \in Nat /\ due \in Nat
  BY ClockAssumption DEF ClockInv
<1>2. 3 * interval <= R /\ 3 * TicksPerSecond + 6 * Latency <= R
  BY DEF ClockInv, CheckLiveness, Roomy
<1>3. now <= due + Latency /\ due <= beatAt + 2 * interval + Latency
  BY <1>1 DEF ClockInv
<1>4. Reapable => now - beatAt > R - TicksPerSecond
  BY CutOff DEF DetectionWindow
<1> HIDE DEF R
<1> QED
  BY <1>1, <1>2, <1>3, <1>4

\* Time, beats and failed rounds keep the distance.
LEMMA ClockInvNext == ClockInv /\ [ClockNext]_clockVars => ClockInv'
<1> SUFFICES ASSUME ClockInv, [ClockNext]_clockVars PROVE ClockInv'
  OBVIOUS
<1> USE ClockAssumption
<1>1. CASE Tick
  BY <1>1 DEF Tick, ClockInv, CheckLiveness, HealthyNotReaped, Roomy
<1>2. CASE Beat
  BY <1>2 DEF Beat, ClockInv, CheckLiveness, HealthyNotReaped, Roomy
<1>3. CASE BeatFails
  BY <1>3 DEF BeatFails, ClockInv, CheckLiveness, HealthyNotReaped, Roomy
<1>4. CASE Die
  BY <1>4 DEF Die, ClockInv, CheckLiveness, HealthyNotReaped, Roomy
<1>5. CASE Reclaim
  <2>1. ~Roomy
    BY <1>5, NotReapable DEF Reclaim
  <2> QED
    BY <1>5, <2>1 DEF Reclaim, ClockInv, CheckLiveness, HealthyNotReaped, Roomy
<1>6. CASE UNCHANGED clockVars
  BY <1>6 DEF clockVars, ClockInv, CheckLiveness, HealthyNotReaped, Roomy
<1> QED
  BY <1>1, <1>2, <1>3, <1>4, <1>5, <1>6 DEF ClockNext

-----------------------------------------------------------------------------
\* check_liveness does what it is for: whatever the TTL and the interval it
\* accepted, a running pool with room for one failed beat is never reclaimed.
THEOREM HealthyPoolsStay == ClockSpec => []HealthyNotReaped
<1>1. ClockInv => HealthyNotReaped
  BY DEF ClockInv
<1> QED
  BY <1>1, ClockInvInit, ClockInvNext, PTL DEF ClockSpec

\* The reaper's cut-off is at most a second early and never late.
THEOREM CutOffIsTight == ClockSpec => []DetectionWindow
  BY CutOff, ClockInvInit, ClockInvNext, PTL DEF ClockSpec
=============================================================================
