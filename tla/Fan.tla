----------------------------------- MODULE Fan ---------------------------------
(***************************************************************************)
(* rp1-fan: the case fan.  A watchdog timer sets the duty every period     *)
(* from the last temperature, the tachometer and the lease of a program; a *)
(* second timer queries the temperature, outside the lock, for as long as  *)
(* the provider takes.  One tick of the model is the watchdog's period;    *)
(* ages and remaining times are counted in it.  The watchdog's timer is on *)
(* time, the provider's answer is not.  Registers may refuse a duty.       *)
(***************************************************************************)
EXTENDS Integers

CONSTANTS
  Users,    \* file objects
  Asks,     \* percentages a program asks for
  Temps,    \* temperatures in degrees Celsius
  MaxLease, Spinup, RpmPeriod, MaxAge, \* in ticks
  NoFile

None   == -1     \* no deadline, no query
NoTemp == -1000  \* INT32_MIN

VARIABLES
  power,     \* "released", "off", "on", "stopping", or "failed" at the D0 entry
  running, failed, lease, owner, requested,  \* lease: what is left until deadline
  spin, previous, rpmIn, stalls,             \* full_until, next_rpm: what is left
  sample,    \* temperature and age of policy, and the true age of the reading
  news,      \* the sample arrived after the last evaluation of the policy
  query,     \* the query in flight: its reading and how long it has run
  sensor,    \* the sensor timer is set
  due,       \* the watchdog's timer expired
  duty,      \* of the hardware
  refused    \* the last request of full speed failed

policy == <<spin, previous, rpmIn, stalls>>
vars   == <<power, running, failed, lease, owner, requested, policy, sample, news, query, sensor,
            due, duty, refused>>

NoSample == [temp |-> NoTemp, age |-> 0, recorded |-> 0]
NoQuery  == [temp |-> NoTemp, age |-> None]
Old      == MaxAge + 2  \* ages are counted up to here

Init ==
  /\ power = "released" /\ running = FALSE /\ failed = FALSE /\ lease = None /\ owner = NoFile
  /\ requested = 100 /\ spin = 0 /\ previous = 100 /\ rpmIn = 0 /\ stalls = 0
  /\ sample = NoSample /\ news = FALSE /\ query = NoQuery /\ sensor = FALSE /\ due = FALSE
  /\ duty \in {35, 100} /\ refused = FALSE

Duties == {35, 50, 70, 100} \union Asks

TypeOK ==
  /\ power \in {"released", "off", "on", "stopping", "failed"}
  /\ running \in BOOLEAN /\ failed \in BOOLEAN /\ news \in BOOLEAN /\ sensor \in BOOLEAN
  /\ due \in BOOLEAN /\ refused \in BOOLEAN
  /\ lease \in {None} \union 0 .. MaxLease /\ owner \in {NoFile} \union Users
  /\ requested \in Asks \union {100} /\ previous \in Duties /\ duty \in Duties
  /\ spin \in 0 .. Spinup /\ rpmIn \in 0 .. RpmPeriod /\ stalls \in 0 .. 3
  /\ sample \in [temp : Temps \union {NoTemp}, age : 0 .. Old, recorded : 0 .. Old]
  /\ query \in {NoQuery} \union [temp : Temps \union {NoTemp}, age : 0 .. Old]
--------------------------------------------------------------------------------
(* hardware.c *)

\* fan_curve: rise at once, fall with three degrees of hysteresis.
fan_curve(temp, prev) ==
  IF temp = NoTemp \/ temp >= 75 \/ (prev = 100 /\ temp >= 72) THEN 100
  ELSE IF temp >= 65 \/ (prev >= 70 /\ temp >= 62) THEN 70
  ELSE IF temp >= 55 \/ (prev >= 50 /\ temp >= 52) THEN 50 ELSE 35

\* apply and fan_full: ready is what the registers say; a refused duty may be set or not.
fan_full ==
  /\ lease' = None
  /\ \/ duty' = 100 /\ refused' = FALSE /\ UNCHANGED failed
     \/ duty' \in {duty, 100} /\ refused' = TRUE /\ failed' = TRUE

\* fan_adjust, and what is left of the lease after it.  A failure asks for full speed.
fan_adjust(percent, left) ==
  IF failed THEN UNCHANGED <<lease, duty, refused, failed>>
  ELSE \/ duty' = percent /\ lease' = left /\ UNCHANGED <<refused, failed>>
       \/ /\ failed' = TRUE /\ lease' = None
          /\ \/ duty' = 100 /\ refused' = FALSE
             \/ duty' \in {duty, percent, 100} /\ refused' = TRUE

\* The tachometer is read once a second, and three times still means stalled.
Stalls(turning) ==
  IF rpmIn > 0 THEN stalls ELSE IF turning THEN 0 ELSE IF stalls < 3 THEN stalls + 1 ELSE 3

\* fan_policy_target: the reasons for full speed, else the lease or the curve.
fan_policy_target(turning, spinning, prev, manual, ask) ==
  IF \/ spinning
     \/ sample.temp = NoTemp \/ sample.recorded > MaxAge
     \/ Stalls(turning) = 3
     \/ sample.temp >= 75
  THEN 100 ELSE IF manual THEN ask ELSE fan_curve(sample.temp, prev)

ReadTachometer(turning) ==
  /\ stalls' = Stalls(turning)
  /\ rpmIn' = (IF rpmIn > 0 THEN rpmIn ELSE RpmPeriod)
--------------------------------------------------------------------------------
(* Power. *)

FanPrepare ==
  /\ power = "released" /\ power' = "off"
  /\ UNCHANGED <<running, failed, lease, owner, requested, policy, sample, news, query, sensor,
                 due, duty, refused>>

FanRelease ==
  /\ power \in {"off", "failed"} /\ power' = "released" /\ running' = FALSE /\ owner' = NoFile
  /\ sensor' = FALSE /\ due' = FALSE
  /\ UNCHANGED <<failed, lease, requested, policy, sample, news, query, duty, refused>>

\* fan_policy_start, full speed and the timers.
FanD0Entry ==
  /\ power = "off" /\ lease' = None /\ requested' = 100
  /\ spin' = Spinup /\ previous' = 100 /\ rpmIn' = 0 /\ stalls' = 0
  /\ sample' = NoSample /\ news' = FALSE
  /\ \/ /\ power' = "on" /\ running' = TRUE /\ failed' = FALSE /\ sensor' = TRUE
        /\ duty' = 100 /\ refused' = FALSE
     \/ /\ power' = "failed" /\ failed' = TRUE /\ duty' \in {duty, 100} /\ refused' = TRUE
        /\ UNCHANGED <<running, sensor>>
  /\ UNCHANGED <<owner, query, due>>

\* The exit waits for the timers' callbacks after it gave up the lock.
FanD0Exit ==
  /\ power = "on" /\ power' = "stopping" /\ running' = FALSE /\ fan_full /\ owner' = NoFile
  /\ due' = FALSE /\ sensor' = FALSE
  /\ UNCHANGED <<requested, policy, sample, news, query>>

FanExited ==
  /\ power = "stopping" /\ query = NoQuery /\ power' = "off"
  /\ UNCHANGED <<running, failed, lease, owner, requested, policy, sample, news, query, sensor,
                 due, duty, refused>>
--------------------------------------------------------------------------------
(* Timers. *)

\* A lease that ran out is fan_full and then the policy's target, which is full speed
\* too; there is none once the hardware failed.
FanWatchdog(turning) ==
  LET expired == lease = 0
      prev    == IF expired THEN 100 ELSE previous
      manual  == lease # None /\ ~expired
      target  == fan_policy_target(turning, expired \/ spin > 0, prev, manual, requested)
  IN /\ running /\ due /\ due' = FALSE /\ news' = FALSE
     /\ ReadTachometer(turning)
     /\ owner' = (IF expired THEN NoFile ELSE owner)
     /\ spin' = (IF expired THEN Spinup ELSE spin)
     /\ previous' = (IF manual THEN previous ELSE target)
     /\ fan_adjust(target, IF expired THEN None ELSE lease)
     /\ UNCHANGED <<power, running, requested, sample, query, sensor>>

\* The time is taken before the query, which reads the temperature when it starts.
FanTemperature(temp) ==
  /\ running /\ sensor /\ query = NoQuery /\ sensor' = FALSE /\ query' = [temp |-> temp, age |-> 0]
  /\ UNCHANGED <<power, running, failed, lease, owner, requested, policy, sample, news, due, duty,
                 refused>>

\* Mutant: a reading counts as taken when it arrives.
SampleAge_AtArrival(age) == 0

\* A slow query must not make an old reading appear fresh.
SampleAge(age) == age

FanTemperatureRead ==
  /\ query # NoQuery /\ query' = NoQuery
  /\ IF running
       THEN /\ sample' = [temp |-> query.temp, age |-> query.age, recorded |-> SampleAge(query.age)]
            /\ news' = TRUE /\ sensor' = TRUE
       ELSE UNCHANGED <<sample, news, sensor>>
  /\ UNCHANGED <<power, running, failed, lease, owner, requested, policy, due, duty, refused>>

Less(n) == IF n = 0 THEN 0 ELSE n - 1
More(n) == IF n = Old THEN Old ELSE n + 1

\* A period passes; the watchdog comes before the next.
Tick ==
  /\ power \in {"on", "stopping"} /\ ~due /\ due' = running
  /\ lease' = (IF lease = None THEN None ELSE Less(lease))
  /\ spin' = Less(spin) /\ rpmIn' = Less(rpmIn)
  /\ sample' = (IF sample.temp = NoTemp THEN sample
                ELSE [sample EXCEPT !.age = More(@), !.recorded = More(@)])
  /\ query' = (IF query = NoQuery THEN NoQuery ELSE [query EXCEPT !.age = More(@)])
  /\ UNCHANGED <<power, running, failed, owner, requested, previous, stalls, news, sensor, duty,
                 refused>>
--------------------------------------------------------------------------------
(* Programs. *)

\* IOCTL_FAN_SET: a refused duty leaves the owner as it was.
FanSet(file, percent, left, turning) ==
  LET target == fan_policy_target(turning, spin > 0, previous, TRUE, percent) IN
    /\ running /\ owner \in {NoFile, file} /\ ReadTachometer(turning)
    /\ fan_adjust(target, left)
    /\ IF failed' THEN UNCHANGED <<owner, requested>>
       ELSE owner' = file /\ requested' = percent
    /\ UNCHANGED <<power, running, spin, previous, sample, news, query, sensor, due>>

FanCleanup(file) ==
  /\ owner = file /\ owner' = NoFile
  /\ IF running
       THEN fan_full /\ spin' = Spinup /\ previous' = 100
       ELSE UNCHANGED <<lease, failed, duty, refused, spin, previous>>
  /\ UNCHANGED <<power, running, requested, rpmIn, stalls, sample, news, query, sensor, due>>

Next ==
  \/ FanPrepare \/ FanRelease \/ FanD0Entry \/ FanD0Exit \/ FanExited
  \/ FanTemperatureRead \/ Tick
  \/ \E turning \in BOOLEAN : FanWatchdog(turning)
  \/ \E temp \in Temps \union {NoTemp} : FanTemperature(temp)
  \/ \E file \in Users :
       \/ FanCleanup(file)
       \/ \E percent \in Asks, left \in 1 .. MaxLease, turning \in BOOLEAN :
            FanSet(file, percent, left, turning)

Spec == Init /\ [][Next]_vars
--------------------------------------------------------------------------------
\* The fan turns slower than full speed only for a reason that still holds: nothing
\* failed, it is past its spin-up, it turns, and it was cool enough when the reading was
\* taken, which was not long ago, except that the watchdog has a period to notice; a
\* program's wish ends with its lease, a period later at the most.
LowDutyIsJustified ==
  running /\ duty < 100 /\ ~refused =>
    /\ ~failed /\ spin = 0 /\ stalls < 3
    /\ sample.temp # NoTemp \/ news
    /\ sample.age <= MaxAge + (IF due THEN 1 ELSE 0) \/ news
    /\ sample.temp = NoTemp \/ sample.temp < 75 \/ news
    /\ lease = None /\ ~news => duty >= fan_curve(sample.temp, 35)
    /\ lease = 0 => due
    /\ (lease # None) = (owner # NoFile)
===============================================================================
