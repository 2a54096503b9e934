------------------------------- MODULE CourseProofs -------------------------------
(***************************************************************************)
(* What the drivers of etrobo2011 promise, for every choice of the waits:  *)
(* the robot sits before it rolls under the gate, the light is believed    *)
(* only when lamp and history have settled, one collision is one step, and *)
(* a measurement of the sonar is counted once.                             *)
(*                                                                         *)
(* One inductive invariant, CourseInv, ties the counters of the drivers to *)
(* the clocks they stand for: the gate driver's to the progress of the     *)
(* skill, the waits of the others to the time since the lamp was switched  *)
(* over and since the last collision.  Its part FootInv is about the foot  *)
(* of the seesaw and of the stairs, where that collision may still be in   *)
(* the history when the robot has rolled back.  SonarInv ties the sumo     *)
(* driver's counter to the sonar: to how long it has been off, or how long *)
(* a detection that was counted already has been waiting for the next      *)
(* measurement.                                                            *)
(***************************************************************************)
EXTENDS RoboCourse, Integers, TLAPS

Seats == [state : {"INIT", "STOP", "INCLINED_BACKWARD", "SIT_DOWN", "DONE"}, count : Nat]

\* The fields of drive that the invariant speaks of; a step changes fields, never their names.
Record(d, names) == d = [f \in names |-> d[f]] /\ DOMAIN d = names

OutNames == {"mState", "sub", "mInitState", "mTimeCounter", "mIsArrived", "mSonarDetectCount",
             "mFailScanCounter", "mScanState", "gDoSonar", "seat", "counts"}
\* How far the skill is after n calls of execute.
Progress(s, n) ==
  /\ s.state = "INIT" => n = 0
  /\ s.state = "STOP" => n = 1 + s.count /\ s.count < StableCalls
  /\ s.state = "INCLINED_BACKWARD" => n = 1 + StableCalls + s.count /\ s.count < InclinedCalls
  /\ s.state = "SIT_DOWN" => n = 1 + StableCalls + InclinedCalls + s.count /\ s.count < SeatedCalls

GateInv(d) ==
  /\ Record(d, OutNames) /\ d.mTimeCounter \in Nat /\ d.seat \in Seats
  /\ d.gDoSonar \in BOOLEAN
  /\ d.mState = "START" => d.sub = "INIT" /\ d.seat = Standing
  /\ d.mState = "LOOKUP" =>
       /\ d.sub \in {"INIT", "IN_FRONT_OF_GATE", "UNDER_GATE", "UNDER_GATE_2"}
       /\ d.sub = "INIT" => d.seat = Standing
       /\ d.sub = "IN_FRONT_OF_GATE" => Progress(d.seat, d.mTimeCounter)
       /\ d.sub \in {"UNDER_GATE", "UNDER_GATE_2"} => Seated(d.seat)

--------------------------------------------------------------------------------
\* execute (SitDownSkill.cpp): a call is one step of progress.
LEMMA ExecuteProgress ==
  ASSUME NEW s \in Seats, NEW n \in Nat, Progress(s, n)
  PROVE  execute(s) \in Seats /\ Progress(execute(s), n + 1)
<1> USE SkillCounts
<1>1. Lasts(s) => execute(s) = [s EXCEPT !.count = @ + 1]
  BY DEF execute
<1>2. ~Lasts(s) => execute(s) = [state |-> After[s.state], count |-> 0]
  BY DEF execute
<1>3. CASE s.state = "INIT"
  BY <1>2, <1>3 DEF Lasts, Needs, After, Progress, Seats
<1>4. CASE s.state = "STOP"
  BY <1>1, <1>2, <1>4 DEF Lasts, Needs, After, Progress, Seats
<1>5. CASE s.state = "INCLINED_BACKWARD"
  BY <1>1, <1>2, <1>5 DEF Lasts, Needs, After, Progress, Seats
<1>6. CASE s.state = "SIT_DOWN"
  BY <1>1, <1>2, <1>6 DEF Lasts, Needs, After, Progress, Seats
<1>7. CASE s.state = "DONE"
  BY <1>2, <1>7 DEF Lasts, Needs, After, Progress, Seats
<1> QED BY <1>3, <1>4, <1>5, <1>6, <1>7 DEF Seats

\* The steps of the gate's counters.
LEMMA EntersFields ==
  ASSUME NEW d, Record(d, OutNames), NEW s
  PROVE  /\ Record(EntersGate(d, s), OutNames)
         /\ EntersGate(d, s).mTimeCounter = 0
         /\ EntersGate(d, s).sub = s
         /\ EntersGate(d, s).mState = d.mState
         /\ EntersGate(d, s).seat = d.seat
         /\ EntersGate(d, s).gDoSonar = d.gDoSonar
BY DEF Record, OutNames, EntersGate

LEMMA CountsFields ==
  ASSUME NEW d, Record(d, OutNames)
  PROVE  /\ Record(Counts(d), OutNames)
         /\ Counts(d).mTimeCounter = d.mTimeCounter + 1
         /\ Counts(d).sub = d.sub
         /\ Counts(d).mState = d.mState
         /\ Counts(d).seat = d.seat
         /\ Counts(d).gDoSonar = d.gDoSonar
BY DEF Record, OutNames, Counts

\* The gate driver (LookUpGateDriver.cpp) keeps its counter in step with the skill, and goes on
\* to roll only when SitCalls are enough for the skill to be done.
LEMMA GateStep ==
  ASSUME NEW d, GateInv(d), d.mState = "LOOKUP", LookUpGate(d)
  PROVE  GateInv(drive')
<1> USE GateCounts
<1>t. Record(d, OutNames) /\ d.mTimeCounter \in Nat /\ d.seat \in Seats /\ d.gDoSonar \in BOOLEAN
  BY DEF GateInv
<1>1. ASSUME FindsGate(d) PROVE GateInv(drive')
  <2>1. d.sub = "INIT" /\ d.seat = Standing /\ Standing \in Seats /\ Progress(Standing, 0)
    BY <1>1 DEF FindsGate, GateInv, Standing, Seats, Progress
  <2>2. CASE d.mTimeCounter + 1 >= FoundCalls
    <3> DEFINE e == EntersGate(d, "IN_FRONT_OF_GATE")
    <3>1. drive' = [e EXCEPT !.gDoSonar = TRUE]
      BY <1>1, <2>2 DEF FindsGate
    <3>2. Record(e, OutNames) /\ e.mTimeCounter = 0 /\ e.sub = "IN_FRONT_OF_GATE"
            /\ e.mState = "LOOKUP" /\ e.seat = Standing
      BY <1>t, <2>1, EntersFields, CountsFields
    <3> HIDE DEF e
    <3>3. Record(drive', OutNames) /\ drive'.mTimeCounter = 0 /\ drive'.sub = "IN_FRONT_OF_GATE"
            /\ drive'.mState = "LOOKUP" /\ drive'.seat = Standing
      BY <3>1, <3>2 DEF Record, OutNames
    <3>4. drive'.gDoSonar \in BOOLEAN
      BY <3>1, <3>2 DEF Record, OutNames
    <3> QED BY <2>1, <3>3, <3>4 DEF GateInv
  <2>3. CASE ~(d.mTimeCounter + 1 >= FoundCalls)
    <3>1. drive' = Counts(d)
      BY <1>1, <2>3 DEF FindsGate
    <3> QED BY <1>t, <2>1, <3>1, EntersFields, CountsFields DEF GateInv
  <2> QED BY <2>2, <2>3
<1>2. ASSUME SitsDown(d) PROVE GateInv(drive')
  <2> DEFINE n == d.mTimeCounter
             e == [d EXCEPT !.seat = execute(@)]
  <2>1. d.sub = "IN_FRONT_OF_GATE" /\ Progress(d.seat, n)
    BY <1>2 DEF SitsDown, GateInv
  <2>2. execute(d.seat) \in Seats /\ Progress(execute(d.seat), n + 1)
    BY <1>t, <2>1, ExecuteProgress
  <2>3. n + 1 >= SitCalls => Seated(execute(d.seat))
    BY <1>t, <2>1, <2>2, SkillCounts DEF Progress, Seats, Seated
  <2>4. Record(e, OutNames) /\ e.mTimeCounter = n /\ e.sub = "IN_FRONT_OF_GATE"
          /\ e.mState = "LOOKUP" /\ e.seat = execute(d.seat) /\ e.gDoSonar \in BOOLEAN
    BY <1>t, <2>1 DEF Record, OutNames
  <2>5. drive' = IF n + 1 >= SitCalls THEN EntersGate(e, "UNDER_GATE") ELSE Counts(e)
    BY <1>2 DEF SitsDown
  <2>6. n \in Nat
    BY <1>t
  <2> HIDE DEF e, n
  <2>7. CASE n + 1 >= SitCalls
    BY <2>2, <2>3, <2>4, <2>5, <2>6, <2>7, EntersFields, CountsFields DEF GateInv
  <2>8. CASE ~(n + 1 >= SitCalls)
    BY <2>2, <2>4, <2>5, <2>6, <2>8, EntersFields, CountsFields DEF GateInv
  <2> QED BY <2>7, <2>8
<1>3. ASSUME PassesGate(d) PROVE GateInv(drive')
  <2>1. d.sub = "UNDER_GATE" /\ Seated(d.seat)
    BY <1>3 DEF PassesGate, GateInv
  <2>2. drive' = EntersGate(d, "UNDER_GATE_2") \/ drive' = d
    BY <1>3 DEF PassesGate
  <2> QED BY <1>t, <2>1, <2>2, EntersFields, CountsFields DEF GateInv
<1>4. ASSUME LeavesGate(d) PROVE GateInv(drive')
  <2>1. d.sub = "UNDER_GATE_2" /\ Seated(d.seat)
    BY <1>4 DEF LeavesGate, GateInv
  <2>2. CASE d.mTimeCounter + 1 > BehindCalls
    <3> DEFINE e == EntersGate(d, "INIT")
    <3>1. drive' = [e EXCEPT !.mState = "ETSUMO"]
      BY <1>4, <2>2 DEF LeavesGate
    <3>2. Record(e, OutNames) /\ e.mTimeCounter = 0 /\ e.seat = d.seat /\ e.gDoSonar = d.gDoSonar
      BY <1>t, EntersFields, CountsFields
    <3> HIDE DEF e
    <3> QED BY <1>t, <3>1, <3>2 DEF GateInv, Record, OutNames
  <2>3. CASE ~(d.mTimeCounter + 1 > BehindCalls)
    <3>1. drive' = Counts(d)
      BY <1>4, <2>3 DEF LeavesGate
    <3> QED BY <1>t, <2>1, <3>1, EntersFields, CountsFields DEF GateInv
  <2> QED BY <2>2, <2>3
<1> QED BY <1>1, <1>2, <1>3, <1>4 DEF LookUpGate

--------------------------------------------------------------------------------
(* The sumo driver stays in its section, whatever its sub-states do. *)

OnRing(d) == GateInv(d) /\ d.mState = "ETSUMO"

LEMMA BeginOnRing ==
  ASSUME NEW d, OnRing(d), NEW on \in BOOLEAN
  PROVE  OnRing(BeginState(d, on)) /\ OnRing(BeginSearch(d, on)) /\ OnRing(BeginScan(d))
<1>1. \A o \in BOOLEAN : OnRing(BeginState(d, o))
  BY DEF OnRing, GateInv, Record, OutNames, BeginState
<1>2. \A o \in BOOLEAN : OnRing(BeginSearch(d, o))
  <2> TAKE o \in BOOLEAN
  <2> DEFINE b == BeginState(d, o)
  <2>1. OnRing(b) BY <1>1
  <2>2. BeginSearch(d, o) = [b EXCEPT !.mSonarDetectCount = IF d.mInitState THEN 0 ELSE @]
    BY DEF BeginSearch
  <2> HIDE DEF b
  <2> QED BY <2>1, <2>2 DEF OnRing, GateInv, Record, OutNames
<1>3. OnRing(BeginScan(d))
  <2> DEFINE b == BeginSearch(d, TRUE)
  <2>1. OnRing(b) BY <1>2
  <2>2. BeginScan(d) = IF d.mInitState
                       THEN [b EXCEPT !.mFailScanCounter = 0, !.mScanState = "SWINGRIGHT"] ELSE b
    BY DEF BeginScan
  <2> HIDE DEF b
  <2> QED BY <2>1, <2>2 DEF OnRing, GateInv, Record, OutNames
<1> QED BY <1>1, <1>2, <1>3

LEMMA EnterOnRing ==
  ASSUME NEW d, OnRing(d), NEW s
  PROVE  OnRing(Enter(d, s))
BY DEF Enter, OnRing, GateInv, Record, OutNames

LEMMA StepsOnRing ==
  ASSUME NEW d, OnRing(d)
  PROVE  OnRing(Counted(d)) /\ OnRing(Ticked(d)) /\ OnRing(SumoInit(d))
<1> USE SonarTimes DEF OnRing, GateInv, Record, OutNames
<1>1. OnRing(Counted(d))  BY DEF Counted
<1>2. OnRing(Ticked(d))  BY DEF Ticked
<1>3. OnRing(SumoInit(d))  BY DEF SumoInit, Enter
<1> QED BY <1>1, <1>2, <1>3

LEMMA MoveOnRing ==
  ASSUME NEW d, OnRing(d), NEW s, NEW t, NEW in
  PROVE  OnRing(MoveTo(d, s, t, in))
<1> DEFINE b == BeginState(d, FALSE)
<1>1. OnRing(b)
  BY BeginOnRing
<1>2. OnRing(Enter(b, t))
  <2> HIDE DEF b
  <2> QED BY <1>1, EnterOnRing
<1>3. MoveTo(d, s, t, in) \in {d, b, Enter(b, t)}
  BY DEF MoveTo
<1> QED BY <1>1, <1>2, <1>3

LEMMA SearchesOnRing ==
  ASSUME NEW d, OnRing(d), NEW in
  PROVE  OnRing(SpotSearch(d, in)) /\ OnRing(SwingSearch(d, in))
<1>1. OnRing(SpotSearch(d, in))
  <2> DEFINE b == BeginSearch(d, FALSE)
             a == IF ~b.mIsArrived /\ in.turned THEN [b EXCEPT !.gDoSonar = TRUE, !.mIsArrived = TRUE]
                                                ELSE b
             c == IF SpotLooks(a) /\ gSonarIsDetected THEN Counted(a) ELSE a
  <2>1. OnRing(b)
    BY BeginOnRing
  <2>2. OnRing(a)
    <3> HIDE DEF b
    <3> QED BY <2>1 DEF OnRing, GateInv, Record, OutNames
  <2>3. OnRing(c)
    <3> HIDE DEF a
    <3> QED BY <2>2, StepsOnRing
  <2>4. OnRing(Enter(c, "DOHYO_IN")) /\ OnRing(Enter(c, "SPOTSEARCH_to_SWINGSEARCH"))
    <3> HIDE DEF c
    <3> QED BY <2>3, EnterOnRing
  <2>5. SpotSearch(d, in) = d \/ SpotSearch(d, in) = c \/ SpotSearch(d, in) = Enter(c, "DOHYO_IN")
          \/ SpotSearch(d, in) = Enter(c, "SPOTSEARCH_to_SWINGSEARCH")
    BY DEF SpotSearch
  <2> HIDE DEF c
  <2> QED BY <2>3, <2>4, <2>5
<1>2. OnRing(SwingSearch(d, in))
  <2> DEFINE b == BeginSearch(d, FALSE)
             a == IF ~b.mIsArrived /\ in.turned
                  THEN [b EXCEPT !.gDoSonar = TRUE, !.mIsArrived = TRUE, !.mTimeCounter = 0]
                  ELSE b
             c == IF a.mIsArrived /\ Looks(a) /\ gSonarIsDetected THEN Counted(a) ELSE a
  <2>1. OnRing(b)
    BY BeginOnRing
  <2>2. OnRing(a)
    <3> HIDE DEF b
    <3> QED BY <2>1 DEF OnRing, GateInv, Record, OutNames
  <2>3. OnRing(c)
    <3> HIDE DEF a
    <3> QED BY <2>2, StepsOnRing
  <2>4. OnRing(Enter(c, "DOHYO_IN"))
    <3> HIDE DEF c
    <3> QED BY <2>3, EnterOnRing
  <2>5. SwingSearch(d, in) = d \/ SwingSearch(d, in) = c \/ SwingSearch(d, in) = Enter(c, "DOHYO_IN")
    BY DEF SwingSearch
  <2> HIDE DEF c
  <2> QED BY <2>3, <2>4, <2>5
<1> QED BY <1>1, <1>2

LEMMA AttackOnRing ==
  ASSUME NEW d, OnRing(d), NEW in
  PROVE  OnRing(HakkeReady(d, in)) /\ OnRing(Scan(d)) /\ OnRing(NokottaGo(d, in))
<1>1. OnRing(HakkeReady(d, in))
  <2> DEFINE b == BeginState(d, FALSE)
             a == IF ~b.mIsArrived /\ in.turned THEN [b EXCEPT !.mIsArrived = TRUE, !.mTimeCounter = 0]
                                                ELSE b
  <2>1. OnRing(b)
    BY BeginOnRing
  <2>2. OnRing(a)
    <3> HIDE DEF b
    <3> QED BY <2>1 DEF OnRing, GateInv, Record, OutNames
  <2>3. OnRing(Enter(a, "SCAN"))
    <3> HIDE DEF a
    <3> QED BY <2>2, EnterOnRing
  <2>4. HakkeReady(d, in) = d \/ HakkeReady(d, in) = a \/ HakkeReady(d, in) = Enter(a, "SCAN")
    BY DEF HakkeReady
  <2> HIDE DEF a
  <2> QED BY <2>2, <2>3, <2>4
<1>2. OnRing(Scan(d))
  <2> DEFINE b == BeginScan(d)
             seen == [Counted(b) EXCEPT !.mFailScanCounter = 0]
             lost == [b EXCEPT !.mFailScanCounter = IF @ < FailsNeeded THEN @ + 1 ELSE @]
             c == CASE ~Looks(b)                    -> b
                    [] Looks(b) /\ gSonarIsDetected -> seen
                    [] OTHER                        -> lost
             left == [c EXCEPT !.mFailScanCounter = 0, !.mSonarDetectCount = 0, !.mTimeCounter = 0,
                               !.mScanState = "SWINGLEFT"]
             done == [c EXCEPT !.gDoSonar = FALSE, !.mTimeCounter = 0]
  <2>1. OnRing(b)
    BY BeginOnRing
  <2>2. OnRing(seen)
    <3>1. OnRing(Counted(b))
      <4> HIDE DEF b
      <4> QED BY <2>1, StepsOnRing
    <3> QED BY <3>1 DEF OnRing, GateInv, Record, OutNames
  <2>3. OnRing(lost)
    <3> HIDE DEF b
    <3> QED BY <2>1 DEF OnRing, GateInv, Record, OutNames
  <2>4. OnRing(c)
    <3> HIDE DEF b, seen, lost
    <3> QED BY <2>1, <2>2, <2>3
  <2>5. OnRing(left) /\ OnRing(done)
    <3> HIDE DEF c
    <3> QED BY <2>4 DEF OnRing, GateInv, Record, OutNames
  <2>6. OnRing(Enter(done, "NOKOTTA_GO"))
    <3> HIDE DEF done
    <3> QED BY <2>5, EnterOnRing
  <2>7. Scan(d) = d \/ Scan(d) = c \/ Scan(d) = left \/ Scan(d) = Enter(done, "NOKOTTA_GO")
    BY DEF Scan
  <2> HIDE DEF c, left, done
  <2> QED BY <2>4, <2>5, <2>6, <2>7
<1>3. OnRing(NokottaGo(d, in))
  <2> DEFINE b == BeginState(d, FALSE)
             a == IF ~b.mIsArrived /\ in.turned THEN [b EXCEPT !.mIsArrived = TRUE] ELSE b
  <2>1. OnRing(b)
    BY BeginOnRing
  <2>2. OnRing(a)
    <3> HIDE DEF b
    <3> QED BY <2>1 DEF OnRing, GateInv, Record, OutNames
  <2>3. OnRing([a EXCEPT !.mTimeCounter = 0])
    <3> HIDE DEF a
    <3> QED BY <2>2 DEF OnRing, GateInv, Record, OutNames
  <2>4. NokottaGo(d, in) = d \/ NokottaGo(d, in) = a \/ NokottaGo(d, in) = [a EXCEPT !.mTimeCounter = 0]
    BY DEF NokottaGo
  <2> HIDE DEF a
  <2> QED BY <2>2, <2>3, <2>4
<1> QED BY <1>1, <1>2, <1>3

LEMMA SumoStep ==
  ASSUME NEW d, OnRing(d), ETsumo(d)
  PROVE  OnRing(drive')
<1> PICK in \in [there : BOOLEAN, turned : BOOLEAN, swept : BOOLEAN] :
      LET prepared == MoveTo(SumoInit(d), "PREPARE_SPOTSEARCH", "SPOTSEARCH", in)
          searched == SwingSearch(MoveTo(SpotSearch(prepared, in),
                                         "SPOTSEARCH_to_SWINGSEARCH", "SWINGSEARCH", in), in)
          ready    == HakkeReady(MoveTo(searched, "DOHYO_IN", "HAKKE_READY", in), in)
      IN drive' = Ticked(NokottaGo(Scan(ready), in))
  BY DEF ETsumo
<1> DEFINE prepared == MoveTo(SumoInit(d), "PREPARE_SPOTSEARCH", "SPOTSEARCH", in)
           spotted  == SpotSearch(prepared, in)
           moved    == MoveTo(spotted, "SPOTSEARCH_to_SWINGSEARCH", "SWINGSEARCH", in)
           searched == SwingSearch(moved, in)
           placed   == MoveTo(searched, "DOHYO_IN", "HAKKE_READY", in)
           ready    == HakkeReady(placed, in)
<1>1. OnRing(prepared)  BY StepsOnRing, MoveOnRing
<1>2. OnRing(spotted)  BY <1>1, SearchesOnRing
<1>3. OnRing(moved)  BY <1>2, MoveOnRing
<1>4. OnRing(searched)  BY <1>3, SearchesOnRing
<1>5. OnRing(placed)  BY <1>4, MoveOnRing
<1>6. OnRing(ready)  BY <1>5, AttackOnRing
<1>7. drive' = Ticked(NokottaGo(Scan(ready), in))
  OBVIOUS
<1> HIDE DEF ready
<1> QED BY <1>6, <1>7, AttackOnRing, StepsOnRing

--------------------------------------------------------------------------------
(* The sonar on the ring.  A detection stays set between two measurements, so it is new *)
(* at a look only because looks are further apart than measurements: the time since the *)
(* last look is the remainder of a counter, and that is what the lemmas begin with.     *)

\* t calls after the sub-state looked first: the last look was Age(t) calls ago.
Age(t) == t % SampleEvery
Since(t) == IF Age(t) = 0 THEN SampleEvery ELSE Age(t)

LEMMA AtLeastOnce ==
  ASSUME NEW S \in Nat \ {0}, NEW k \in Int, k >= 1
  PROVE  k * S >= S
<1>1. (k - 1) * S >= 0
  OBVIOUS
<1> QED BY <1>1

\* t calls are q whole rounds of S calls and r more.
Splits(t, S, q, r) == t = q * S + r

LEMMA OneRemainder ==
  ASSUME NEW S \in Nat \ {0}, NEW t \in Nat, NEW q \in Nat, NEW p \in Nat,
         NEW r \in 0 .. S - 1, NEW s \in 0 .. S - 1, Splits(t, S, q, r), Splits(t, S, p, s)
  PROVE  r = s
<1>1. (q - p) * S = s - r /\ (p - q) * S = r - s
  BY DEF Splits
<1>2. CASE q - p >= 1
  <2>1. (q - p) * S >= S  BY <1>2, AtLeastOnce
  <2> QED BY <1>1, <2>1
<1>3. CASE p - q >= 1
  <2>1. (p - q) * S >= S  BY <1>3, AtLeastOnce
  <2> QED BY <1>1, <2>1
<1>4. CASE q = p
  BY <1>1, <1>4
<1> QED BY <1>2, <1>3, <1>4

LEMMA Remainder ==
  ASSUME NEW S \in Nat \ {0}, NEW t \in Nat
  PROVE  \E q \in Nat, r \in 0 .. S - 1 : Splits(t, S, q, r) /\ r = t % S
<1>1. t % S \in 0 .. S - 1 /\ t \div S \in Int /\ t = (t \div S) * S + (t % S)
  OBVIOUS
<1>2. PICK q \in Int : q = t \div S
  BY <1>1
<1>3. ASSUME -q >= 1 PROVE FALSE
  <2>1. (-q) * S >= S  BY <1>3, AtLeastOnce
  <2> QED BY <1>1, <1>2, <2>1
<1>4. q \in Nat
  <2>1. q >= 0 \/ -q >= 1  OBVIOUS
  <2> QED BY <1>3, <2>1
<1>5. Splits(t, S, q, t % S)
  BY <1>1, <1>2 DEF Splits
<1> QED BY <1>1, <1>4, <1>5

LEMMA RemainderOf ==
  ASSUME NEW S \in Nat \ {0}, NEW t \in Nat, NEW q \in Nat, NEW r \in 0 .. S - 1, Splits(t, S, q, r)
  PROVE  t % S = r
<1>1. PICK p \in Nat, s \in 0 .. S - 1 : Splits(t, S, p, s) /\ s = t % S
  BY Remainder
<1>2. s = r
  BY <1>1, OneRemainder
<1> QED BY <1>1, <1>2

LEMMA AgeOf ==
  ASSUME NEW t \in Nat, NEW q \in Nat, NEW r \in 0 .. SampleEvery - 1, Splits(t, SampleEvery, q, r)
  PROVE  Age(t) = r
BY RemainderOf, SonarTimes DEF Age

LEMMA Ages ==
  ASSUME NEW t \in Nat
  PROVE  /\ Age(t) \in 0 .. SampleEvery - 1
         /\ Age(t + 1) = IF Age(t) = SampleEvery - 1 THEN 0 ELSE Age(t) + 1
<1>1. SampleEvery \in Nat \ {0}
  BY SonarTimes
<1>2. PICK q \in Nat, r \in 0 .. SampleEvery - 1 : Splits(t, SampleEvery, q, r) /\ r = Age(t)
  BY <1>1, Remainder DEF Age
<1>3. CASE r = SampleEvery - 1
  <2>1. (q + 1) * SampleEvery = q * SampleEvery + SampleEvery /\ q * SampleEvery \in Nat
    BY <1>1
  <2>5. t + 1 = q * SampleEvery + SampleEvery
    <3> DEFINE w == q * SampleEvery
    <3>1. t = w + r  BY <1>2 DEF Splits
    <3>2. w \in Nat  BY <2>1
    <3> HIDE DEF w
    <3>3. t + 1 = w + SampleEvery  BY <1>1, <1>3, <3>1, <3>2
    <3> QED BY <3>3 DEF w
  <2>2. Splits(t + 1, SampleEvery, q + 1, 0)
    <3>1. t + 1 = (q + 1) * SampleEvery  BY <2>1, <2>5
    <3> QED BY <3>1 DEF Splits
  <2>3. q + 1 \in Nat /\ 0 \in 0 .. SampleEvery - 1 /\ t + 1 \in Nat
    BY <1>1
  <2>4. Age(t + 1) = 0
    BY <2>2, <2>3, AgeOf
  <2> QED BY <1>2, <1>3, <2>4
<1>4. CASE r # SampleEvery - 1
  <2>1. Splits(t + 1, SampleEvery, q, r + 1)
    BY <1>1, <1>2, <1>4 DEF Splits
  <2>2. r + 1 \in 0 .. SampleEvery - 1 /\ t + 1 \in Nat
    BY <1>1, <1>4
  <2>3. Age(t + 1) = r + 1
    BY <2>1, <2>2, AgeOf
  <2> QED BY <1>2, <1>4, <2>3
<1> QED BY <1>3, <1>4

LEMMA AgesAtRest ==
  /\ Age(0) = 0 /\ Age(Settling) = 0 /\ Age(Settling + SampleEvery) = 0
  /\ Settling \in Nat \ {0}
<1>1. SampleEvery \in Nat \ {0} /\ 0 \in 0 .. SampleEvery - 1
  BY SonarTimes
<1>2. PICK n \in 2 .. Settling : Settling = n * SampleEvery
  BY SonarTimes
<1>3. n \in Nat /\ n >= 1 /\ n + 1 \in Nat
  BY <1>2
<1>4. Settling \in Nat \ {0}
  <2>1. n * SampleEvery >= SampleEvery  BY <1>1, <1>3, AtLeastOnce
  <2> QED BY <1>1, <1>2, <1>3, <2>1
<1>5. Splits(0, SampleEvery, 0, 0) /\ Splits(Settling, SampleEvery, n, 0)
  BY <1>1, <1>2, <1>3 DEF Splits
<1>6. Splits(Settling + SampleEvery, SampleEvery, n + 1, 0)
  <2>1. (n + 1) * SampleEvery = n * SampleEvery + SampleEvery
    BY <1>1, <1>3
  <2> QED BY <1>1, <1>2, <1>3, <2>1 DEF Splits
<1>7. Settling + SampleEvery \in Nat
  BY <1>1, <1>4
<1>8. Age(0) = 0
  BY <1>1, <1>5, AgeOf
<1>9. Age(Settling) = 0
  BY <1>1, <1>3, <1>4, <1>5, AgeOf
<1>10. Age(Settling + SampleEvery) = 0
  BY <1>1, <1>3, <1>6, <1>7, AgeOf
<1> QED BY <1>4, <1>8, <1>9, <1>10

--------------------------------------------------------------------------------
\* Quiet: no measurement is going on, and none has been taken for a detection.
Quiet(s, g) == ~s.measures /\ ~g

\* r calls after a detection was counted, the next measurement is still on its way.
OnItsWay(s, r) == IF s.measures THEN r <= s.late + SonarPeriod ELSE s.due + r <= SonarPeriod
Awaits(s, g, r, f) == g /\ ~f => OnItsWay(s, r)

\* s is TaskSonar's record, g the flag it shares with the driver.
SonarTypes(s, g) ==
  /\ s.measures \in BOOLEAN /\ s.due \in 0 .. SonarPeriod /\ s.late \in 0 .. MaxDelay
  /\ s = [measures |-> s.measures, due |-> s.due, late |-> s.late]
  /\ g \in BOOLEAN

Moves    == {"PREPARE_SPOTSEARCH", "SPOTSEARCH_to_SWINGSEARCH", "DOHYO_IN"}
Searches == {"SPOTSEARCH", "SWINGSEARCH"}
RingSubs == Moves \cup Searches \cup {"HAKKE_READY", "SCAN", "NOKOTTA_GO"}

\* What a sub-state may rely on, w calls after it began and r calls after it last looked:
\* while it only moves the sonar is off and falls quiet within its period, a search or a scan
\* counts a detection that is new (f), or a new one comes before it looks again.
Held(d, s, g, w, r, f) ==
  /\ d.mInitState = FALSE
  /\ d.sub \in Moves => d.gDoSonar = FALSE /\ (Quiet(s, g) \/ s.due + w <= SonarPeriod)
  /\ d.sub \in Searches =>
       /\ d.mIsArrived \in BOOLEAN /\ d.gDoSonar = d.mIsArrived
       /\ IF d.mIsArrived THEN Awaits(s, g, r, f) ELSE Quiet(s, g)
  /\ d.sub = "HAKKE_READY" => d.gDoSonar = FALSE /\ Quiet(s, g)
  /\ d.sub = "SCAN" => d.gDoSonar = TRUE /\ Awaits(s, g, r, f)

\* A sub-state that has just been entered and has still to be initialised.
Entered(d, s, g) ==
  /\ d.mInitState = TRUE
  /\ d.sub \in Searches \cup {"HAKKE_READY"} => d.gDoSonar = FALSE /\ Quiet(s, g)
  /\ d.sub = "SCAN" => Quiet(s, g)

\* Within a call: a sub-state that has still to be driven, and one that has been.
ToDrive(d) ==
  /\ OnRing(d) /\ d.sub \in RingSubs /\ (d.counts => fresh)
  /\ \/ Entered(d, sonar, gSonarIsDetected)
     \/ d.counts = FALSE /\ Held(d, sonar, gSonarIsDetected, d.mTimeCounter, Since(d.mTimeCounter), fresh)

Driven(d) ==
  /\ OnRing(d) /\ d.sub \in RingSubs /\ (d.counts => fresh)
  /\ Held(d, sonar, gSonarIsDetected, d.mTimeCounter, Age(d.mTimeCounter), fresh /\ ~d.counts)

SonarFacts == SonarTypes(sonar, gSonarIsDetected) /\ fresh \in BOOLEAN

LEMMA SonarBounds ==
  ASSUME NEW s, NEW g, SonarTypes(s, g)
  PROVE  /\ OnItsWay(s, 0)
         /\ ~OnItsWay(s, SampleEvery)
BY SonarTimes DEF OnItsWay, SonarTypes

LEMMA SinceAge ==
  ASSUME NEW s, NEW g, SonarTypes(s, g), NEW t \in Nat, OnItsWay(s, Since(t))
  PROVE  OnItsWay(s, Age(t)) /\ Age(t) # 0
<1>1. SampleEvery \in Nat \ {0} /\ Age(t) \in Nat
  BY SonarTimes, Ages
<1>2. Age(t) # 0
  BY SonarBounds DEF Since
<1> QED BY <1>2 DEF Since

\* The fields these lemmas speak of.
Begins(b, d, on) ==
  /\ b.sub = d.sub /\ b.counts = d.counts
  /\ IF d.mInitState
     THEN b.mInitState = FALSE /\ b.mTimeCounter = 0 /\ b.mIsArrived = FALSE /\ b.gDoSonar = on
     ELSE /\ b.mInitState = d.mInitState /\ b.mTimeCounter = d.mTimeCounter
          /\ b.mIsArrived = d.mIsArrived /\ b.gDoSonar = d.gDoSonar

LEMMA BeginsSo ==
  ASSUME NEW d, OnRing(d), NEW on \in BOOLEAN
  PROVE  Begins(BeginState(d, on), d, on) /\ Begins(BeginSearch(d, on), d, on)
           /\ Begins(BeginScan(d), d, TRUE)
<1>1. \A o \in BOOLEAN : Begins(BeginState(d, o), d, o)
  BY DEF BeginState, OnRing, GateInv, Record, OutNames, Begins
<1>2. \A o \in BOOLEAN : Begins(BeginSearch(d, o), d, o)
  <2> TAKE o \in BOOLEAN
  <2> DEFINE b == BeginState(d, o)
  <2>1. OnRing(b) /\ Begins(b, d, o)  BY <1>1, BeginOnRing
  <2>2. BeginSearch(d, o) = [b EXCEPT !.mSonarDetectCount = IF d.mInitState THEN 0 ELSE @]
    BY DEF BeginSearch
  <2> HIDE DEF b
  <2> QED BY <2>1, <2>2 DEF OnRing, GateInv, Record, OutNames, Begins
<1>3. Begins(BeginScan(d), d, TRUE)
  <2> DEFINE b == BeginSearch(d, TRUE)
  <2>1. OnRing(b) /\ Begins(b, d, TRUE)  BY <1>2, BeginOnRing
  <2>2. BeginScan(d) = IF d.mInitState
                       THEN [b EXCEPT !.mFailScanCounter = 0, !.mScanState = "SWINGRIGHT"] ELSE b
    BY DEF BeginScan
  <2> HIDE DEF b
  <2> QED BY <2>1, <2>2 DEF OnRing, GateInv, Record, OutNames, Begins
<1> QED BY <1>1, <1>2, <1>3

Enters(e, d, s) ==
  /\ e.sub = s /\ e.mInitState = TRUE /\ e.counts = d.counts /\ e.mTimeCounter = d.mTimeCounter
  /\ e.mIsArrived = d.mIsArrived /\ e.gDoSonar = d.gDoSonar

LEMMA EntersSo ==
  ASSUME NEW d, OnRing(d), NEW s
  PROVE  OnRing(Enter(d, s)) /\ Enters(Enter(d, s), d, s)
<1>1. Enters(Enter(d, s), d, s)
  BY DEF Enter, Enters, OnRing, GateInv, Record, OutNames
<1> QED BY <1>1, EnterOnRing

LEMMA CountsSo ==
  ASSUME NEW d, OnRing(d)
  PROVE  /\ OnRing(Counted(d)) /\ Counted(d).counts = TRUE
         /\ Counted(d).sub = d.sub /\ Counted(d).mInitState = d.mInitState
         /\ Counted(d).mTimeCounter = d.mTimeCounter
         /\ Counted(d).mIsArrived = d.mIsArrived /\ Counted(d).gDoSonar = d.gDoSonar
BY StepsOnRing DEF Counted, OnRing, GateInv, Record, OutNames

--------------------------------------------------------------------------------
LEMMA MoveDriven ==
  ASSUME NEW d, ToDrive(d), SonarFacts, NEW in, NEW s \in Moves, d.sub = s,
         NEW t \in Searches \cup {"HAKKE_READY"}
  PROVE  LET e == MoveTo(d, s, t, in)
         IN (e.sub = s /\ Driven(e)) \/ (e.sub = t /\ ToDrive(e))
<1> DEFINE b == BeginState(d, FALSE)  e == MoveTo(d, s, t, in)
           st == sonar  g == gSonarIsDetected
<1>1. OnRing(b) /\ Begins(b, d, FALSE)
  BY BeginOnRing, BeginsSo DEF ToDrive
<1>2. OnRing(Enter(b, t)) /\ Enters(Enter(b, t), b, t)
  BY <1>1, EntersSo
<1>3. e = IF in.there /\ b.mTimeCounter >= MinMove THEN Enter(b, t) ELSE b
  BY DEF MoveTo
<1>t. b.mTimeCounter \in Nat /\ SonarTypes(st, g) /\ SonarPeriod \in Nat \ {0} /\ MinMove > SonarPeriod
  BY <1>1, SonarTimes DEF OnRing, GateInv, SonarFacts
<1> HIDE DEF b, e
<1>4. /\ b.mInitState = FALSE /\ b.gDoSonar = FALSE /\ b.sub = s /\ (b.counts => fresh)
      /\ Quiet(st, g) \/ st.due + b.mTimeCounter <= SonarPeriod
  BY <1>1, <1>t DEF ToDrive, Begins, Entered, Held, SonarTypes
<1>5. Driven(b)
  BY <1>1, <1>4 DEF Driven, Held, Moves, Searches, RingSubs
<1>6. ASSUME b.mTimeCounter >= MinMove PROVE Quiet(st, g)
  BY <1>4, <1>6, <1>t, SonarTimes DEF SonarTypes
<1>7. ASSUME b.mTimeCounter >= MinMove PROVE ToDrive(Enter(b, t)) /\ Enter(b, t).sub = t
  BY <1>2, <1>4, <1>6, <1>7 DEF ToDrive, Enters, Entered, Moves, Searches, RingSubs
<1> QED BY <1>3, <1>4, <1>5, <1>7 DEF e

\* Whether or not a search or a scan counts, the next detection is a new one.
LEMMA LooksAnew ==
  ASSUME SonarFacts, NEW t \in Nat, NEW f \in BOOLEAN,
         Awaits(sonar, gSonarIsDetected, Since(t), f)
  PROVE  /\ Awaits(sonar, gSonarIsDetected, Age(t), f)
         /\ Age(t) = 0 /\ gSonarIsDetected => f
BY SinceAge DEF Awaits, SonarFacts

LEMMA JustCounted ==
  ASSUME SonarFacts, NEW f
  PROVE  Awaits(sonar, gSonarIsDetected, 0, f)
BY SonarBounds DEF Awaits, SonarFacts

LEMMA QuietAwaits ==
  ASSUME NEW s, NEW g, Quiet(s, g), NEW r, NEW f
  PROVE  Awaits(s, g, r, f)
BY DEF Awaits, Quiet

\* Two moments of a call that differ only in what a scan has counted.
SameLooks(e, d) ==
  /\ e.sub = d.sub /\ e.mInitState = d.mInitState /\ e.counts = d.counts
  /\ e.mTimeCounter = d.mTimeCounter /\ e.mIsArrived = d.mIsArrived /\ e.gDoSonar = d.gDoSonar

\* a has looked or not, c is what it made of it.
LEMMA Looked ==
  ASSUME NEW a, OnRing(a), SonarFacts, a.sub \in Searches \cup {"SCAN"}, a.mInitState = FALSE,
         a.gDoSonar = TRUE, a.sub \in Searches => a.mIsArrived = TRUE, a.counts => fresh,
         \/ Quiet(sonar, gSonarIsDetected)
         \/ a.counts = FALSE /\ Awaits(sonar, gSonarIsDetected, Since(a.mTimeCounter), fresh),
         NEW c, c = a \/ (Looks(a) /\ gSonarIsDetected /\ c = Counted(a))
  PROVE  Driven(c) /\ c.sub = a.sub
<1> DEFINE st == sonar  g == gSonarIsDetected  t == a.mTimeCounter
<1>t. t \in Nat /\ Age(t) \in Nat
  BY Ages, SonarTimes DEF OnRing, GateInv
<1>1. ASSUME c = a PROVE Awaits(st, g, Age(t), fresh /\ ~a.counts)
  <2>1. CASE Quiet(st, g)
    BY <2>1, QuietAwaits
  <2>2. CASE a.counts = FALSE /\ Awaits(st, g, Since(t), fresh)
    BY <1>t, <2>2, LooksAnew DEF SonarFacts
  <2> QED BY <2>1, <2>2
<1>2. CASE c = a
  BY <1>1, <1>2 DEF Driven, Held, Moves, Searches, RingSubs
<1>3. CASE Looks(a) /\ g /\ c = Counted(a)
  <2>1. Age(t) = 0
    BY <1>3 DEF Looks, Age
  <2>2. fresh
    BY <1>t, <1>3, <2>1, LooksAnew DEF SonarFacts, Quiet
  <2>3. OnRing(c) /\ c.counts = TRUE /\ c.sub = a.sub /\ c.mInitState = FALSE /\ c.mTimeCounter = t
          /\ c.mIsArrived = a.mIsArrived /\ c.gDoSonar = TRUE
    BY <1>3, CountsSo
  <2>4. Awaits(st, g, Age(t), fresh /\ ~c.counts)
    BY <2>1, JustCounted
  <2> QED BY <2>2, <2>3, <2>4 DEF Driven, Held, Moves, Searches, RingSubs
<1> QED BY <1>2, <1>3

--------------------------------------------------------------------------------
LEMMA SpotDriven ==
  ASSUME NEW d, ToDrive(d), SonarFacts, d.sub = "SPOTSEARCH", NEW in, in.turned \in BOOLEAN
  PROVE  LET e == SpotSearch(d, in)
         IN \/ e.sub = "SPOTSEARCH" /\ Driven(e)
            \/ e.sub \in {"SPOTSEARCH_to_SWINGSEARCH", "DOHYO_IN"} /\ ToDrive(e)
<1> DEFINE b == BeginSearch(d, FALSE)
           a == IF ~b.mIsArrived /\ in.turned THEN [b EXCEPT !.gDoSonar = TRUE, !.mIsArrived = TRUE]
                                              ELSE b
           c == IF SpotLooks(a) /\ gSonarIsDetected THEN Counted(a) ELSE a
           st == sonar  g == gSonarIsDetected
           e == SpotSearch(d, in)
<1>1. OnRing(b) /\ Begins(b, d, FALSE)
  BY BeginOnRing, BeginsSo DEF ToDrive
<1>2. b.sub = "SPOTSEARCH" /\ b.mInitState = FALSE /\ (b.counts => fresh) /\ b.mIsArrived \in BOOLEAN
        /\ b.gDoSonar = b.mIsArrived
  BY <1>1 DEF ToDrive, Begins, Entered, Held, Searches, Moves
<1>3. \/ b.mIsArrived = FALSE /\ Quiet(st, g)
      \/ b.mIsArrived = TRUE /\ b.counts = FALSE /\ Awaits(st, g, Since(b.mTimeCounter), fresh)
  BY <1>1 DEF ToDrive, Begins, Entered, Held, Searches, Moves
<1>4. c = IF SpotLooks(a) /\ g THEN Counted(a) ELSE a
  OBVIOUS
<1>5. e = c \/ e = Enter(c, "DOHYO_IN") \/ e = Enter(c, "SPOTSEARCH_to_SWINGSEARCH")
  BY DEF SpotSearch
<1>6. a = b \/ (b.mIsArrived = FALSE /\ a = [b EXCEPT !.gDoSonar = TRUE, !.mIsArrived = TRUE])
  BY <1>2
<1> HIDE DEF a, b, c, e
<1>7. /\ OnRing(a) /\ a.sub = "SPOTSEARCH" /\ a.mInitState = FALSE /\ (a.counts => fresh)
      /\ a.mIsArrived \in BOOLEAN /\ a.gDoSonar = a.mIsArrived
      /\ \/ Quiet(st, g)
         \/ a.mIsArrived = TRUE /\ a.counts = FALSE /\ Awaits(st, g, Since(a.mTimeCounter), fresh)
  BY <1>1, <1>2, <1>3, <1>6 DEF OnRing, GateInv, Record, OutNames
<1>8. c.sub = "SPOTSEARCH" /\ Driven(c)
  <2>1. CASE a.mIsArrived = FALSE
    <3>1. c = a  BY <1>4, <2>1 DEF SpotLooks
    <3> QED BY <1>7, <2>1, <3>1 DEF Driven, Held, Searches, Moves, RingSubs
  <2>2. CASE a.mIsArrived = TRUE
    <3>1. c = a \/ (Looks(a) /\ g /\ c = Counted(a))  BY <1>4 DEF SpotLooks
    <3>2. a.sub \in Searches  BY <1>7 DEF Searches
    <3> QED BY <1>7, <2>2, <3>1, <3>2, Looked
  <2> QED BY <1>7, <2>1, <2>2
<1>9. ASSUME NEW n \in {"SPOTSEARCH_to_SWINGSEARCH", "DOHYO_IN"}
      PROVE  ToDrive(Enter(c, n)) /\ Enter(c, n).sub = n
  <2>1. OnRing(Enter(c, n)) /\ Enters(Enter(c, n), c, n)
    BY <1>8, EntersSo DEF Driven
  <2> QED BY <1>8, <2>1 DEF ToDrive, Driven, Enters, Entered, Searches, Moves, RingSubs
<1> QED BY <1>5, <1>8, <1>9 DEF e

LEMMA SwingDriven ==
  ASSUME NEW d, ToDrive(d), SonarFacts, d.sub = "SWINGSEARCH", NEW in, in.turned \in BOOLEAN
  PROVE  LET e == SwingSearch(d, in)
         IN (e.sub = "SWINGSEARCH" /\ Driven(e)) \/ (e.sub = "DOHYO_IN" /\ ToDrive(e))
<1> DEFINE b == BeginSearch(d, FALSE)
           a == IF ~b.mIsArrived /\ in.turned
                THEN [b EXCEPT !.gDoSonar = TRUE, !.mIsArrived = TRUE, !.mTimeCounter = 0]
                ELSE b
           c == IF a.mIsArrived /\ Looks(a) /\ gSonarIsDetected THEN Counted(a) ELSE a
           st == sonar  g == gSonarIsDetected
           e == SwingSearch(d, in)
<1>1. OnRing(b) /\ Begins(b, d, FALSE)
  BY BeginOnRing, BeginsSo DEF ToDrive
<1>2. b.sub = "SWINGSEARCH" /\ b.mInitState = FALSE /\ (b.counts => fresh) /\ b.mIsArrived \in BOOLEAN
        /\ b.gDoSonar = b.mIsArrived
  BY <1>1 DEF ToDrive, Begins, Entered, Held, Searches, Moves
<1>3. \/ b.mIsArrived = FALSE /\ Quiet(st, g)
      \/ b.mIsArrived = TRUE /\ b.counts = FALSE /\ Awaits(st, g, Since(b.mTimeCounter), fresh)
  BY <1>1 DEF ToDrive, Begins, Entered, Held, Searches, Moves
<1>4. c = IF a.mIsArrived /\ Looks(a) /\ g THEN Counted(a) ELSE a
  OBVIOUS
<1>5. e = c \/ e = Enter(c, "DOHYO_IN")
  BY DEF SwingSearch
<1>6. a = b \/ (b.mIsArrived = FALSE
                  /\ a = [b EXCEPT !.gDoSonar = TRUE, !.mIsArrived = TRUE, !.mTimeCounter = 0])
  BY <1>2
<1> HIDE DEF a, b, c, e
<1>7. /\ OnRing(a) /\ a.sub = "SWINGSEARCH" /\ a.mInitState = FALSE /\ (a.counts => fresh)
      /\ a.mIsArrived \in BOOLEAN /\ a.gDoSonar = a.mIsArrived
      /\ \/ Quiet(st, g)
         \/ a.mIsArrived = TRUE /\ a.counts = FALSE /\ Awaits(st, g, Since(a.mTimeCounter), fresh)
  <2>1. CASE a = b
    BY <1>1, <1>2, <1>3, <2>1
  <2>2. CASE b.mIsArrived = FALSE /\ a = [b EXCEPT !.gDoSonar = TRUE, !.mIsArrived = TRUE, !.mTimeCounter = 0]
    <3>1. OnRing(a) /\ a.sub = b.sub /\ a.mInitState = b.mInitState /\ a.counts = b.counts
            /\ a.mIsArrived = TRUE /\ a.gDoSonar = TRUE
      BY <1>1, <2>2 DEF OnRing, GateInv, Record, OutNames
    <3> QED BY <1>2, <1>3, <2>2, <3>1
  <2> QED BY <1>6, <2>1, <2>2
<1>8. c.sub = "SWINGSEARCH" /\ Driven(c)
  <2>1. CASE a.mIsArrived = FALSE
    <3>1. c = a  BY <1>4, <2>1
    <3> QED BY <1>7, <2>1, <3>1 DEF Driven, Held, Searches, Moves, RingSubs
  <2>2. CASE a.mIsArrived = TRUE
    <3>1. c = a \/ (Looks(a) /\ g /\ c = Counted(a))  BY <1>4
    <3>2. a.sub \in Searches  BY <1>7 DEF Searches
    <3> QED BY <1>7, <2>2, <3>1, <3>2, Looked
  <2> QED BY <1>7, <2>1, <2>2
<1>9. ToDrive(Enter(c, "DOHYO_IN")) /\ Enter(c, "DOHYO_IN").sub = "DOHYO_IN"
  <2>1. OnRing(Enter(c, "DOHYO_IN")) /\ Enters(Enter(c, "DOHYO_IN"), c, "DOHYO_IN")
    BY <1>8, EntersSo DEF Driven
  <2> QED BY <1>8, <2>1 DEF ToDrive, Driven, Enters, Entered, Searches, Moves, RingSubs
<1> QED BY <1>5, <1>8, <1>9 DEF e

LEMMA HakkeDriven ==
  ASSUME NEW d, ToDrive(d), SonarFacts, d.sub = "HAKKE_READY", NEW in
  PROVE  LET e == HakkeReady(d, in)
         IN (e.sub = "HAKKE_READY" /\ Driven(e)) \/ (e.sub = "SCAN" /\ ToDrive(e))
<1> DEFINE b == BeginState(d, FALSE)
           a == IF ~b.mIsArrived /\ in.turned THEN [b EXCEPT !.mIsArrived = TRUE, !.mTimeCounter = 0]
                                              ELSE b
           st == sonar  g == gSonarIsDetected
           e == HakkeReady(d, in)
<1>1. OnRing(b) /\ Begins(b, d, FALSE)
  BY BeginOnRing, BeginsSo DEF ToDrive
<1>2. b.sub = "HAKKE_READY" /\ b.mInitState = FALSE /\ (b.counts => fresh) /\ b.gDoSonar = FALSE
        /\ Quiet(st, g)
  BY <1>1 DEF ToDrive, Begins, Entered, Held, Searches, Moves
<1>3. e = a \/ e = Enter(a, "SCAN")
  BY DEF HakkeReady
<1>4. a = b \/ a = [b EXCEPT !.mIsArrived = TRUE, !.mTimeCounter = 0]
  OBVIOUS
<1> HIDE DEF a, b, e
<1>5. OnRing(a) /\ a.sub = "HAKKE_READY" /\ a.mInitState = FALSE /\ (a.counts => fresh) /\ a.gDoSonar = FALSE
  <2>1. CASE a = b
    BY <1>1, <1>2, <2>1
  <2>2. CASE a = [b EXCEPT !.mIsArrived = TRUE, !.mTimeCounter = 0]
    <3>1. OnRing(a) /\ a.sub = b.sub /\ a.mInitState = b.mInitState /\ a.counts = b.counts
            /\ a.gDoSonar = b.gDoSonar
      BY <1>1, <2>2 DEF OnRing, GateInv, Record, OutNames
    <3> QED BY <1>2, <3>1
  <2> QED BY <1>4, <2>1, <2>2
<1>6. Driven(a)
  BY <1>2, <1>5 DEF Driven, Held, Searches, Moves, RingSubs
<1>7. OnRing(Enter(a, "SCAN")) /\ Enters(Enter(a, "SCAN"), a, "SCAN")
  BY <1>5, EntersSo
<1>8. ToDrive(Enter(a, "SCAN")) /\ Enter(a, "SCAN").sub = "SCAN"
  BY <1>2, <1>5, <1>7 DEF ToDrive, Enters, Entered, Searches, Moves, RingSubs
<1> QED BY <1>3, <1>5, <1>6, <1>8 DEF e

LEMMA ScanDriven ==
  ASSUME NEW d, ToDrive(d), SonarFacts, d.sub = "SCAN"
  PROVE  LET e == Scan(d) IN (e.sub = "SCAN" /\ Driven(e)) \/ (e.sub = "NOKOTTA_GO" /\ ToDrive(e))
<1> DEFINE st == sonar  g == gSonarIsDetected
           b == BeginScan(d)
           seen == [Counted(b) EXCEPT !.mFailScanCounter = 0]
           lost == [b EXCEPT !.mFailScanCounter = IF @ < FailsNeeded THEN @ + 1 ELSE @]
           c == CASE ~Looks(b)                    -> b
                  [] Looks(b) /\ gSonarIsDetected -> seen
                  [] OTHER                        -> lost
           left == [c EXCEPT !.mFailScanCounter = 0, !.mSonarDetectCount = 0, !.mTimeCounter = 0,
                             !.mScanState = "SWINGLEFT"]
           done == [c EXCEPT !.gDoSonar = FALSE, !.mTimeCounter = 0]
           e == Scan(d)
<1>1. OnRing(b) /\ Begins(b, d, TRUE)
  BY BeginOnRing, BeginsSo DEF ToDrive
<1>2. b.sub = "SCAN" /\ b.mInitState = FALSE /\ (b.counts => fresh) /\ b.gDoSonar = TRUE
  BY <1>1 DEF ToDrive, Begins, Entered, Held, Searches, Moves
<1>3. \/ Quiet(st, g)
      \/ b.counts = FALSE /\ Awaits(st, g, Since(b.mTimeCounter), fresh)
  BY <1>1 DEF ToDrive, Begins, Entered, Held, Searches, Moves
<1>4. e = c \/ e = left \/ e = Enter(done, "NOKOTTA_GO")
  BY DEF Scan
<1>5. c = b \/ (Looks(b) /\ g /\ c = seen) \/ c = lost
  OBVIOUS
<1>6. OnRing(seen) /\ SameLooks(seen, Counted(b))
  <2> DEFINE n == Counted(b)
  <2>1. OnRing(n)  BY <1>1, CountsSo
  <2>2. seen = [n EXCEPT !.mFailScanCounter = 0]  OBVIOUS
  <2> HIDE DEF n, seen
  <2>3. OnRing(seen) /\ SameLooks(seen, n)
    BY <2>1, <2>2 DEF SameLooks, OnRing, GateInv, Record, OutNames
  <2> QED BY <2>3 DEF n, OnRing, GateInv, Record, OutNames
<1>7. OnRing(lost) /\ SameLooks(lost, b)
  <2> HIDE DEF b
  <2> QED BY <1>1 DEF SameLooks, OnRing, GateInv, Record, OutNames
<1> HIDE DEF seen, lost, b
<1>8. \E a \in {b, Counted(b)} :
        /\ a = b \/ (Looks(b) /\ g /\ a = Counted(b))
        /\ OnRing(c) /\ SameLooks(c, a)
  <2>1. SameLooks(b, b)  BY DEF SameLooks
  <2> QED BY <1>1, <1>5, <1>6, <1>7, <2>1
<1> HIDE DEF c
<1>9. PICK a \in {b, Counted(b)} :
        /\ a = b \/ (Looks(b) /\ g /\ a = Counted(b))
        /\ OnRing(c) /\ SameLooks(c, a)
  BY <1>8
<1>10. a.sub = "SCAN" /\ Driven(a)
  BY <1>1, <1>2, <1>3, <1>9, Looked DEF Searches
<1>11. c.sub = "SCAN" /\ Driven(c) /\ c.mInitState = FALSE /\ (c.counts => fresh) /\ c.gDoSonar = TRUE
  BY <1>9, <1>10 DEF Driven, Held, SameLooks, Searches, Moves
<1>12. left.sub = "SCAN" /\ Driven(left)
  <2>1. OnRing(left) /\ left.sub = "SCAN" /\ left.mInitState = FALSE /\ left.counts = c.counts
          /\ left.gDoSonar = TRUE /\ left.mTimeCounter = 0
    BY <1>9, <1>11 DEF OnRing, GateInv, Record, OutNames
  <2>2. Awaits(st, g, Age(left.mTimeCounter), fresh /\ ~left.counts)
    BY <2>1, AgesAtRest, JustCounted
  <2> QED BY <1>11, <2>1, <2>2 DEF Driven, Held, Searches, Moves, RingSubs
<1>13. LET n == Enter(done, "NOKOTTA_GO") IN n.sub = "NOKOTTA_GO" /\ ToDrive(n)
  <2>1. OnRing(done) /\ done.counts = c.counts
    BY <1>9 DEF OnRing, GateInv, Record, OutNames
  <2> HIDE DEF done
  <2>2. OnRing(Enter(done, "NOKOTTA_GO")) /\ Enters(Enter(done, "NOKOTTA_GO"), done, "NOKOTTA_GO")
    BY <2>1, EntersSo
  <2> QED BY <1>11, <2>1, <2>2 DEF ToDrive, Enters, Entered, Searches, Moves, RingSubs
<1> QED BY <1>4, <1>11, <1>12, <1>13

LEMMA NokottaDriven ==
  ASSUME NEW d, ToDrive(d), SonarFacts, d.sub = "NOKOTTA_GO", NEW in
  PROVE  LET e == NokottaGo(d, in) IN e.sub = "NOKOTTA_GO" /\ Driven(e)
<1> DEFINE b == BeginState(d, FALSE)
           a == IF ~b.mIsArrived /\ in.turned THEN [b EXCEPT !.mIsArrived = TRUE] ELSE b
           z == [a EXCEPT !.mTimeCounter = 0]
           e == NokottaGo(d, in)
<1>1. OnRing(b) /\ Begins(b, d, FALSE)
  BY BeginOnRing, BeginsSo DEF ToDrive
<1>2. b.sub = "NOKOTTA_GO" /\ b.mInitState = FALSE /\ (b.counts => fresh)
  BY <1>1 DEF ToDrive, Begins, Entered, Held
<1>3. e = a \/ e = z
  BY DEF NokottaGo
<1>4. a = b \/ a = [b EXCEPT !.mIsArrived = TRUE]
  OBVIOUS
<1>5. OnRing(a) /\ a.sub = "NOKOTTA_GO" /\ a.mInitState = FALSE /\ (a.counts => fresh)
  <2> HIDE DEF a, b
  <2> QED BY <1>1, <1>2, <1>4 DEF OnRing, GateInv, Record, OutNames
<1>6. OnRing(z) /\ z.sub = "NOKOTTA_GO" /\ z.mInitState = FALSE /\ (z.counts => fresh)
  <2> HIDE DEF a
  <2> QED BY <1>5 DEF OnRing, GateInv, Record, OutNames
<1> HIDE DEF a, z, e
<1> QED BY <1>3, <1>5, <1>6 DEF Driven, Held, Searches, Moves, RingSubs, e

--------------------------------------------------------------------------------
\* A call goes through the sub-states in this order: those of S have had their turn.
Passed(d, S) == IF d.sub \in S THEN Driven(d) ELSE ToDrive(d)

LEMMA CallPassed ==
  ASSUME NEW d, ToDrive(d), SonarFacts, NEW in, in.turned \in BOOLEAN
  PROVE  LET prepared == MoveTo(d, "PREPARE_SPOTSEARCH", "SPOTSEARCH", in)
             searched == SwingSearch(MoveTo(SpotSearch(prepared, in),
                                         "SPOTSEARCH_to_SWINGSEARCH", "SWINGSEARCH", in), in)
             ready    == HakkeReady(MoveTo(searched, "DOHYO_IN", "HAKKE_READY", in), in)
         IN Driven(NokottaGo(Scan(ready), in))
<1> DEFINE e1 == MoveTo(d, "PREPARE_SPOTSEARCH", "SPOTSEARCH", in)
           e2 == SpotSearch(e1, in)
           e3 == MoveTo(e2, "SPOTSEARCH_to_SWINGSEARCH", "SWINGSEARCH", in)
           e4 == SwingSearch(e3, in)
           e5 == MoveTo(e4, "DOHYO_IN", "HAKKE_READY", in)
           e6 == HakkeReady(e5, in)
           e7 == Scan(e6)
           e8 == NokottaGo(e7, in)
           S1 == {"PREPARE_SPOTSEARCH"}
           S2 == S1 \cup {"SPOTSEARCH"}
           S3 == S2 \cup {"SPOTSEARCH_to_SWINGSEARCH"}
           S4 == S3 \cup {"SWINGSEARCH"}
           S5 == S4 \cup {"DOHYO_IN"}
           S6 == S5 \cup {"HAKKE_READY"}
           S7 == S6 \cup {"SCAN"}
           S8 == S7 \cup {"NOKOTTA_GO"}
<1> USE DEF RingSubs, Searches, Moves
<1>1. Passed(e1, S1)
  <2>1. d.sub # "PREPARE_SPOTSEARCH" => e1 = d  BY DEF MoveTo
  <2> HIDE DEF e1
  <2>2. d.sub = "PREPARE_SPOTSEARCH" => (e1.sub = "PREPARE_SPOTSEARCH" /\ Driven(e1)) \/ (e1.sub = "SPOTSEARCH" /\ ToDrive(e1))
    BY MoveDriven DEF e1
  <2> QED BY <2>1, <2>2 DEF Passed
<1> HIDE DEF e1
<1>2. Passed(e2, S2)
  <2>1. e1.sub # "SPOTSEARCH" => e2 = e1  BY DEF SpotSearch
  <2>2. e1.sub = "SPOTSEARCH" /\ ToDrive(e1) =>
          \/ e2.sub = "SPOTSEARCH" /\ Driven(e2)
          \/ e2.sub \in {"SPOTSEARCH_to_SWINGSEARCH", "DOHYO_IN"} /\ ToDrive(e2)
    BY SpotDriven
  <2> HIDE DEF e2
  <2> QED BY <1>1, <2>1, <2>2 DEF Passed
<1> HIDE DEF e2
<1>3. Passed(e3, S3)
  <2>1. e2.sub # "SPOTSEARCH_to_SWINGSEARCH" => e3 = e2  BY DEF MoveTo
  <2>2. e2.sub = "SPOTSEARCH_to_SWINGSEARCH" /\ ToDrive(e2) =>
          \/ e3.sub = "SPOTSEARCH_to_SWINGSEARCH" /\ Driven(e3)
          \/ e3.sub = "SWINGSEARCH" /\ ToDrive(e3)
    BY MoveDriven
  <2> HIDE DEF e3
  <2> QED BY <1>2, <2>1, <2>2 DEF Passed
<1> HIDE DEF e3
<1>4. Passed(e4, S4)
  <2>1. e3.sub # "SWINGSEARCH" => e4 = e3  BY DEF SwingSearch
  <2>2. e3.sub = "SWINGSEARCH" /\ ToDrive(e3) =>
          \/ e4.sub = "SWINGSEARCH" /\ Driven(e4)
          \/ e4.sub = "DOHYO_IN" /\ ToDrive(e4)
    BY SwingDriven
  <2> HIDE DEF e4
  <2> QED BY <1>3, <2>1, <2>2 DEF Passed
<1> HIDE DEF e4
<1>5. Passed(e5, S5)
  <2>1. e4.sub # "DOHYO_IN" => e5 = e4  BY DEF MoveTo
  <2>2. e4.sub = "DOHYO_IN" /\ ToDrive(e4) =>
          \/ e5.sub = "DOHYO_IN" /\ Driven(e5)
          \/ e5.sub = "HAKKE_READY" /\ ToDrive(e5)
    BY MoveDriven
  <2> HIDE DEF e5
  <2> QED BY <1>4, <2>1, <2>2 DEF Passed
<1> HIDE DEF e5
<1>6. Passed(e6, S6)
  <2>1. e5.sub # "HAKKE_READY" => e6 = e5  BY DEF HakkeReady
  <2>2. e5.sub = "HAKKE_READY" /\ ToDrive(e5) =>
          \/ e6.sub = "HAKKE_READY" /\ Driven(e6)
          \/ e6.sub = "SCAN" /\ ToDrive(e6)
    BY HakkeDriven
  <2> HIDE DEF e6
  <2> QED BY <1>5, <2>1, <2>2 DEF Passed
<1> HIDE DEF e6
<1>7. Passed(e7, S7)
  <2>1. e6.sub # "SCAN" => e7 = e6  BY DEF Scan
  <2>2. e6.sub = "SCAN" /\ ToDrive(e6) =>
          \/ e7.sub = "SCAN" /\ Driven(e7)
          \/ e7.sub = "NOKOTTA_GO" /\ ToDrive(e7)
    BY ScanDriven
  <2> HIDE DEF e7
  <2> QED BY <1>6, <2>1, <2>2 DEF Passed
<1> HIDE DEF e7
<1>8. Passed(e8, S8)
  <2>1. e7.sub # "NOKOTTA_GO" => e8 = e7  BY DEF NokottaGo
  <2>2. e7.sub = "NOKOTTA_GO" /\ ToDrive(e7) => e8.sub = "NOKOTTA_GO" /\ Driven(e8)
    BY NokottaDriven
  <2> HIDE DEF e8
  <2> QED BY <1>7, <2>1, <2>2 DEF Passed
<1>9. Driven(e8)
  BY <1>8 DEF Passed, Driven, ToDrive
<1> QED BY <1>9 DEF e1, e2, e3, e4, e5, e6, e7

--------------------------------------------------------------------------------
\* Between two calls: whether TaskDrive has made its call in these 4 ms, or has still to.
Calls == IF called THEN 1 ELSE 0

SonarInv ==
  /\ SonarTypes(sonar, gSonarIsDetected) /\ called \in BOOLEAN /\ fresh \in BOOLEAN
  /\ drive.mState = "ETSUMO" /\ drive.sub # "INIT" =>
       /\ drive.sub \in RingSubs
       /\ Held(drive, sonar, gSonarIsDetected, drive.mTimeCounter - Calls,
               Since(drive.mTimeCounter) - Calls, fresh)

LEMMA TickedSo ==
  ASSUME NEW d, OnRing(d)
  PROVE  LET e == Ticked(d)
             t == d.mTimeCounter
         IN /\ e.sub = d.sub /\ e.mInitState = d.mInitState /\ e.counts = d.counts
            /\ e.mIsArrived = d.mIsArrived /\ e.gDoSonar = d.gDoSonar
            /\ e.mTimeCounter \in Nat /\ e.mTimeCounter - 1 <= t
            /\ Since(e.mTimeCounter) - 1 = Age(t)
<1> DEFINE e == Ticked(d)
           t == d.mTimeCounter
           n == IF t + 1 = Settling + SampleEvery THEN Settling ELSE t + 1
<1>1. t \in Nat /\ Settling \in Nat /\ SampleEvery \in Nat \ {0}
  BY AgesAtRest, SonarTimes DEF OnRing, GateInv
<1>2. e = [d EXCEPT !.mTimeCounter = n]
  BY DEF Ticked
<1>3. n \in Nat /\ n - 1 <= t
  BY <1>1
<1>4. Since(n) - 1 = Age(t)
  <2>1. Age(n) = Age(t + 1)
    BY AgesAtRest
  <2>2. Age(t) \in 0 .. SampleEvery - 1 /\ Age(t + 1) = IF Age(t) = SampleEvery - 1 THEN 0 ELSE Age(t) + 1
    BY <1>1, Ages
  <2> HIDE DEF n
  <2> QED BY <1>1, <2>1, <2>2 DEF Since
<1> HIDE DEF e, n
<1>5. /\ e.sub = d.sub /\ e.mInitState = d.mInitState /\ e.counts = d.counts
      /\ e.mIsArrived = d.mIsArrived /\ e.gDoSonar = d.gDoSonar /\ e.mTimeCounter = n
  BY <1>2 DEF OnRing, GateInv, Record, OutNames
<1> QED BY <1>3, <1>4, <1>5 DEF e

\* A call of the sumo driver, from its first sub-state or from where the last call left it.
LEMMA SumoFresh ==
  ASSUME NEW d, OnRing(d), d.counts = FALSE, SonarFacts, ETsumo(d),
         d.sub # "INIT" =>
           /\ d.sub \in RingSubs
           /\ Held(d, sonar, gSonarIsDetected, d.mTimeCounter, Since(d.mTimeCounter), fresh)
  PROVE  /\ drive'.sub \in RingSubs /\ (drive'.counts => fresh)
         /\ Held(drive', sonar, gSonarIsDetected, drive'.mTimeCounter - 1,
                 Since(drive'.mTimeCounter) - 1, fresh /\ drive'.gDoSonar /\ ~drive'.counts)
<1> PICK in \in [there : BOOLEAN, turned : BOOLEAN, swept : BOOLEAN] :
      LET prepared == MoveTo(SumoInit(d), "PREPARE_SPOTSEARCH", "SPOTSEARCH", in)
          searched == SwingSearch(MoveTo(SpotSearch(prepared, in),
                                         "SPOTSEARCH_to_SWINGSEARCH", "SWINGSEARCH", in), in)
          ready    == HakkeReady(MoveTo(searched, "DOHYO_IN", "HAKKE_READY", in), in)
      IN drive' = Ticked(NokottaGo(Scan(ready), in))
  BY DEF ETsumo
<1>1. in.turned \in BOOLEAN
  OBVIOUS
<1>2. ToDrive(SumoInit(d))
  <2> DEFINE n == SumoInit(d)
  <2>1. CASE d.sub = "INIT"
    <3>1. n.sub = "PREPARE_SPOTSEARCH" /\ n.mInitState = TRUE /\ n.counts = FALSE
      BY <2>1 DEF SumoInit, Enter, OnRing, GateInv, Record, OutNames
    <3>2. OnRing(n)
      BY StepsOnRing
    <3> HIDE DEF n
    <3>3. ToDrive(n)
      BY <3>1, <3>2 DEF ToDrive, Entered, RingSubs, Moves, Searches
    <3> QED BY <3>3 DEF n
  <2>2. CASE d.sub # "INIT"
    <3>1. n = d
      BY <2>2 DEF SumoInit
    <3> QED BY <2>2, <3>1 DEF ToDrive
  <2> QED BY <2>1, <2>2
<1>3. PICK e : drive' = Ticked(e) /\ Driven(e)
  <2> HIDE DEF ToDrive
  <2> QED BY <1>1, <1>2, CallPassed
<1>4. OnRing(e) /\ e.mTimeCounter \in Nat
  BY <1>3 DEF Driven, OnRing, GateInv
<1>5. /\ drive'.sub = e.sub /\ drive'.mInitState = e.mInitState /\ drive'.counts = e.counts
      /\ drive'.mIsArrived = e.mIsArrived /\ drive'.gDoSonar = e.gDoSonar
      /\ drive'.mTimeCounter \in Nat /\ drive'.mTimeCounter - 1 <= e.mTimeCounter
      /\ Since(drive'.mTimeCounter) - 1 = Age(e.mTimeCounter)
  BY <1>3, <1>4, TickedSo
<1>6. e.sub \in RingSubs /\ (e.counts => fresh)
        /\ Held(e, sonar, gSonarIsDetected, e.mTimeCounter, Age(e.mTimeCounter), fresh /\ ~e.counts)
  BY <1>3 DEF Driven
<1>7. sonar.due \in Nat /\ SonarPeriod \in Nat
  BY SonarTimes DEF SonarFacts, SonarTypes
<1>8. sonar.due + e.mTimeCounter <= SonarPeriod => sonar.due + (drive'.mTimeCounter - 1) <= SonarPeriod
  BY <1>4, <1>5, <1>7
<1> QED BY <1>5, <1>6, <1>8 DEF Held, Awaits, Searches, Moves

\* The gate driver gives the ring over before its first sub-state, and counts nothing.
LEMMA GateCountsNothing ==
  ASSUME NEW d, GateInv(d), d.mState = "LOOKUP", d.counts = FALSE, LookUpGate(d)
  PROVE  drive'.counts = FALSE /\ (drive'.mState = "ETSUMO" => drive'.sub = "INIT")
<1>1. ASSUME FindsGate(d) PROVE drive'.counts = FALSE /\ drive'.mState = "LOOKUP"
  BY <1>1 DEF FindsGate, EntersGate, Counts, GateInv, Record, OutNames
<1>2. ASSUME SitsDown(d) PROVE drive'.counts = FALSE /\ drive'.mState = "LOOKUP"
  BY <1>2 DEF SitsDown, EntersGate, Counts, GateInv, Record, OutNames
<1>3. ASSUME PassesGate(d) PROVE drive'.counts = FALSE /\ drive'.mState = "LOOKUP"
  BY <1>3 DEF PassesGate, EntersGate, GateInv, Record, OutNames
<1>4. ASSUME LeavesGate(d)
      PROVE  drive'.counts = FALSE /\ (drive'.mState = "ETSUMO" => drive'.sub = "INIT")
  BY <1>4 DEF LeavesGate, EntersGate, Counts, GateInv, Record, OutNames
<1> QED BY <1>1, <1>2, <1>3, <1>4 DEF LookUpGate

LEMMA DriveFresh ==
  ASSUME GateInv(drive), SonarInv, OutDrive
  PROVE  SonarInv' /\ CountsFresh
<1> DEFINE d == [drive EXCEPT !.counts = FALSE]
<1>1. GateInv(d)
  BY DEF GateInv, Record, OutNames
<1>2. d.counts = FALSE /\ d.sub = drive.sub /\ d.mState = drive.mState
        /\ d.mInitState = drive.mInitState /\ d.mTimeCounter = drive.mTimeCounter
        /\ d.mIsArrived = drive.mIsArrived /\ d.gDoSonar = drive.gDoSonar
  BY DEF GateInv, Record, OutNames
<1>3. OutSection(d) /\ ~called /\ called' = TRUE /\ sonar' = sonar
        /\ gSonarIsDetected' = gSonarIsDetected
        /\ fresh' = (fresh /\ drive'.gDoSonar /\ ~drive'.counts)
  BY DEF OutDrive
<1> HIDE DEF d
<1>4. SonarFacts
  BY DEF SonarInv, SonarFacts
<1>5. SonarTypes(sonar, gSonarIsDetected)' /\ called' \in BOOLEAN /\ fresh' \in BOOLEAN /\ Calls' = 1
  BY <1>3 DEF SonarInv, SonarTypes, Calls
<1>6. CASE d.mState = "START" /\ (drive' = d \/ drive' = [d EXCEPT !.mState = "LOOKUP"])
  <2>1. drive'.counts = FALSE /\ drive'.mState # "ETSUMO"
    BY <1>1, <1>2, <1>6 DEF GateInv, Record, OutNames
  <2> QED BY <1>5, <2>1 DEF SonarInv, CountsFresh
<1>7. CASE d.mState = "LOOKUP" /\ LookUpGate(d)
  <2>1. drive'.counts = FALSE /\ (drive'.mState = "ETSUMO" => drive'.sub = "INIT")
    BY <1>1, <1>2, <1>7, GateCountsNothing
  <2> QED BY <1>5, <2>1 DEF SonarInv, CountsFresh
<1>8. CASE d.mState = "ETSUMO" /\ ETsumo(d)
  <2>1. OnRing(d)
    BY <1>1, <1>8 DEF OnRing
  <2>2. Calls = 0 /\ d.mTimeCounter \in Nat /\ Since(d.mTimeCounter) \in Nat
    BY <1>1, <1>3, Ages, SonarTimes DEF Calls, GateInv, Since
  <2>3. d.sub # "INIT" =>
          /\ d.sub \in RingSubs
          /\ Held(d, sonar, gSonarIsDetected, d.mTimeCounter, Since(d.mTimeCounter), fresh)
    BY <1>2, <1>8, <2>2 DEF SonarInv, Held
  <2>4. /\ drive'.sub \in RingSubs /\ (drive'.counts => fresh)
        /\ Held(drive', sonar, gSonarIsDetected, drive'.mTimeCounter - 1,
                Since(drive'.mTimeCounter) - 1, fresh /\ drive'.gDoSonar /\ ~drive'.counts)
    BY <1>2, <1>4, <1>8, <2>1, <2>3, SumoFresh
  <2>5. Held(drive', sonar', gSonarIsDetected', drive'.mTimeCounter - Calls',
             Since(drive'.mTimeCounter) - Calls', fresh')
    BY <1>3, <1>5, <2>4
  <2> QED BY <1>5, <2>4, <2>5 DEF SonarInv, CountsFresh
<1> QED BY <1>3, <1>6, <1>7, <1>8 DEF OutSection

\* What TaskSonar and the time do to what a sub-state has waited for.
LEMMA LoopHolds ==
  ASSUME NEW d, NEW w, NEW r \in Int, NEW f, NEW s, NEW g, SonarTypes(s, g), Held(d, s, g, w, r, f),
         ~s.measures, s.due = 0, d.gDoSonar \in BOOLEAN,
         NEW z, z = [measures |-> d.gDoSonar, due |-> SonarPeriod, late |-> 0]
  PROVE  Held(d, z, g /\ d.gDoSonar, w, r, f)
<1>1. d.gDoSonar = FALSE => Quiet(z, g /\ d.gDoSonar)
  BY DEF Quiet
<1>2. ASSUME d.gDoSonar = TRUE, Awaits(s, g, r, f) PROVE Awaits(z, g /\ d.gDoSonar, r, f)
  BY <1>2, SonarTimes DEF Awaits, OnItsWay
<1> QED BY <1>1, <1>2 DEF Held

LEMMA MeasuredHolds ==
  ASSUME NEW d, NEW w, NEW r, NEW f, NEW s, NEW g, SonarTypes(s, g), Held(d, s, g, w, r, f),
         s.measures, NEW h \in BOOLEAN, NEW z, z = [s EXCEPT !.measures = FALSE]
  PROVE  Held(d, z, h, w, r, d.gDoSonar)
<1>1. z.due = s.due /\ ~Quiet(s, g)
  BY DEF SonarTypes, Quiet
<1>2. d.gDoSonar = TRUE => Awaits(z, h, r, d.gDoSonar)
  BY DEF Awaits
<1> QED BY <1>1, <1>2 DEF Held

LEMMA TurnHolds ==
  ASSUME NEW d, NEW w \in Int, NEW r \in Int, NEW f, NEW s, NEW g, SonarTypes(s, g),
         Held(d, s, g, w, r, f), s.due > 0,
         NEW z, z = [s EXCEPT !.due = @ - 1, !.late = IF s.measures THEN @ + 1 ELSE @]
  PROVE  Held(d, z, g, w + 1, r + 1, f)
<1>1. z.due = s.due - 1 /\ z.measures = s.measures /\ z.late = (IF s.measures THEN s.late + 1 ELSE s.late)
  BY DEF SonarTypes
<1>2. SonarPeriod \in Nat /\ s.due \in Nat /\ s.late \in Nat
  BY SonarTimes DEF SonarTypes
<1>3. s.due + w <= SonarPeriod => z.due + (w + 1) <= SonarPeriod
  BY <1>1, <1>2
<1>4. OnItsWay(s, r) => OnItsWay(z, r + 1)
  BY <1>1, <1>2 DEF OnItsWay
<1>5. Quiet(s, g) => Quiet(z, g)
  BY <1>1 DEF Quiet
<1> QED BY <1>3, <1>4, <1>5 DEF Held, Awaits

--------------------------------------------------------------------------------
(* The in course. *)

InNames == {"mState", "sub", "mInitState", "mDoDetectWall", "mTimeCounter", "gDoMaimai", "x",
            "mGrayCount", "seat", "asks"}

InTypes(d) ==
  Record(d, InNames) /\ d.mInitState \in BOOLEAN /\ d.mDoDetectWall \in BOOLEAN /\ d.mTimeCounter \in Nat

\* A sub-state that waits before it asks: n calls have passed since what it waits for, at least
\* as many as it has counted, and enough of them when the wait is over.
Waits(d, n, need) ==
  ~d.mInitState => n >= need \/ (~d.mDoDetectWall /\ n >= d.mTimeCounter)

\* What is between two operators that keep section, lamp and place in the course.
SameCourse(d, e) == e.mState = d.mState /\ e.gDoMaimai = d.gDoMaimai

LEMMA EnterFields ==
  ASSUME NEW d, InTypes(d), NEW s
  PROVE  /\ InTypes(Enter(d, s)) /\ SameCourse(d, Enter(d, s))
         /\ Enter(d, s).sub = s /\ Enter(d, s).mInitState /\ Enter(d, s).asks = d.asks
BY DEF Enter, InTypes, Record, InNames, SameCourse

LEMMA BeginFields ==
  ASSUME NEW d, InTypes(d)
  PROVE  /\ InTypes(Begin(d)) /\ SameCourse(d, Begin(d))
         /\ Begin(d).sub = d.sub /\ Begin(d).asks = d.asks /\ Begin(d).x = d.x
         /\ ~Begin(d).mInitState /\ Begin(d).mTimeCounter = d.mTimeCounter
         /\ Begin(d).mDoDetectWall = (~d.mInitState /\ d.mDoDetectWall)
BY DEF Begin, InTypes, Record, InNames, SameCourse

LEMMA BeginTimedFields ==
  ASSUME NEW d, InTypes(d)
  PROVE  /\ InTypes(BeginTimed(d)) /\ SameCourse(d, BeginTimed(d))
         /\ BeginTimed(d).sub = d.sub /\ BeginTimed(d).asks = d.asks /\ BeginTimed(d).x = d.x
         /\ ~BeginTimed(d).mInitState
         /\ BeginTimed(d).mTimeCounter = IF d.mInitState THEN 0 ELSE d.mTimeCounter
         /\ BeginTimed(d).mDoDetectWall = (~d.mInitState /\ d.mDoDetectWall)
<1> DEFINE b == Begin(d)
<1>1. BeginTimed(d) = [b EXCEPT !.mTimeCounter = IF d.mInitState THEN 0 ELSE @]
  BY DEF BeginTimed
<1>2. /\ InTypes(b) /\ SameCourse(d, b) /\ b.sub = d.sub /\ b.asks = d.asks /\ b.x = d.x
      /\ ~b.mInitState /\ b.mTimeCounter = d.mTimeCounter
      /\ b.mDoDetectWall = (~d.mInitState /\ d.mDoDetectWall)
  BY BeginFields
<1> HIDE DEF b
<1> QED BY <1>1, <1>2 DEF InTypes, Record, InNames, SameCourse

LEMMA LatchedFields ==
  ASSUME NEW d, InTypes(d), NEW over \in BOOLEAN
  PROVE  /\ InTypes(Latched(d, over)) /\ SameCourse(d, Latched(d, over))
         /\ Latched(d, over).sub = d.sub /\ Latched(d, over).asks = d.asks
         /\ Latched(d, over).mInitState = d.mInitState
BY DEF Latched, InTypes, Record, InNames, SameCourse

LEMMA WaitedFields ==
  ASSUME NEW d, InTypes(d), NEW n \in Nat
  PROVE  /\ InTypes(Waited(d, n)) /\ SameCourse(d, Waited(d, n))
         /\ Waited(d, n).sub = d.sub /\ Waited(d, n).asks = d.asks /\ Waited(d, n).x = d.x
         /\ Waited(d, n).mInitState = d.mInitState
         /\ Waited(d, n).mDoDetectWall => d.mDoDetectWall \/ d.mTimeCounter > n
         /\ ~Waited(d, n).mDoDetectWall =>
              Waited(d, n).mTimeCounter = d.mTimeCounter /\ ~d.mDoDetectWall
BY DEF Waited, InTypes, Record, InNames, SameCourse

LEMMA AsksFields ==
  ASSUME NEW d, InTypes(d), NEW found, NEW s
  PROVE  /\ InTypes(Asks(d, found, s)) /\ SameCourse(d, Asks(d, found, s))
         /\ d.mDoDetectWall => Asks(d, found, s).asks = d.asks \cup {d.sub}
         /\ \/ Asks(d, found, s).sub = s /\ Asks(d, found, s).mInitState
            \/ /\ Asks(d, found, s).sub = d.sub
               /\ Asks(d, found, s).mInitState = d.mInitState
               /\ Asks(d, found, s).mDoDetectWall = d.mDoDetectWall
               /\ Asks(d, found, s).mTimeCounter = d.mTimeCounter
         /\ ~d.mDoDetectWall => Asks(d, found, s) = d
<1> DEFINE a == [d EXCEPT !.asks = @ \cup {d.sub}]
<1>1. Asks(d, found, s) = IF ~d.mDoDetectWall THEN d ELSE IF found THEN Enter(a, s) ELSE a
  BY DEF Asks
<1>2. /\ InTypes(a) /\ SameCourse(d, a) /\ a.sub = d.sub /\ a.asks = d.asks \cup {d.sub}
      /\ a.mInitState = d.mInitState /\ a.mDoDetectWall = d.mDoDetectWall
      /\ a.mTimeCounter = d.mTimeCounter
  BY DEF InTypes, Record, InNames, SameCourse
<1> HIDE DEF a
<1>3. /\ InTypes(Enter(a, s)) /\ SameCourse(a, Enter(a, s))
      /\ Enter(a, s).sub = s /\ Enter(a, s).mInitState /\ Enter(a, s).asks = a.asks
  BY <1>2, EnterFields
<1>4. CASE ~d.mDoDetectWall
  BY <1>1, <1>4 DEF SameCourse
<1>5. CASE d.mDoDetectWall /\ found
  BY <1>1, <1>2, <1>3, <1>5 DEF SameCourse
<1>6. CASE d.mDoDetectWall /\ ~found
  BY <1>1, <1>2, <1>6 DEF SameCourse
<1> QED BY <1>4, <1>5, <1>6

LEMMA TimedFields ==
  ASSUME NEW d, InTypes(d)
  PROVE  /\ InTypes(Timed(d)) /\ SameCourse(d, Timed(d))
         /\ Timed(d).sub = d.sub /\ Timed(d).asks = d.asks /\ Timed(d).mInitState = d.mInitState
         /\ Timed(d).mDoDetectWall = d.mDoDetectWall
         /\ Timed(d).mTimeCounter \in Nat
         /\ Timed(d).mTimeCounter = d.mTimeCounter \/ Timed(d).mTimeCounter = d.mTimeCounter + 1
BY WaitsLongEnough DEF Timed, InTypes, Record, InNames, SameCourse

\* LINERETURN, ON1STSTAGE and DROPDOWN: a wait, then a detector.
LEMMA WaitThenAsk ==
  ASSUME NEW d, InTypes(d), d.asks = {}, NEW n \in Nat, NEW need \in Nat, need <= n,
         NEW k \in Nat, Waits(d, k, need), NEW found, NEW t,
         NEW e, e = Timed(Asks(Waited(BeginTimed(d), n), found, t))
  PROVE  /\ InTypes(e) /\ SameCourse(d, e)
         /\ e.asks \subseteq {d.sub} /\ (e.asks # {} => k >= need)
         /\ \/ e.sub = t /\ e.mInitState /\ e.asks # {}
            \/ e.sub = d.sub /\ Waits(e, Count(k, need), need)
<1> DEFINE b == BeginTimed(d)
           w == Waited(b, n)
           a == Asks(w, found, t)
<1>1. /\ InTypes(b) /\ SameCourse(d, b) /\ b.sub = d.sub /\ b.asks = {} /\ ~b.mInitState
      /\ b.mDoDetectWall \/ k >= need \/ k >= b.mTimeCounter
      /\ b.mDoDetectWall => k >= need
  BY BeginTimedFields DEF Waits, InTypes
<1>2. b.mTimeCounter \in Nat
  BY <1>1 DEF InTypes
<1> HIDE DEF b
<1>3. /\ InTypes(w) /\ SameCourse(b, w) /\ w.sub = d.sub /\ w.asks = {} /\ ~w.mInitState
      /\ w.mDoDetectWall => k >= need
      /\ ~w.mDoDetectWall => k >= need \/ k >= w.mTimeCounter
  <2>1. /\ InTypes(w) /\ SameCourse(b, w) /\ w.sub = b.sub /\ w.asks = b.asks
        /\ w.mInitState = b.mInitState
        /\ w.mDoDetectWall => b.mDoDetectWall \/ b.mTimeCounter > n
        /\ ~w.mDoDetectWall => w.mTimeCounter = b.mTimeCounter /\ ~b.mDoDetectWall
    BY <1>1, WaitedFields
  <2> HIDE DEF w
  <2>2. w.mDoDetectWall => k >= need
    BY <1>1, <1>2, <2>1
  <2> QED BY <1>1, <2>1, <2>2
<1> HIDE DEF w
<1>4. /\ InTypes(a) /\ SameCourse(w, a)
      /\ a.asks \subseteq {d.sub} /\ (a.asks # {} => k >= need)
      /\ \/ a.sub = t /\ a.mInitState /\ a.asks # {}
         \/ /\ a.sub = d.sub /\ ~a.mInitState
            /\ a.mDoDetectWall => k >= need
            /\ ~a.mDoDetectWall => k >= need \/ k >= a.mTimeCounter
  <2>1. CASE w.mDoDetectWall
    <3>1. /\ InTypes(a) /\ SameCourse(w, a) /\ a.asks = {d.sub}
          /\ \/ a.sub = t /\ a.mInitState
             \/ a.sub = d.sub /\ ~a.mInitState /\ a.mDoDetectWall
      BY <1>3, <2>1, AsksFields
    <3> HIDE DEF a
    <3> QED BY <1>3, <2>1, <3>1
  <2>2. CASE ~w.mDoDetectWall
    <3>1. a = w
      BY <1>3, <2>2, AsksFields
    <3> HIDE DEF a
    <3> QED BY <1>3, <2>2, <3>1 DEF SameCourse
  <2> QED BY <2>1, <2>2
<1> HIDE DEF a
<1>5. /\ InTypes(e) /\ SameCourse(a, e) /\ e.sub = a.sub /\ e.asks = a.asks
      /\ e.mInitState = a.mInitState /\ e.mDoDetectWall = a.mDoDetectWall
      /\ e.mTimeCounter = a.mTimeCounter \/ e.mTimeCounter = a.mTimeCounter + 1
  <2>1. e = Timed(a)
    BY DEF a, w, b
  <2> QED BY <1>4, <2>1, TimedFields
<1>6. SameCourse(d, e)
  BY <1>1, <1>3, <1>4, <1>5 DEF SameCourse
<1>7. ASSUME a.sub = d.sub, ~a.mInitState, a.mDoDetectWall => k >= need,
             ~a.mDoDetectWall => k >= need \/ k >= a.mTimeCounter
      PROVE  Waits(e, Count(k, need), need)
  <2>1. a.mTimeCounter \in Nat
    BY <1>4 DEF InTypes
  <2> QED BY <1>5, <1>7, <2>1 DEF Waits, Count
<1> QED BY <1>4, <1>5, <1>6, <1>7

\* The invariant of the in course: s is steady, h is sinceHit.
InInv(d, s, h) ==
  /\ InTypes(d) /\ s \in Nat /\ h \in Nat
  /\ d.mState \in {"START", "SEESAW", "STAIRWAY", "GARAGEIN"}
  /\ d.mState = "SEESAW" =>
       /\ d.sub \in {"INIT", "BEFORELINETRACE", "FIRSTRUN", "LINERETURN", "AFTERLINETRACE"}
       /\ d.sub = "LINERETURN" => Waits(d, s, Settled)
  /\ d.mState = "STAIRWAY" =>
       /\ d.sub \in {"INIT", "BEFORELINETRACE", "ON0THSTAGE_BACK", "ON0THSTAGE_GO", "ON1STSTAGE",
                     "ON2NDSTAGE", "DROPDOWN", "AFTERLINETRACE"}
       /\ d.sub = "ON0THSTAGE_BACK" =>
            d.mInitState \/ ~d.mDoDetectWall \/ h >= Samples \/ h >= d.mTimeCounter
       /\ d.sub = "ON0THSTAGE_GO" => h >= Samples
       /\ d.sub = "ON1STSTAGE" => Waits(d, h, Samples)
       /\ d.sub = "DROPDOWN" => Waits(d, s, Settled)
  /\ d.mState = "GARAGEIN" =>
       /\ d.sub \in {"INIT", "READYGO", "MARKER", "STOP", "SITDOWN"}
       /\ d.sub = "READYGO" => s >= Settled \/ s + 1 >= d.mTimeCounter
       /\ d.sub = "MARKER" => s >= Settled

NextSteady(d, e, s) == IF e.gDoMaimai = d.gDoMaimai THEN Count(s, Settled) ELSE 0
NextHit(d, e, h)    == IF e.sub # d.sub /\ e.sub \in Believed THEN 0 ELSE Count(h, Samples)

\* What a call of drive that takes d to e must keep.
GoodStep(d, e, s, h) ==
  /\ InInv(e, NextSteady(d, e, s), NextHit(d, e, h))
  /\ e.asks \cap {"LINERETURN", "DROPDOWN", "MARKER"} # {} => s >= Settled
  /\ e.asks \cap {"ON0THSTAGE_GO", "ON1STSTAGE"} # {} => h >= Samples

LEMMA CountFacts ==
  ASSUME NEW k \in Nat, NEW max \in Nat
  PROVE  Count(k, max) \in Nat /\ (k >= max => Count(k, max) >= max) /\ (k < max => Count(k, max) = k + 1)
BY DEF Count

LEMMA NextClocks ==
  ASSUME NEW d, NEW e, NEW s \in Nat, NEW h \in Nat
  PROVE  /\ NextSteady(d, e, s) \in Nat /\ NextHit(d, e, h) \in Nat
         /\ e.gDoMaimai = d.gDoMaimai => NextSteady(d, e, s) = Count(s, Settled)
         /\ e.sub = d.sub \/ e.sub \notin Believed => NextHit(d, e, h) = Count(h, Samples)
BY WaitsLongEnough DEF NextSteady, NextHit, Count, Settled

\* Where a call leaves the lamp's and the collision's conditions alone.
LEMMA QuietSeesaw ==
  ASSUME NEW d, NEW e, NEW s \in Nat, NEW h \in Nat, InTypes(e), e.mState = "SEESAW",
         e.sub \in {"INIT", "BEFORELINETRACE", "FIRSTRUN", "LINERETURN", "AFTERLINETRACE"},
         e.sub = "LINERETURN" => e.mInitState, e.asks \subseteq {"BEFORELINETRACE"}
  PROVE  GoodStep(d, e, s, h)
BY NextClocks DEF GoodStep, InInv, Waits

LEMMA TypedStep ==
  ASSUME NEW c, Record(c, InNames), c.mInitState \in BOOLEAN, c.mDoDetectWall \in BOOLEAN,
         c.mTimeCounter \in Nat
  PROVE  InTypes(c)
BY DEF InTypes

\* The timer a sub-state starts when it begins, where it does no more than that.
\* A sub-state that only begins its count.
Begun(d) == [d EXCEPT !.mInitState = FALSE, !.mTimeCounter = IF d.mInitState THEN 0 ELSE @]

LEMMA BegunFields ==
  ASSUME NEW d, InTypes(d),
         NEW b, b = Begun(d)
  PROVE  InTypes(b) /\ SameCourse(d, b) /\ b.sub = d.sub /\ b.asks = d.asks
<1>1. Record(b, InNames)
  BY DEF Begun, InTypes, Record, InNames
<1>2. b.mInitState \in BOOLEAN /\ b.mDoDetectWall \in BOOLEAN /\ b.mTimeCounter \in Nat
  BY DEF Begun, InTypes, Record, InNames
<1>3. SameCourse(d, b) /\ b.sub = d.sub /\ b.asks = d.asks
  BY DEF Begun, InTypes, Record, InNames, SameCourse
<1> QED BY <1>1, <1>2, <1>3, TypedStep

\* SeesawDriver.cpp
LEMMA SeesawGood ==
  ASSUME NEW d, NEW s, NEW h, InInv(d, s, h), d.asks = {}, d.mState = "SEESAW",
         NEW in \in [found : BOOLEAN, there : BOOLEAN]
  PROVE  GoodStep(d, Seesaw(d, in), s, h)
<1> DEFINE c == SeesawStep(d, in)
           e == Timed(c)
<1> USE WaitsLongEnough
<1>t. InTypes(d) /\ s \in Nat /\ h \in Nat /\ Settled \in Nat
  BY DEF InInv, Settled
<1> SUFFICES GoodStep(d, e, s, h)
  BY DEF Seesaw
<1>q. ASSUME InTypes(c), c.mState = "SEESAW",
             c.sub \in {"INIT", "BEFORELINETRACE", "FIRSTRUN", "LINERETURN", "AFTERLINETRACE"},
             c.sub = "LINERETURN" => c.mInitState, c.asks \subseteq {"BEFORELINETRACE"}
      PROVE  GoodStep(d, e, s, h)
  <2> HIDE DEF c
  <2>1. InTypes(e) /\ e.mState = c.mState /\ e.sub = c.sub /\ e.asks = c.asks
          /\ e.mInitState = c.mInitState
    BY <1>q, TimedFields DEF SameCourse
  <2> HIDE DEF e
  <2> QED BY <1>t, <1>q, <2>1, QuietSeesaw
<1>1. CASE d.sub = "INIT"
  <2>1. c = [d EXCEPT !.sub = "BEFORELINETRACE", !.gDoMaimai = FALSE, !.mTimeCounter = 0,
                      !.mDoDetectWall = FALSE]
    BY <1>1 DEF SeesawStep
  <2> HIDE DEF c
  <2>2. Record(c, InNames)
    BY <1>t, <2>1 DEF InTypes, Record, InNames
  <2>3. c.mInitState \in BOOLEAN /\ c.mDoDetectWall \in BOOLEAN /\ c.mTimeCounter \in Nat
    BY <1>t, <2>1 DEF InTypes, Record, InNames
  <2>4. c.mState = "SEESAW" /\ c.sub = "BEFORELINETRACE" /\ c.asks = {}
    BY <1>t, <2>1 DEF InTypes, Record, InNames
  <2> QED BY <1>q, <2>2, <2>3, <2>4, TypedStep
<1>2. CASE d.sub = "BEFORELINETRACE"
  <2> DEFINE l == Latched(d, in.there)
  <2>1. c = Asks(l, in.found, "FIRSTRUN")
    BY <1>2 DEF SeesawStep
  <2>2. InTypes(l) /\ SameCourse(d, l) /\ l.sub = "BEFORELINETRACE" /\ l.asks = {}
    BY <1>t, <1>2, LatchedFields
  <2> HIDE DEF l, c
  <2>3. InTypes(c) /\ SameCourse(l, c) /\ c.sub \in {"BEFORELINETRACE", "FIRSTRUN"}
          /\ c.asks \subseteq {"BEFORELINETRACE"}
    <3>1. CASE l.mDoDetectWall
      BY <2>1, <2>2, <3>1, AsksFields
    <3>2. CASE ~l.mDoDetectWall
      BY <2>1, <2>2, <3>2, AsksFields DEF SameCourse
    <3> QED BY <3>1, <3>2
  <2> QED BY <1>q, <2>2, <2>3 DEF SameCourse
<1>3. CASE d.sub = "FIRSTRUN"
  <2> DEFINE b == Begun(d)
             n == Enter(b, "LINERETURN")
  <2>1. c = b \/ c = [n EXCEPT !.mTimeCounter = 0]
    BY <1>3 DEF SeesawStep, Begun
  <2>2. InTypes(b) /\ SameCourse(d, b) /\ b.sub = "FIRSTRUN" /\ b.asks = {}
    BY <1>t, <1>3, BegunFields
  <2> HIDE DEF b
  <2>3. InTypes(n) /\ SameCourse(b, n) /\ n.sub = "LINERETURN" /\ n.mInitState /\ n.asks = {}
    BY <2>2, EnterFields
  <2> HIDE DEF n
  <2>4. CASE c = b
    <3> HIDE DEF c
    <3> QED BY <1>q, <2>2, <2>4 DEF SameCourse
  <2>5. CASE c = [n EXCEPT !.mTimeCounter = 0]
    <3> HIDE DEF c
    <3>1. Record(c, InNames)
      BY <2>3, <2>5 DEF InTypes, Record, InNames
    <3>2. c.mInitState \in BOOLEAN /\ c.mDoDetectWall \in BOOLEAN /\ c.mTimeCounter \in Nat
      BY <2>3, <2>5 DEF InTypes, Record, InNames
    <3>3. c.mState = n.mState /\ c.sub = "LINERETURN" /\ c.mInitState /\ c.asks = {}
      BY <2>3, <2>5 DEF InTypes, Record, InNames
    <3> QED BY <1>q, <2>2, <2>3, <3>1, <3>2, <3>3, TypedStep DEF SameCourse
  <2> QED BY <2>1, <2>4, <2>5
<1>4. CASE d.sub = "LINERETURN"
  <2>1. c = Asks(Waited(BeginTimed(d), StayCalls), in.found, "AFTERLINETRACE")
    BY <1>4 DEF SeesawStep, LineReturn
  <2>2. Waits(d, s, Settled) /\ Settled <= StayCalls /\ StayCalls \in Nat
    BY <1>4 DEF InInv
  <2>3. /\ InTypes(e) /\ SameCourse(d, e)
        /\ e.asks \subseteq {"LINERETURN"} /\ (e.asks # {} => s >= Settled)
        /\ \/ e.sub = "AFTERLINETRACE" /\ e.mInitState
           \/ e.sub = "LINERETURN" /\ Waits(e, Count(s, Settled), Settled)
    BY <1>t, <1>4, <2>1, <2>2, WaitThenAsk
  <2> HIDE DEF e
  <2>4. NextSteady(d, e, s) = Count(s, Settled)
    BY <1>t, <2>3, NextClocks DEF SameCourse
  <2> QED BY <1>t, <2>3, <2>4, NextClocks DEF GoodStep, InInv, SameCourse
<1>5. CASE d.sub = "AFTERLINETRACE"
  <2>1. c = Begun(d)
    BY <1>5 DEF SeesawStep, Begun
  <2> HIDE DEF c
  <2>2. InTypes(c) /\ SameCourse(d, c) /\ c.sub = d.sub /\ c.asks = d.asks
    BY <1>t, <2>1, BegunFields
  <2>3. c.sub = "AFTERLINETRACE" /\ c.asks = {}
    BY <1>t, <1>5, <2>2
  <2> QED BY <1>q, <2>2, <2>3 DEF SameCourse
<1> QED BY <1>1, <1>2, <1>3, <1>4, <1>5 DEF InInv

\* GarageDriver.cpp
LEMMA GarageGood ==
  ASSUME NEW d, NEW s, NEW h, InInv(d, s, h), d.asks = {}, d.mState = "GARAGEIN",
         NEW in \in [found : BOOLEAN, there : BOOLEAN]
  PROVE  /\ GoodStep(d, Garage(d, in), s, h)
         /\ Garage(d, in).mState = "GARAGEIN" /\ Garage(d, in).asks \subseteq {"MARKER"}
<1> DEFINE g == GarageInit(d)
           r == Ready(g)
           m == Marker(r, in)
           p == Stop(m, in)
           q == SitDown(p)
           e == Timed(q)
           Later == {"READYGO", "MARKER", "STOP", "SITDOWN"}
<1> USE WaitsLongEnough
<1> SUFFICES GoodStep(d, e, s, h) /\ e.mState = "GARAGEIN" /\ e.asks \subseteq {"MARKER"}
  BY DEF Garage
<1>t. InTypes(d) /\ s \in Nat /\ h \in Nat /\ Settled \in Nat /\ Settled <= ReadyCalls
        /\ ReadyCalls \in Nat /\ d.mTimeCounter \in Nat
  BY DEF InInv, Settled, InTypes
<1>c. (s >= Settled => Count(s, Settled) >= Settled) /\ (s < Settled => Count(s, Settled) = s + 1)
  BY <1>t, CountFacts
<1>1. /\ InTypes(g) /\ g.mState = "GARAGEIN" /\ g.asks = {} /\ g.sub \in Later
      /\ d.sub = "INIT" => g.sub = "READYGO" /\ g.mTimeCounter = 0
      /\ d.sub # "INIT" => g = d
  <2>1. CASE d.sub = "INIT"
    <3>1. g = [d EXCEPT !.sub = "READYGO", !.gDoMaimai = TRUE, !.mTimeCounter = 0]
      BY <2>1 DEF GarageInit
    <3> HIDE DEF g
    <3>2. Record(g, InNames)
      BY <1>t, <3>1 DEF InTypes, Record, InNames
    <3>3. g.mInitState \in BOOLEAN /\ g.mDoDetectWall \in BOOLEAN /\ g.mTimeCounter \in Nat
      BY <1>t, <3>1 DEF InTypes, Record, InNames
    <3>4. g.mState = "GARAGEIN" /\ g.asks = {} /\ g.sub = "READYGO" /\ g.mTimeCounter = 0
      BY <1>t, <3>1 DEF InTypes, Record, InNames
    <3> QED BY <2>1, <3>2, <3>3, <3>4, TypedStep
  <2>2. CASE d.sub # "INIT"
    <3>1. g = d
      BY <2>2 DEF GarageInit
    <3> HIDE DEF g
    <3> QED BY <1>t, <2>2, <3>1 DEF InInv
  <2> QED BY <2>1, <2>2
<1> HIDE DEF g
<1>2. /\ InTypes(r) /\ SameCourse(g, r) /\ r.asks = {} /\ r.sub \in Later
      /\ r.mTimeCounter = g.mTimeCounter
      /\ r.sub = g.sub \/ (g.sub = "READYGO" /\ r.sub = "MARKER" /\ g.mTimeCounter > ReadyCalls)
  <2>1. CASE g.sub = "READYGO" /\ g.mTimeCounter > ReadyCalls
    <3>1. r = [g EXCEPT !.sub = "MARKER"]
      BY <2>1 DEF Ready
    <3> HIDE DEF r
    <3> QED BY <1>1, <2>1, <3>1 DEF InTypes, Record, InNames, SameCourse
  <2>2. CASE ~(g.sub = "READYGO" /\ g.mTimeCounter > ReadyCalls)
    <3>1. r = g
      BY <2>2 DEF Ready
    <3> HIDE DEF r
    <3> QED BY <1>1, <3>1 DEF SameCourse
  <2> QED BY <2>1, <2>2
<1>3. r.sub # "READYGO" => d.sub # "INIT"
  BY <1>1, <1>2
<1>4. r.sub = "MARKER" => s >= Settled
  BY <1>t, <1>1, <1>2 DEF InInv
<1>5. r.sub = "READYGO" => (d.sub = "INIT" /\ r.mTimeCounter = 0)
                             \/ (d.sub = "READYGO" /\ r.mTimeCounter = d.mTimeCounter)
  BY <1>1, <1>2
<1> HIDE DEF r
<1>6. /\ InTypes(m) /\ SameCourse(r, m) /\ m.sub \in Later
      /\ r.sub # "MARKER" => m = r
      /\ r.sub = "MARKER" => m.asks = {"MARKER"} /\ m.sub \in {"MARKER", "STOP"}
  <2>1. CASE r.sub = "MARKER"
    <3> PICK n : m = [r EXCEPT !.mGrayCount = n, !.asks = @ \cup {"MARKER"}]
                 \/ m = [[r EXCEPT !.mGrayCount = n, !.asks = @ \cup {"MARKER"}] EXCEPT !.sub = "STOP"]
      BY <2>1 DEF Marker
    <3> DEFINE a == [r EXCEPT !.mGrayCount = n, !.asks = @ \cup {"MARKER"}]
    <3>1. InTypes(a) /\ SameCourse(r, a) /\ a.sub = "MARKER" /\ a.asks = {"MARKER"}
      BY <1>2, <2>1 DEF InTypes, Record, InNames, SameCourse
    <3>2. m = a \/ m = [a EXCEPT !.sub = "STOP"]
      OBVIOUS
    <3> HIDE DEF a, m
    <3> QED BY <2>1, <3>1, <3>2 DEF InTypes, Record, InNames, SameCourse
  <2>2. CASE r.sub # "MARKER"
    <3>1. m = r
      BY <2>2 DEF Marker
    <3> HIDE DEF m
    <3> QED BY <1>2, <2>2, <3>1 DEF SameCourse
  <2> QED BY <2>1, <2>2
<1> HIDE DEF m
<1>7. /\ InTypes(p) /\ SameCourse(m, p) /\ p.asks = m.asks /\ p.mTimeCounter = m.mTimeCounter
      /\ p.sub = m.sub \/ (m.sub = "STOP" /\ p.sub = "SITDOWN")
  BY <1>6 DEF Stop, InTypes, Record, InNames, SameCourse
<1> HIDE DEF p
<1>8. /\ InTypes(q) /\ SameCourse(p, q) /\ q.asks = p.asks /\ q.mTimeCounter = p.mTimeCounter
      /\ q.sub = p.sub
  BY <1>7 DEF SitDown, InTypes, Record, InNames, SameCourse
<1> HIDE DEF q
<1>9. /\ InTypes(e) /\ SameCourse(r, e) /\ e.asks = m.asks /\ e.sub \in Later
      /\ e.sub = "READYGO" => m.sub = "READYGO"
      /\ e.sub = "MARKER" => m.sub = "MARKER"
      /\ e.mTimeCounter = m.mTimeCounter \/ e.mTimeCounter = m.mTimeCounter + 1
  BY <1>6, <1>7, <1>8, TimedFields DEF SameCourse
<1> HIDE DEF e
<1>10. e.asks \subseteq {"MARKER"} /\ (e.asks # {} => s >= Settled)
  BY <1>2, <1>4, <1>6, <1>9
<1>11. e.mState = "GARAGEIN"
  BY <1>1, <1>2, <1>9 DEF SameCourse
<1>12. d.sub # "INIT" => NextSteady(d, e, s) = Count(s, Settled)
  BY <1>t, <1>1, <1>2, <1>9, NextClocks DEF SameCourse
<1>13. e.sub = "READYGO" => NextSteady(d, e, s) >= Settled \/ NextSteady(d, e, s) + 1 >= e.mTimeCounter
  <2> SUFFICES ASSUME e.sub = "READYGO"
               PROVE  NextSteady(d, e, s) >= Settled \/ NextSteady(d, e, s) + 1 >= e.mTimeCounter
    OBVIOUS
  <2>1. /\ m = r /\ r.sub = "READYGO"
        /\ e.mTimeCounter = r.mTimeCounter \/ e.mTimeCounter = r.mTimeCounter + 1
    BY <1>6, <1>9
  <2>2. CASE d.sub = "INIT"
    BY <1>t, <1>5, <2>1, <2>2, NextClocks
  <2>3. CASE d.sub # "INIT"
    <3>1. s >= Settled \/ s + 1 >= d.mTimeCounter
      BY <1>5, <2>1, <2>3 DEF InInv
    <3>2. e.mTimeCounter = d.mTimeCounter \/ e.mTimeCounter = d.mTimeCounter + 1
      BY <1>5, <2>1, <2>3
    <3>3. NextSteady(d, e, s) = Count(s, Settled)
      BY <1>12, <2>3
    <3> QED BY <1>t, <1>c, <3>1, <3>2, <3>3
  <2> QED BY <2>2, <2>3
<1>14. e.sub = "MARKER" => NextSteady(d, e, s) >= Settled
  <2> SUFFICES ASSUME e.sub = "MARKER" PROVE NextSteady(d, e, s) >= Settled
    OBVIOUS
  <2>1. r.sub = "MARKER"
    BY <1>6, <1>9
  <2>2. s >= Settled /\ NextSteady(d, e, s) = Count(s, Settled)
    BY <1>3, <1>4, <1>12, <2>1
  <2> QED BY <1>c, <2>2
<1> QED BY <1>t, <1>9, <1>10, <1>11, <1>13, <1>14, NextClocks DEF GoodStep, InInv

--------------------------------------------------------------------------------
(* StairwayDriver.cpp, one sub-state at a time *)

LEMMA StairsInitFields ==
  ASSUME NEW d, InTypes(d)
  PROVE  LET i == StairsInit(d)
         IN  /\ InTypes(i) /\ i.mState = d.mState /\ i.asks = d.asks
             /\ d.sub # "INIT" => i = d
             /\ d.sub = "INIT" => i.sub = "BEFORELINETRACE"
<1> DEFINE i == StairsInit(d)
           n == [d EXCEPT !.gDoMaimai = TRUE]
<1>1. InTypes(n) /\ n.mState = d.mState /\ n.asks = d.asks
  BY DEF InTypes, Record, InNames
<1>2. i = IF d.sub = "INIT" THEN Enter(n, "BEFORELINETRACE") ELSE d
  BY DEF StairsInit
<1> HIDE DEF i, n
<1>3. /\ InTypes(Enter(n, "BEFORELINETRACE")) /\ SameCourse(n, Enter(n, "BEFORELINETRACE"))
      /\ Enter(n, "BEFORELINETRACE").sub = "BEFORELINETRACE"
      /\ Enter(n, "BEFORELINETRACE").asks = n.asks
  BY <1>1, EnterFields
<1>4. /\ InTypes(i) /\ i.mState = d.mState /\ i.asks = d.asks
      /\ d.sub # "INIT" => i = d
      /\ d.sub = "INIT" => i.sub = "BEFORELINETRACE"
  BY <1>1, <1>2, <1>3 DEF SameCourse
<1> QED BY <1>4 DEF i

LEMMA FootFields ==
  ASSUME NEW d, InTypes(d), d.asks = {}, d.sub = "BEFORELINETRACE",
         NEW in \in [found : BOOLEAN, there : BOOLEAN], NEW f, f = Foot(d, in)
  PROVE  /\ InTypes(f) /\ SameCourse(d, f) /\ f.asks \subseteq {"BEFORELINETRACE"}
         /\ \/ f.sub = "BEFORELINETRACE"
            \/ f.sub = "ON0THSTAGE_BACK" /\ f.mInitState /\ f.x = OnStairs
<1> DEFINE b == Begin(d)
           l == Latched(b, b.x < Before)
           a == Asks(l, in.found, "ON0THSTAGE_BACK")
<1>1. f = IF a.sub = "BEFORELINETRACE" THEN a ELSE [a EXCEPT !.x = OnStairs]
  BY DEF Foot
<1>2. InTypes(b) /\ SameCourse(d, b) /\ b.sub = "BEFORELINETRACE" /\ b.asks = {}
  BY BeginFields
<1>3. (b.x < Before) \in BOOLEAN
  OBVIOUS
<1> HIDE DEF b
<1>4. InTypes(l) /\ SameCourse(b, l) /\ l.sub = "BEFORELINETRACE" /\ l.asks = {}
  BY <1>2, <1>3, LatchedFields
<1> HIDE DEF l
<1>5. /\ InTypes(a) /\ SameCourse(l, a) /\ a.asks \subseteq {"BEFORELINETRACE"}
      /\ a.sub = "BEFORELINETRACE" \/ (a.sub = "ON0THSTAGE_BACK" /\ a.mInitState)
  <2>1. CASE l.mDoDetectWall
    BY <1>4, <2>1, AsksFields
  <2>2. CASE ~l.mDoDetectWall
    BY <1>4, <2>2, AsksFields DEF SameCourse
  <2> QED BY <2>1, <2>2
<1> HIDE DEF a
<1>6. CASE a.sub = "BEFORELINETRACE"
  BY <1>1, <1>2, <1>4, <1>5, <1>6 DEF SameCourse
<1>7. CASE a.sub # "BEFORELINETRACE"
  <2>1. f = [a EXCEPT !.x = OnStairs]
    BY <1>1, <1>7
  <2>2. InTypes(f) /\ SameCourse(a, f) /\ f.asks = a.asks /\ f.sub = a.sub /\ f.x = OnStairs
          /\ f.mInitState = a.mInitState
    BY <1>5, <2>1 DEF InTypes, Record, InNames, SameCourse
  <2> QED BY <1>2, <1>4, <1>5, <1>7, <2>2 DEF SameCourse
<1> QED BY <1>6, <1>7

LEMMA BackUpFields ==
  ASSUME NEW f, InTypes(f), f.sub = "ON0THSTAGE_BACK", NEW h \in Nat,
         f.mInitState \/ ~f.mDoDetectWall \/ h >= Samples \/ h >= f.mTimeCounter,
         NEW k, k = BackUp(f)
  PROVE  /\ InTypes(k) /\ SameCourse(f, k) /\ k.asks = f.asks
         /\ k.sub \in {"ON0THSTAGE_BACK", "ON0THSTAGE_GO"}
         /\ k.sub = "ON0THSTAGE_GO" => h >= Samples
         /\ k.sub = "ON0THSTAGE_BACK" => ~k.mDoDetectWall \/ h >= Samples \/ h >= k.mTimeCounter
         /\ f.mInitState /\ f.x = OnStairs => k.sub = "ON0THSTAGE_BACK" /\ ~k.mDoDetectWall
<1> USE WaitsLongEnough
<1> DEFINE b == Begin(f)
           l == [b EXCEPT !.mDoDetectWall = TRUE, !.mTimeCounter = 0]
           a == IF ~b.mDoDetectWall /\ b.x > OnStairs THEN l ELSE b
<1>1. k = IF a.mDoDetectWall /\ a.mTimeCounter > BrakeCalls THEN Enter(a, "ON0THSTAGE_GO") ELSE a
  BY DEF BackUp
<1>2. /\ InTypes(b) /\ SameCourse(f, b) /\ b.sub = f.sub /\ b.asks = f.asks /\ b.x = f.x
      /\ ~b.mInitState /\ b.mTimeCounter = f.mTimeCounter
      /\ b.mDoDetectWall => ~f.mInitState /\ f.mDoDetectWall
  BY BeginFields
<1> HIDE DEF b
<1>3. /\ InTypes(l) /\ SameCourse(b, l) /\ l.sub = b.sub /\ l.asks = b.asks
      /\ l.mDoDetectWall /\ l.mTimeCounter = 0
  <2>1. Record(l, InNames) /\ l.mInitState \in BOOLEAN /\ l.mDoDetectWall \in BOOLEAN
          /\ l.mTimeCounter \in Nat
    BY <1>2 DEF InTypes, Record, InNames
  <2>2. SameCourse(b, l) /\ l.sub = b.sub /\ l.asks = b.asks /\ l.mDoDetectWall /\ l.mTimeCounter = 0
    BY <1>2 DEF InTypes, Record, InNames, SameCourse
  <2> QED BY <2>1, <2>2, TypedStep
<1> HIDE DEF l
<1>4. /\ InTypes(a) /\ SameCourse(f, a) /\ a.sub = f.sub /\ a.asks = f.asks
      /\ a.mDoDetectWall => h >= Samples \/ h >= a.mTimeCounter
      /\ f.mInitState /\ f.x = OnStairs => ~a.mDoDetectWall
  <2>1. CASE ~b.mDoDetectWall /\ b.x > OnStairs
    BY <1>2, <1>3, <2>1 DEF SameCourse, OnStairs
  <2>2. CASE ~(~b.mDoDetectWall /\ b.x > OnStairs)
    <3>1. a = b
      BY <2>2
    <3> QED BY <1>2, <3>1 DEF SameCourse
  <2> QED BY <2>1, <2>2
<1>5. a.mTimeCounter \in Nat
  BY <1>4 DEF InTypes
<1> HIDE DEF a
<1>6. CASE a.mDoDetectWall /\ a.mTimeCounter > BrakeCalls
  <2>1. h >= Samples
    BY <1>4, <1>5, <1>6
  <2>2. k = Enter(a, "ON0THSTAGE_GO")
    BY <1>1, <1>6
  <2>3. /\ InTypes(k) /\ SameCourse(a, k) /\ k.sub = "ON0THSTAGE_GO" /\ k.asks = a.asks
    BY <1>4, <2>2, EnterFields
  <2> QED BY <1>4, <1>6, <2>1, <2>3 DEF SameCourse
<1>7. CASE ~(a.mDoDetectWall /\ a.mTimeCounter > BrakeCalls)
  <2>1. k = a
    BY <1>1, <1>7
  <2> QED BY <1>4, <2>1
<1> QED BY <1>6, <1>7

LEMMA ClimbFields ==
  ASSUME NEW d, InTypes(d), d.asks = {}, d.sub = "ON0THSTAGE_GO",
         NEW in \in [found : BOOLEAN, there : BOOLEAN], NEW c, c = Climb(d, in)
  PROVE  /\ InTypes(c) /\ SameCourse(d, c) /\ c.asks \subseteq {"ON0THSTAGE_GO"}
         /\ c.sub = "ON0THSTAGE_GO" \/ (c.sub = "ON1STSTAGE" /\ c.mInitState)
<1> DEFINE b == Begin(d)
           l == Latched(b, b.x < RunUp)
<1>1. c = Asks(l, in.found, "ON1STSTAGE")
  BY DEF Climb
<1>2. InTypes(b) /\ SameCourse(d, b) /\ b.sub = "ON0THSTAGE_GO" /\ b.asks = {}
  BY BeginFields
<1>3. (b.x < RunUp) \in BOOLEAN
  OBVIOUS
<1> HIDE DEF b
<1>4. InTypes(l) /\ SameCourse(b, l) /\ l.sub = "ON0THSTAGE_GO" /\ l.asks = {}
  BY <1>2, <1>3, LatchedFields
<1> HIDE DEF l
<1>5. CASE l.mDoDetectWall
  BY <1>1, <1>2, <1>4, <1>5, AsksFields DEF SameCourse
<1>6. CASE ~l.mDoDetectWall
  BY <1>1, <1>2, <1>4, <1>6, AsksFields DEF SameCourse
<1> QED BY <1>5, <1>6

LEMMA SecondStageFields ==
  ASSUME NEW d, InTypes(d), d.asks = {}, d.sub = "ON2NDSTAGE",
         NEW in \in [found : BOOLEAN, there : BOOLEAN], NEW c, c = SecondStage(d, in)
  PROVE  /\ InTypes(c) /\ SameCourse(d, c) /\ c.asks = {}
         /\ c.sub \in {"ON2NDSTAGE", "DROPDOWN", "BEFORELINETRACE"}
         /\ c.sub = "DROPDOWN" => c.mInitState
<1> USE WaitsLongEnough
<1> DEFINE t == BeginTimed(d)
           a == Waited(t, BrakeCalls)
           b == IF a.mDoDetectWall /\ a.x = Behind THEN Enter(a, "DROPDOWN") ELSE a
           n == Enter(b, "BEFORELINETRACE")
<1>1. c = IF in.found THEN [n EXCEPT !.mDoDetectWall = TRUE] ELSE b
  BY DEF SecondStage
<1>2. InTypes(t) /\ SameCourse(d, t) /\ t.sub = "ON2NDSTAGE" /\ t.asks = {}
  BY BeginTimedFields
<1> HIDE DEF t
<1>3. InTypes(a) /\ SameCourse(t, a) /\ a.sub = "ON2NDSTAGE" /\ a.asks = {}
  BY <1>2, WaitedFields
<1> HIDE DEF a
<1>4. /\ InTypes(b) /\ SameCourse(a, b) /\ b.asks = {}
      /\ b.sub = "ON2NDSTAGE" \/ (b.sub = "DROPDOWN" /\ b.mInitState)
  BY <1>3, EnterFields DEF SameCourse
<1> HIDE DEF b
<1>5. InTypes(n) /\ SameCourse(b, n) /\ n.sub = "BEFORELINETRACE" /\ n.asks = {}
  BY <1>4, EnterFields
<1> HIDE DEF n
<1>6. CASE in.found
  <2>1. c = [n EXCEPT !.mDoDetectWall = TRUE]
    BY <1>1, <1>6
  <2>2. Record(c, InNames) /\ c.mInitState \in BOOLEAN /\ c.mDoDetectWall \in BOOLEAN
          /\ c.mTimeCounter \in Nat
    BY <1>5, <2>1 DEF InTypes, Record, InNames
  <2>3. SameCourse(n, c) /\ c.sub = "BEFORELINETRACE" /\ c.asks = {}
    BY <1>5, <2>1 DEF InTypes, Record, InNames, SameCourse
  <2> QED BY <1>2, <1>3, <1>4, <1>5, <2>2, <2>3, TypedStep DEF SameCourse
<1>7. CASE ~in.found
  BY <1>1, <1>2, <1>3, <1>4, <1>7 DEF SameCourse
<1> QED BY <1>6, <1>7

\* Where a call on the stairs leaves the conditions of lamp and collision to the sub-state it
\* is in afterwards.
LEMMA StairsKept ==
  ASSUME NEW d, NEW e, NEW s \in Nat, NEW h \in Nat, InTypes(e), e.mState = "STAIRWAY",
         e.sub \in {"INIT", "BEFORELINETRACE", "ON0THSTAGE_BACK", "ON0THSTAGE_GO", "ON1STSTAGE",
                     "ON2NDSTAGE", "DROPDOWN", "AFTERLINETRACE"},
         e.sub = "ON0THSTAGE_BACK" => e.mInitState \/ ~e.mDoDetectWall
           \/ NextHit(d, e, h) >= Samples \/ NextHit(d, e, h) >= e.mTimeCounter,
         e.sub = "ON0THSTAGE_GO" => NextHit(d, e, h) >= Samples,
         e.sub = "ON1STSTAGE" => Waits(e, NextHit(d, e, h), Samples),
         e.sub = "DROPDOWN" => Waits(e, NextSteady(d, e, s), Settled),
         e.asks \cap {"LINERETURN", "DROPDOWN", "MARKER"} # {} => s >= Settled,
         e.asks \cap {"ON0THSTAGE_GO", "ON1STSTAGE"} # {} => h >= Samples
  PROVE  GoodStep(d, e, s, h)
BY NextClocks DEF GoodStep, InInv

\* A sub-state that has still to be initialised, or one without a condition.
LEMMA QuietStairs ==
  ASSUME NEW d, NEW e, NEW s \in Nat, NEW h \in Nat, InTypes(e), e.mState = "STAIRWAY",
         \/ e.sub \in {"INIT", "BEFORELINETRACE", "ON2NDSTAGE", "AFTERLINETRACE"}
         \/ e.sub = "ON0THSTAGE_BACK" /\ ~e.mDoDetectWall
         \/ e.sub \in {"ON1STSTAGE", "DROPDOWN"} /\ e.mInitState,
         e.asks \cap {"LINERETURN", "DROPDOWN", "MARKER"} # {} => s >= Settled,
         e.asks \cap {"ON0THSTAGE_GO", "ON1STSTAGE"} # {} => h >= Samples
  PROVE  GoodStep(d, e, s, h)
BY StairsKept DEF Waits

\* ON0THSTAGE_GO is only reached when the collision of the run-up is out of the history.
LEMMA ClimbGood ==
  ASSUME NEW d, NEW s \in Nat, NEW h \in Nat, InTypes(d), d.mState = "STAIRWAY",
         NEW c, InTypes(c), SameCourse(d, c), c.asks = {}, c.sub = "ON0THSTAGE_GO", h >= Samples,
         NEW in \in [found : BOOLEAN, there : BOOLEAN], NEW e, e = Timed(Climb(c, in))
  PROVE  GoodStep(d, e, s, h)
<1> USE WaitsLongEnough
<1> DEFINE g == Climb(c, in)
<1>1. /\ InTypes(g) /\ SameCourse(c, g) /\ g.asks \subseteq {"ON0THSTAGE_GO"}
      /\ g.sub = "ON0THSTAGE_GO" \/ (g.sub = "ON1STSTAGE" /\ g.mInitState)
  BY ClimbFields
<1>2. e = Timed(g)
  OBVIOUS
<1> HIDE DEF g
<1>3. /\ InTypes(e) /\ SameCourse(g, e) /\ e.sub = g.sub /\ e.asks = g.asks
      /\ e.mInitState = g.mInitState
  BY <1>1, <1>2, TimedFields
<1>4. InTypes(e) /\ e.mState = "STAIRWAY" /\ e.asks \subseteq {"ON0THSTAGE_GO"}
  BY <1>1, <1>3 DEF SameCourse
<1>5. CASE e.sub = "ON1STSTAGE"
  BY <1>1, <1>3, <1>4, <1>5, QuietStairs
<1>6. CASE e.sub = "ON0THSTAGE_GO"
  <2>1. NextHit(d, e, h) >= Samples
    <3>1. e.sub \notin Believed
      BY <1>6 DEF Believed
    <3>2. NextHit(d, e, h) = Count(h, Samples)
      BY <3>1, NextClocks
    <3>3. Samples \in Nat
      OBVIOUS
    <3> QED BY <3>2, <3>3, CountFacts
  <2> QED BY <1>4, <1>6, <2>1, StairsKept
<1> QED BY <1>1, <1>3, <1>5, <1>6

\* StairwayDriver.cpp
LEMMA StairwayGood ==
  ASSUME NEW d, NEW s, NEW h, InInv(d, s, h), d.asks = {}, d.mState = "STAIRWAY",
         NEW in \in [found : BOOLEAN, there : BOOLEAN]
  PROVE  GoodStep(d, Stairway(d, in), s, h)
<1> DEFINE i == StairsInit(d)
           f == Foot(i, in)
           k == BackUp(f)
           c == StairsStep(d, in)
           e == Timed(c)
<1> USE WaitsLongEnough
<1> SUFFICES GoodStep(d, e, s, h)
  BY DEF Stairway
<1>t. InTypes(d) /\ s \in Nat /\ h \in Nat /\ Settled \in Nat /\ Samples \in Nat
        /\ Settled <= StayCalls /\ StayCalls \in Nat /\ Samples <= BrakeCalls /\ BrakeCalls \in Nat
  BY DEF InInv, Settled
<1>c. c = CASE k.sub = "ON0THSTAGE_GO"  -> Climb(k, in)
            [] k.sub = "ON1STSTAGE"     -> FirstStage(k, in)
            [] k.sub = "ON2NDSTAGE"     -> SecondStage(k, in)
            [] k.sub = "DROPDOWN"       -> DropDown(k, in)
            [] k.sub = "AFTERLINETRACE" ->
                 [k EXCEPT !.mInitState = FALSE, !.mTimeCounter = IF k.mInitState THEN 0 ELSE @]
            [] OTHER                    -> k
  BY DEF StairsStep
<1>1. ASSUME d.sub \notin {"INIT", "BEFORELINETRACE", "ON0THSTAGE_BACK"} PROVE k = d
  BY <1>1 DEF StairsInit, Foot, BackUp
<1>q. ASSUME InTypes(c), c.mState = "STAIRWAY",
             \/ c.sub \in {"INIT", "BEFORELINETRACE", "ON2NDSTAGE", "AFTERLINETRACE"}
             \/ c.sub = "ON0THSTAGE_BACK" /\ ~c.mDoDetectWall
             \/ c.sub \in {"ON1STSTAGE", "DROPDOWN"} /\ c.mInitState,
             c.asks \subseteq {"BEFORELINETRACE"}
      PROVE  GoodStep(d, e, s, h)
  <2> HIDE DEF c
  <2>1. InTypes(e) /\ e.mState = c.mState /\ e.sub = c.sub /\ e.asks = c.asks
          /\ e.mInitState = c.mInitState /\ e.mDoDetectWall = c.mDoDetectWall
    BY <1>q, TimedFields DEF SameCourse
  <2> HIDE DEF e
  <2> QED BY <1>t, <1>q, <2>1, QuietStairs
<1>2. CASE d.sub \in {"INIT", "BEFORELINETRACE"}
  <2>1. InTypes(i) /\ i.mState = d.mState /\ i.asks = {} /\ i.sub = "BEFORELINETRACE"
    BY <1>t, <1>2, StairsInitFields
  <2> HIDE DEF i
  <2>2. /\ InTypes(f) /\ SameCourse(i, f) /\ f.asks \subseteq {"BEFORELINETRACE"}
        /\ \/ f.sub = "BEFORELINETRACE"
           \/ f.sub = "ON0THSTAGE_BACK" /\ f.mInitState /\ f.x = OnStairs
    BY <2>1, FootFields
  <2> HIDE DEF f
  <2>3. /\ InTypes(k) /\ SameCourse(f, k) /\ k.asks = f.asks
        /\ k.sub = "BEFORELINETRACE" \/ (k.sub = "ON0THSTAGE_BACK" /\ ~k.mDoDetectWall)
    <3>1. CASE f.sub = "BEFORELINETRACE"
      <4>1. k = f
        BY <3>1 DEF BackUp
      <4> HIDE DEF k
      <4> QED BY <2>2, <3>1, <4>1 DEF SameCourse
    <3>2. CASE f.sub = "ON0THSTAGE_BACK"
      BY <1>t, <2>2, <3>2, BackUpFields
    <3> QED BY <2>2, <3>1, <3>2
  <2> HIDE DEF k
  <2>4. c = k
    BY <1>c, <2>3
  <2> HIDE DEF c
  <2> QED BY <1>q, <2>1, <2>2, <2>3, <2>4 DEF SameCourse
<1>3. CASE d.sub = "ON0THSTAGE_BACK"
  <2>1. f = d
    BY <1>3 DEF StairsInit, Foot
  <2>2. d.mInitState \/ ~d.mDoDetectWall \/ h >= Samples \/ h >= d.mTimeCounter
    BY <1>3 DEF InInv
  <2>3. k = BackUp(d)
    BY <2>1
  <2> HIDE DEF k, f
  <2>4. /\ InTypes(k) /\ SameCourse(d, k) /\ k.asks = {}
        /\ k.sub \in {"ON0THSTAGE_BACK", "ON0THSTAGE_GO"}
        /\ k.sub = "ON0THSTAGE_GO" => h >= Samples
        /\ k.sub = "ON0THSTAGE_BACK" => ~k.mDoDetectWall \/ h >= Samples \/ h >= k.mTimeCounter
    BY <1>t, <1>3, <2>2, <2>3, BackUpFields
  <2>5. CASE k.sub = "ON0THSTAGE_GO"
    <3>1. c = Climb(k, in)
      BY <1>c, <2>5
    <3> HIDE DEF c
    <3>2. e = Timed(Climb(k, in))
      BY <3>1
    <3> HIDE DEF e
    <3> QED BY <1>t, <2>4, <2>5, <3>2, ClimbGood
  <2>6. CASE k.sub = "ON0THSTAGE_BACK"
    <3>1. c = k
      BY <1>c, <2>6
    <3> HIDE DEF c
    <3>2. /\ InTypes(e) /\ SameCourse(k, e) /\ e.sub = k.sub /\ e.asks = {}
          /\ e.mDoDetectWall = k.mDoDetectWall
          /\ e.mTimeCounter = k.mTimeCounter \/ e.mTimeCounter = k.mTimeCounter + 1
      BY <2>4, <3>1, TimedFields
    <3> HIDE DEF e
    <3>3. NextHit(d, e, h) = Count(h, Samples)
      BY <1>3, <2>6, <3>2 DEF NextHit
    <3>4. k.mTimeCounter \in Nat
      BY <2>4 DEF InTypes
    <3>5. ~e.mDoDetectWall \/ Count(h, Samples) >= Samples \/ Count(h, Samples) >= e.mTimeCounter
      <4>1. /\ h >= Samples => Count(h, Samples) >= Samples
            /\ h < Samples => Count(h, Samples) = h + 1
        BY <1>t, CountFacts
      <4>2. ~e.mDoDetectWall \/ h >= Samples \/ h >= k.mTimeCounter
        BY <2>4, <2>6, <3>2
      <4>3. e.mTimeCounter = k.mTimeCounter \/ e.mTimeCounter = k.mTimeCounter + 1
        BY <3>2
      <4> QED BY <1>t, <3>4, <4>1, <4>2, <4>3
    <3>6. e.mState = "STAIRWAY"
      BY <2>4, <3>2 DEF SameCourse
    <3> QED BY <1>t, <2>6, <3>2, <3>3, <3>5, <3>6, StairsKept
  <2> QED BY <2>4, <2>5, <2>6
<1>4. CASE d.sub = "ON0THSTAGE_GO"
  <2>1. c = Climb(d, in) /\ h >= Samples
    BY <1>c, <1>1, <1>4 DEF InInv
  <2> HIDE DEF c
  <2>2. e = Timed(Climb(d, in))
    BY <2>1
  <2> HIDE DEF e
  <2> QED BY <1>t, <1>4, <2>1, <2>2, ClimbGood DEF SameCourse
<1>5. CASE d.sub = "ON1STSTAGE"
  <2>1. c = Asks(Waited(BeginTimed(d), BrakeCalls), in.found, "ON2NDSTAGE")
    BY <1>c, <1>1, <1>5 DEF FirstStage
  <2>2. Waits(d, h, Samples)
    BY <1>5 DEF InInv
  <2>3. /\ InTypes(e) /\ SameCourse(d, e)
        /\ e.asks \subseteq {"ON1STSTAGE"} /\ (e.asks # {} => h >= Samples)
        /\ \/ e.sub = "ON2NDSTAGE" /\ e.mInitState
           \/ e.sub = "ON1STSTAGE" /\ Waits(e, Count(h, Samples), Samples)
    BY <1>t, <1>5, <2>1, <2>2, WaitThenAsk
  <2> HIDE DEF e
  <2>4. e.sub = "ON1STSTAGE" => NextHit(d, e, h) = Count(h, Samples)
    BY <1>5 DEF NextHit
  <2>5. e.mState = "STAIRWAY"
    BY <2>3 DEF SameCourse
  <2> QED BY <1>t, <2>3, <2>4, <2>5, StairsKept
<1>6. CASE d.sub = "ON2NDSTAGE"
  <2>1. c = SecondStage(d, in)
    BY <1>c, <1>1, <1>6
  <2> HIDE DEF c
  <2>2. /\ InTypes(c) /\ SameCourse(d, c) /\ c.asks = {}
        /\ c.sub \in {"ON2NDSTAGE", "DROPDOWN", "BEFORELINETRACE"}
        /\ c.sub = "DROPDOWN" => c.mInitState
    BY <1>t, <1>6, <2>1, SecondStageFields
  <2> QED BY <1>q, <2>2 DEF SameCourse
<1>7. CASE d.sub = "DROPDOWN"
  <2>1. c = Asks(Waited(BeginTimed(d), StayCalls), in.found, "AFTERLINETRACE")
    BY <1>c, <1>1, <1>7 DEF DropDown
  <2>2. Waits(d, s, Settled)
    BY <1>7 DEF InInv
  <2>3. /\ InTypes(e) /\ SameCourse(d, e)
        /\ e.asks \subseteq {"DROPDOWN"} /\ (e.asks # {} => s >= Settled)
        /\ \/ e.sub = "AFTERLINETRACE" /\ e.mInitState
           \/ e.sub = "DROPDOWN" /\ Waits(e, Count(s, Settled), Settled)
    BY <1>t, <1>7, <2>1, <2>2, WaitThenAsk
  <2> HIDE DEF e
  <2>4. NextSteady(d, e, s) = Count(s, Settled)
    BY <1>t, <2>3, NextClocks DEF SameCourse
  <2>5. e.mState = "STAIRWAY"
    BY <2>3 DEF SameCourse
  <2> QED BY <1>t, <2>3, <2>4, <2>5, StairsKept
<1>8. CASE d.sub = "AFTERLINETRACE"
  <2>1. c = Begun(d)
    BY <1>c, <1>1, <1>8 DEF Begun
  <2> HIDE DEF c
  <2>2. InTypes(c) /\ SameCourse(d, c) /\ c.sub = d.sub /\ c.asks = d.asks
    BY <1>t, <2>1, BegunFields
  <2>3. c.sub = "AFTERLINETRACE" /\ c.asks = {}
    BY <1>t, <1>8, <2>2
  <2> QED BY <1>q, <2>2, <2>3 DEF SameCourse
<1> QED BY <1>2, <1>3, <1>4, <1>5, <1>6, <1>7, <1>8 DEF InInv

--------------------------------------------------------------------------------
(* InCourse.cpp: the sections in turn *)

\* A section begins at its first sub-state, which has no condition.
LEMMA FreshGood ==
  ASSUME NEW d, NEW e, NEW s \in Nat, NEW h \in Nat, InTypes(e),
         NEW section \in {"SEESAW", "STAIRWAY", "GARAGEIN"},
         e.asks \cap {"LINERETURN", "DROPDOWN", "MARKER"} # {} => s >= Settled,
         e.asks \cap {"ON0THSTAGE_GO", "ON1STSTAGE"} # {} => h >= Samples
  PROVE  GoodStep(d, Fresh(e, section), s, h)
<1> DEFINE n == Fresh(e, section)
<1>1. Record(n, InNames)
  BY DEF Fresh, InTypes, Record, InNames
<1>2. n.mInitState \in BOOLEAN /\ n.mDoDetectWall \in BOOLEAN /\ n.mTimeCounter \in Nat
  BY DEF Fresh, InTypes, Record, InNames
<1>3. n.mState = section /\ n.sub = "INIT" /\ n.asks = e.asks
  BY DEF Fresh, InTypes, Record, InNames
<1> HIDE DEF n
<1>4. InTypes(n)
  BY <1>1, <1>2, TypedStep
<1>5. InInv(n, NextSteady(d, n, s), NextHit(d, n, h))
  BY <1>3, <1>4, NextClocks DEF InInv
<1> QED BY <1>3, <1>5 DEF GoodStep, n

LEMMA FollowingGood ==
  ASSUME NEW d, NEW e, NEW s \in Nat, NEW h \in Nat, GoodStep(d, e, s, h),
         NEW section \in {"STAIRWAY", "GARAGEIN"}, NEW in
  PROVE  GoodStep(d, Following(e, in, section), s, h)
<1>1. InTypes(e)
  BY DEF GoodStep, InInv
<1>2. GoodStep(d, Fresh(e, section), s, h)
  BY <1>1, FreshGood DEF GoodStep
<1> QED BY <1>2 DEF Following

LEMMA SectionGood ==
  ASSUME NEW d, NEW s, NEW h, InInv(d, s, h), d.asks = {},
         NEW in \in [found : BOOLEAN, there : BOOLEAN]
  PROVE  GoodStep(d, InSection(d, in), s, h)
<1>t. InTypes(d) /\ s \in Nat /\ h \in Nat
  BY DEF InInv
<1>1. CASE d.mState = "START"
  <2> DEFINE n == [d EXCEPT !.gDoMaimai = TRUE]
  <2>1. InSection(d, in) = IF in.there THEN Fresh(n, "SEESAW") ELSE n
    BY <1>1 DEF InSection
  <2>2. InTypes(n) /\ n.mState = "START" /\ n.asks = {}
    BY <1>t, <1>1 DEF InTypes, Record, InNames
  <2> HIDE DEF n
  <2>3. GoodStep(d, Fresh(n, "SEESAW"), s, h)
    BY <1>t, <2>2, FreshGood
  <2>4. GoodStep(d, n, s, h)
    BY <1>t, <2>2, NextClocks DEF GoodStep, InInv
  <2> QED BY <2>1, <2>3, <2>4
<1>2. CASE d.mState = "SEESAW"
  <2>1. InSection(d, in) = Following(Seesaw(d, in), in, "STAIRWAY")
    BY <1>2 DEF InSection
  <2>2. GoodStep(d, Seesaw(d, in), s, h)
    BY <1>2, SeesawGood
  <2> QED BY <1>t, <2>1, <2>2, FollowingGood
<1>3. CASE d.mState = "STAIRWAY"
  <2>1. InSection(d, in) = Following(Stairway(d, in), in, "GARAGEIN")
    BY <1>3 DEF InSection
  <2>2. GoodStep(d, Stairway(d, in), s, h)
    BY <1>3, StairwayGood
  <2> QED BY <1>t, <2>1, <2>2, FollowingGood
<1>4. CASE d.mState = "GARAGEIN"
  <2>1. InSection(d, in) = Garage(d, in)
    BY <1>4 DEF InSection
  <2> QED BY <1>4, <2>1, GarageGood
<1> QED BY <1>1, <1>2, <1>3, <1>4 DEF InInv

--------------------------------------------------------------------------------
(* BEFORELINETRACE, of the seesaw and of the stairs: the detector asks about a collision  *)
(* that is out of the history, unless the robot has rolled back.  h is sinceHit, r is     *)
(* rolledBack.                                                                            *)

FootInv(d, h, r) ==
  /\ r \in BOOLEAN
  /\ d.mState = "START" => h >= Samples
  /\ d.mState = "SEESAW" =>
       /\ d.sub \in {"INIT", "BEFORELINETRACE", "AFTERLINETRACE"} => h >= Samples
       /\ d.sub = "LINERETURN" => Waits(d, h, Samples)
  /\ d.mState = "STAIRWAY" =>
       /\ d.sub = "INIT" => h >= Samples
       /\ d.sub = "BEFORELINETRACE" => h >= Samples \/ r

NextRolled(d, e, r) ==
  /\ ~(e.sub # d.sub /\ e.sub \in Believed)
  /\ r \/ (d.sub = "ON2NDSTAGE" /\ e.sub = "BEFORELINETRACE")

\* What a call of drive that takes d to e must keep.
FootStep(d, e, h, r) ==
  /\ FootInv(e, NextHit(d, e, h), NextRolled(d, e, r))
  /\ "BEFORELINETRACE" \in e.asks => h >= Samples \/ (r /\ d.mState = "STAIRWAY")

\* The clock and the flag where no collision is believed.
LEMMA FootClocks ==
  ASSUME NEW d, NEW e, NEW h \in Nat, NEW r \in BOOLEAN
  PROVE  /\ NextRolled(d, e, r) \in BOOLEAN
         /\ e.sub \notin Believed =>
              /\ NextHit(d, e, h) = Count(h, Samples)
              /\ r => NextRolled(d, e, r)
              /\ h >= Samples => NextHit(d, e, h) >= Samples
<1>1. NextRolled(d, e, r) \in BOOLEAN
  BY DEF NextRolled
<1>2. e.sub \notin Believed => NextHit(d, e, h) = Count(h, Samples) /\ (r => NextRolled(d, e, r))
  BY DEF NextHit, NextRolled
<1>3. Samples \in Nat
  BY WaitsLongEnough
<1> QED BY <1>1, <1>2, <1>3, CountFacts

LEMMA SeesawFoot ==
  ASSUME NEW d, NEW s, NEW h, NEW r, InInv(d, s, h), FootInv(d, h, r), d.asks = {},
         d.mState = "SEESAW", NEW in \in [found : BOOLEAN, there : BOOLEAN]
  PROVE  FootStep(d, Seesaw(d, in), h, r) /\ Seesaw(d, in).mState = "SEESAW"
<1> DEFINE c == SeesawStep(d, in)
           e == Timed(c)
<1> USE WaitsLongEnough
<1> SUFFICES FootStep(d, e, h, r) /\ e.mState = "SEESAW"
  BY DEF Seesaw
<1>t. InTypes(d) /\ h \in Nat /\ r \in BOOLEAN /\ Samples \in Nat
  BY DEF InInv, FootInv
\* A call that leaves for a sub-state whose condition holds at once.
<1>q. ASSUME InTypes(c), c.mState = "SEESAW",
             c.sub \in {"INIT", "BEFORELINETRACE", "AFTERLINETRACE"} => h >= Samples,
             c.sub = "LINERETURN" => c.mInitState,
             "BEFORELINETRACE" \in c.asks => h >= Samples
      PROVE  FootStep(d, e, h, r) /\ e.mState = "SEESAW"
  <2> HIDE DEF c
  <2>1. /\ InTypes(e) /\ e.mState = "SEESAW" /\ e.sub = c.sub /\ e.asks = c.asks
        /\ e.mInitState = c.mInitState
    BY <1>q, TimedFields DEF SameCourse
  <2> HIDE DEF e
  <2>2. e.sub \in {"INIT", "BEFORELINETRACE", "AFTERLINETRACE"} => NextHit(d, e, h) >= Samples
    BY <1>t, <1>q, <2>1, FootClocks DEF Believed
  <2>3. e.sub = "LINERETURN" => Waits(e, NextHit(d, e, h), Samples)
    BY <1>q, <2>1 DEF Waits
  <2> QED BY <1>t, <1>q, <2>1, <2>2, <2>3, FootClocks DEF FootStep, FootInv
<1>1. CASE d.sub = "INIT"
  <2>1. c = [d EXCEPT !.sub = "BEFORELINETRACE", !.gDoMaimai = FALSE, !.mTimeCounter = 0,
                      !.mDoDetectWall = FALSE]
    BY <1>1 DEF SeesawStep
  <2> HIDE DEF c
  <2>2. Record(c, InNames) /\ c.mInitState \in BOOLEAN /\ c.mDoDetectWall \in BOOLEAN
          /\ c.mTimeCounter \in Nat
    BY <1>t, <2>1 DEF InTypes, Record, InNames
  <2>3. c.mState = "SEESAW" /\ c.sub = "BEFORELINETRACE" /\ c.asks = {}
    BY <1>t, <2>1 DEF InTypes, Record, InNames
  <2>4. h >= Samples
    BY <1>1 DEF FootInv
  <2> QED BY <1>q, <2>2, <2>3, <2>4, TypedStep
<1>2. CASE d.sub = "BEFORELINETRACE"
  <2> DEFINE l == Latched(d, in.there)
  <2>1. c = Asks(l, in.found, "FIRSTRUN") /\ h >= Samples
    BY <1>2 DEF SeesawStep, FootInv
  <2>2. InTypes(l) /\ SameCourse(d, l) /\ l.sub = "BEFORELINETRACE"
    BY <1>t, <1>2, LatchedFields
  <2> HIDE DEF l, c
  <2>3. InTypes(c) /\ SameCourse(l, c) /\ c.sub \in {"BEFORELINETRACE", "FIRSTRUN"}
    BY <2>1, <2>2, AsksFields
  <2> QED BY <1>q, <2>1, <2>2, <2>3 DEF SameCourse
<1>3. CASE d.sub = "FIRSTRUN"
  <2> DEFINE b == Begun(d)
             n == Enter(b, "LINERETURN")
  <2>1. c = b \/ c = [n EXCEPT !.mTimeCounter = 0]
    BY <1>3 DEF SeesawStep, Begun
  <2>2. InTypes(b) /\ SameCourse(d, b) /\ b.sub = "FIRSTRUN" /\ b.asks = {}
    BY <1>t, <1>3, BegunFields
  <2> HIDE DEF b
  <2>3. InTypes(n) /\ SameCourse(b, n) /\ n.sub = "LINERETURN" /\ n.mInitState /\ n.asks = {}
    BY <2>2, EnterFields
  <2> HIDE DEF n
  <2>4. CASE c = b
    <3> HIDE DEF c
    <3> QED BY <1>q, <2>2, <2>4 DEF SameCourse
  <2>5. CASE c = [n EXCEPT !.mTimeCounter = 0]
    <3> HIDE DEF c
    <3>1. Record(c, InNames) /\ c.mInitState \in BOOLEAN /\ c.mDoDetectWall \in BOOLEAN
            /\ c.mTimeCounter \in Nat
      BY <2>3, <2>5 DEF InTypes, Record, InNames
    <3>2. c.mState = n.mState /\ c.sub = "LINERETURN" /\ c.mInitState /\ c.asks = {}
      BY <2>3, <2>5 DEF InTypes, Record, InNames
    <3> QED BY <1>q, <2>2, <2>3, <3>1, <3>2, TypedStep DEF SameCourse
  <2> QED BY <2>1, <2>4, <2>5
<1>4. CASE d.sub = "LINERETURN"
  <2>1. c = Asks(Waited(BeginTimed(d), StayCalls), in.found, "AFTERLINETRACE")
    BY <1>4 DEF SeesawStep, LineReturn
  <2>2. Waits(d, h, Samples) /\ Samples <= StayCalls /\ StayCalls \in Nat
    BY <1>4 DEF FootInv, Settled
  <2>3. /\ InTypes(e) /\ SameCourse(d, e)
        /\ e.asks \subseteq {"LINERETURN"} /\ (e.asks # {} => h >= Samples)
        /\ \/ e.sub = "AFTERLINETRACE" /\ e.asks # {}
           \/ e.sub = "LINERETURN" /\ Waits(e, Count(h, Samples), Samples)
    BY <1>t, <1>4, <2>1, <2>2, WaitThenAsk
  <2> HIDE DEF e
  <2>4. e.mState = "SEESAW"
    BY <2>3 DEF SameCourse
  <2>5. /\ NextHit(d, e, h) = Count(h, Samples)
        /\ h >= Samples => NextHit(d, e, h) >= Samples
    BY <1>t, <2>3, FootClocks DEF Believed
  <2> QED BY <1>t, <2>3, <2>4, <2>5, FootClocks DEF FootStep, FootInv
<1>5. CASE d.sub = "AFTERLINETRACE"
  <2>1. c = Begun(d) /\ h >= Samples
    BY <1>5 DEF SeesawStep, Begun, FootInv
  <2> HIDE DEF c
  <2>2. InTypes(c) /\ SameCourse(d, c) /\ c.sub = d.sub
    BY <1>t, <2>1, BegunFields
  <2>3. c.sub = "AFTERLINETRACE"
    BY <1>5, <2>2
  <2> QED BY <1>q, <2>1, <2>2, <2>3 DEF SameCourse
<1> QED BY <1>1, <1>2, <1>3, <1>4, <1>5 DEF InInv

\* Only a call in INIT or BEFORELINETRACE asks at the foot of the stairs, and only rolling back
\* leads there again.
LEMMA StairwayFoot ==
  ASSUME NEW d, NEW s, NEW h, NEW r, InInv(d, s, h), FootInv(d, h, r), d.asks = {},
         d.mState = "STAIRWAY", NEW in \in [found : BOOLEAN, there : BOOLEAN]
  PROVE  FootStep(d, Stairway(d, in), h, r)
<1> DEFINE i == StairsInit(d)
           f == Foot(i, in)
           k == BackUp(f)
           c == StairsStep(d, in)
           e == Timed(c)
<1> USE WaitsLongEnough
<1> SUFFICES FootStep(d, e, h, r)
  BY DEF Stairway
<1>t. InTypes(d) /\ h \in Nat /\ r \in BOOLEAN /\ Samples \in Nat
        /\ StayCalls \in Nat /\ BrakeCalls \in Nat
  BY DEF InInv, FootInv
<1>c. c = CASE k.sub = "ON0THSTAGE_GO"  -> Climb(k, in)
            [] k.sub = "ON1STSTAGE"     -> FirstStage(k, in)
            [] k.sub = "ON2NDSTAGE"     -> SecondStage(k, in)
            [] k.sub = "DROPDOWN"       -> DropDown(k, in)
            [] k.sub = "AFTERLINETRACE" ->
                 [k EXCEPT !.mInitState = FALSE, !.mTimeCounter = IF k.mInitState THEN 0 ELSE @]
            [] OTHER                    -> k
  BY DEF StairsStep
<1>1. ASSUME d.sub \notin {"INIT", "BEFORELINETRACE", "ON0THSTAGE_BACK"} PROVE k = d
  BY <1>1 DEF StairsInit, Foot, BackUp
<1>q. ASSUME InTypes(c), c.mState = "STAIRWAY", c.sub # "INIT",
             c.sub = "BEFORELINETRACE" => h >= Samples \/ r \/ d.sub = "ON2NDSTAGE",
             "BEFORELINETRACE" \in c.asks => h >= Samples \/ r
      PROVE  FootStep(d, e, h, r)
  <2> HIDE DEF c
  <2>1. e.mState = "STAIRWAY" /\ e.sub = c.sub /\ e.asks = c.asks
    BY <1>q, TimedFields DEF SameCourse
  <2> HIDE DEF e
  <2>2. e.sub = "BEFORELINETRACE" => NextHit(d, e, h) >= Samples \/ NextRolled(d, e, r)
    <3> SUFFICES ASSUME e.sub = "BEFORELINETRACE"
                 PROVE  NextHit(d, e, h) >= Samples \/ NextRolled(d, e, r)
      OBVIOUS
    <3>1. e.sub \notin Believed
      BY DEF Believed
    <3>2. d.sub = "ON2NDSTAGE" => NextRolled(d, e, r)
      BY <3>1 DEF NextRolled
    <3> QED BY <1>t, <1>q, <2>1, <3>1, <3>2, FootClocks
  <2> QED BY <1>t, <1>q, <2>1, <2>2, FootClocks DEF FootStep, FootInv
<1>2. CASE d.sub \in {"INIT", "BEFORELINETRACE"}
  <2>1. InTypes(i) /\ i.mState = d.mState /\ i.asks = {} /\ i.sub = "BEFORELINETRACE"
    BY <1>t, <1>2, StairsInitFields
  <2> HIDE DEF i
  <2>2. /\ InTypes(f) /\ SameCourse(i, f) /\ f.asks \subseteq {"BEFORELINETRACE"}
        /\ \/ f.sub = "BEFORELINETRACE"
           \/ f.sub = "ON0THSTAGE_BACK" /\ f.mInitState /\ f.x = OnStairs
    BY <2>1, FootFields
  <2> HIDE DEF f
  <2>3. /\ InTypes(k) /\ SameCourse(f, k)
        /\ k.sub = "BEFORELINETRACE" \/ k.sub = "ON0THSTAGE_BACK"
    <3>1. CASE f.sub = "BEFORELINETRACE"
      <4>1. k = f
        BY <3>1 DEF BackUp
      <4> HIDE DEF k
      <4> QED BY <2>2, <3>1, <4>1 DEF SameCourse
    <3>2. CASE f.sub = "ON0THSTAGE_BACK"
      BY <1>t, <2>2, <3>2, BackUpFields
    <3> QED BY <2>2, <3>1, <3>2
  <2> HIDE DEF k
  <2>4. c = k
    BY <1>c, <2>3
  <2>5. h >= Samples \/ r
    BY <1>2 DEF FootInv
  <2> HIDE DEF c
  <2> QED BY <1>q, <2>1, <2>2, <2>3, <2>4, <2>5 DEF SameCourse
<1>3. CASE d.sub = "ON0THSTAGE_BACK"
  <2>1. f = d
    BY <1>3 DEF StairsInit, Foot
  <2>2. d.mInitState \/ ~d.mDoDetectWall \/ h >= Samples \/ h >= d.mTimeCounter
    BY <1>3 DEF InInv
  <2>3. k = BackUp(d)
    BY <2>1
  <2> HIDE DEF k, f
  <2>4. /\ InTypes(k) /\ SameCourse(d, k) /\ k.asks = {}
        /\ k.sub \in {"ON0THSTAGE_BACK", "ON0THSTAGE_GO"}
    BY <1>t, <1>3, <2>2, <2>3, BackUpFields
  <2>5. CASE k.sub = "ON0THSTAGE_GO"
    <3>1. c = Climb(k, in)
      BY <1>c, <2>5
    <3> HIDE DEF c
    <3>2. /\ InTypes(c) /\ SameCourse(k, c) /\ c.asks \subseteq {"ON0THSTAGE_GO"}
          /\ c.sub \in {"ON0THSTAGE_GO", "ON1STSTAGE"}
      BY <2>4, <2>5, <3>1, ClimbFields
    <3> QED BY <1>q, <2>4, <3>2 DEF SameCourse
  <2>6. CASE k.sub = "ON0THSTAGE_BACK"
    <3>1. c = k
      BY <1>c, <2>6
    <3> HIDE DEF c
    <3> QED BY <1>q, <2>4, <2>6, <3>1 DEF SameCourse
  <2> QED BY <2>4, <2>5, <2>6
<1>4. CASE d.sub = "ON0THSTAGE_GO"
  <2>1. c = Climb(d, in)
    BY <1>c, <1>1, <1>4
  <2> HIDE DEF c
  <2>2. /\ InTypes(c) /\ SameCourse(d, c) /\ c.asks \subseteq {"ON0THSTAGE_GO"}
        /\ c.sub \in {"ON0THSTAGE_GO", "ON1STSTAGE"}
    BY <1>t, <1>4, <2>1, ClimbFields
  <2> QED BY <1>q, <2>2 DEF SameCourse
\* The waits ask in their own sub-state and do not lead back.
<1>w. ASSUME NEW n \in Nat, NEW t, t \notin {"INIT", "BEFORELINETRACE"},
             d.sub \notin {"INIT", "BEFORELINETRACE"},
             c = Asks(Waited(BeginTimed(d), n), in.found, t)
      PROVE  FootStep(d, e, h, r)
  <2>1. Waits(d, 0, 0) /\ 0 <= n /\ 0 \in Nat
    BY DEF Waits
  <2>2. e = Timed(Asks(Waited(BeginTimed(d), n), in.found, t))
    BY <1>w
  <2> HIDE DEF e
  <2>3. /\ InTypes(e) /\ SameCourse(d, e) /\ e.asks \subseteq {d.sub}
        /\ e.sub = t \/ e.sub = d.sub
    BY <1>t, <2>1, <2>2, WaitThenAsk
  <2>4. e.mState = "STAIRWAY" /\ e.sub \notin {"INIT", "BEFORELINETRACE"}
          /\ "BEFORELINETRACE" \notin e.asks
    BY <1>w, <2>3 DEF SameCourse
  <2> QED BY <1>t, <2>4, FootClocks DEF FootStep, FootInv
<1>5. CASE d.sub = "ON1STSTAGE"
  <2>1. c = Asks(Waited(BeginTimed(d), BrakeCalls), in.found, "ON2NDSTAGE")
    BY <1>c, <1>1, <1>5 DEF FirstStage
  <2> HIDE DEF c, e
  <2> QED BY <1>t, <1>5, <1>w, <2>1
<1>6. CASE d.sub = "ON2NDSTAGE"
  <2>1. c = SecondStage(d, in)
    BY <1>c, <1>1, <1>6
  <2> HIDE DEF c
  <2>2. /\ InTypes(c) /\ SameCourse(d, c) /\ c.asks = {}
        /\ c.sub \in {"ON2NDSTAGE", "DROPDOWN", "BEFORELINETRACE"}
    BY <1>t, <1>6, <2>1, SecondStageFields
  <2> QED BY <1>q, <1>6, <2>2 DEF SameCourse
<1>7. CASE d.sub = "DROPDOWN"
  <2>1. c = Asks(Waited(BeginTimed(d), StayCalls), in.found, "AFTERLINETRACE")
    BY <1>c, <1>1, <1>7 DEF DropDown
  <2> HIDE DEF c, e
  <2> QED BY <1>t, <1>7, <1>w, <2>1
<1>8. CASE d.sub = "AFTERLINETRACE"
  <2>1. c = Begun(d)
    BY <1>c, <1>1, <1>8 DEF Begun
  <2> HIDE DEF c
  <2>2. InTypes(c) /\ SameCourse(d, c) /\ c.sub = d.sub /\ c.asks = d.asks
    BY <1>t, <2>1, BegunFields
  <2> QED BY <1>q, <1>8, <2>2 DEF SameCourse
<1> QED BY <1>2, <1>3, <1>4, <1>5, <1>6, <1>7, <1>8 DEF InInv

\* The stairs begin only when the collision with the seesaw is out of the history.
LEMMA FollowingFoot ==
  ASSUME NEW d, NEW e, NEW h \in Nat, NEW r \in BOOLEAN, InTypes(e), FootStep(d, e, h, r),
         NEW section \in {"STAIRWAY", "GARAGEIN"},
         section = "STAIRWAY" => e.mState = "SEESAW", NEW in
  PROVE  FootStep(d, Following(e, in, section), h, r)
<1> DEFINE n == Fresh(e, section)
<1>1. n.mState = section /\ n.sub = "INIT" /\ n.asks = e.asks
  BY DEF Fresh, InTypes, Record, InNames
<1>2. Following(e, in, section) = IF e.sub = "AFTERLINETRACE" /\ in.there THEN n ELSE e
  BY DEF Following
<1> HIDE DEF n
<1>3. ASSUME e.sub = "AFTERLINETRACE" PROVE FootStep(d, n, h, r)
  <2>1. section = "STAIRWAY" => NextHit(d, e, h) >= Samples
    BY <1>3 DEF FootStep, FootInv
  <2>2. NextHit(d, n, h) = NextHit(d, e, h)
    BY <1>1, <1>3, FootClocks DEF Believed
  <2> QED BY <1>1, <2>1, <2>2, FootClocks DEF FootStep, FootInv
<1> QED BY <1>2, <1>3

LEMMA SectionFoot ==
  ASSUME NEW d, NEW s, NEW h, NEW r, InInv(d, s, h), FootInv(d, h, r), d.asks = {},
         NEW in \in [found : BOOLEAN, there : BOOLEAN]
  PROVE  FootStep(d, InSection(d, in), h, r)
<1>t. InTypes(d) /\ h \in Nat /\ r \in BOOLEAN
  BY DEF InInv, FootInv
<1>1. CASE d.mState = "START"
  <2> DEFINE n == [d EXCEPT !.gDoMaimai = TRUE]
             g == Fresh(n, "SEESAW")
  <2>1. InSection(d, in) = IF in.there THEN g ELSE n
    BY <1>1 DEF InSection
  <2>2. InTypes(n) /\ n.mState = "START" /\ n.sub = d.sub /\ n.asks = {}
    BY <1>t, <1>1 DEF InTypes, Record, InNames
  <2> HIDE DEF n
  <2>3. g.mState = "SEESAW" /\ g.sub = "INIT" /\ g.asks = {}
    BY <2>2 DEF Fresh, InTypes, Record, InNames
  <2> HIDE DEF g
  <2>4. Samples \in Nat /\ h >= Samples
    BY <1>1, WaitsLongEnough DEF FootInv
  <2>5. FootStep(d, g, h, r)
    BY <1>t, <2>3, <2>4, FootClocks DEF FootStep, FootInv, Believed
  <2>6. NextHit(d, n, h) >= Samples
    <3>1. NextHit(d, n, h) = Count(h, Samples)
      BY <2>2 DEF NextHit
    <3> QED BY <1>t, <2>4, <3>1, CountFacts
  <2>7. FootStep(d, n, h, r)
    BY <1>t, <2>2, <2>6, FootClocks DEF FootStep, FootInv
  <2> QED BY <2>1, <2>5, <2>7
<1>2. CASE d.mState = "SEESAW"
  <2> DEFINE e == Seesaw(d, in)
  <2>1. InSection(d, in) = Following(e, in, "STAIRWAY")
    BY <1>2 DEF InSection
  <2>2. FootStep(d, e, h, r) /\ e.mState = "SEESAW"
    BY <1>2, SeesawFoot
  <2>3. InTypes(e)
    BY <1>2, SeesawGood DEF GoodStep, InInv
  <2> HIDE DEF e
  <2> QED BY <1>t, <2>1, <2>2, <2>3, FollowingFoot
<1>3. CASE d.mState = "STAIRWAY"
  <2> DEFINE e == Stairway(d, in)
  <2>1. InSection(d, in) = Following(e, in, "GARAGEIN")
    BY <1>3 DEF InSection
  <2>2. FootStep(d, e, h, r)
    BY <1>3, StairwayFoot
  <2>3. InTypes(e)
    BY <1>3, StairwayGood DEF GoodStep, InInv
  <2> HIDE DEF e
  <2> QED BY <1>t, <2>1, <2>2, <2>3, FollowingFoot
<1>4. CASE d.mState = "GARAGEIN"
  <2> DEFINE e == Garage(d, in)
  <2>1. InSection(d, in) = e
    BY <1>4 DEF InSection
  <2>2. e.mState = "GARAGEIN" /\ e.asks \subseteq {"MARKER"}
    BY <1>4, GarageGood
  <2> HIDE DEF e
  <2> QED BY <1>t, <2>1, <2>2, FootClocks DEF FootStep, FootInv
<1> QED BY <1>1, <1>2, <1>3, <1>4 DEF InInv

\* One call of InCourse::drive.
LEMMA InDriveGood ==
  ASSUME InInv(drive, steady, sinceHit), FootInv(drive, sinceHit, rolledBack), InDrive
  PROVE  /\ InInv(drive', steady', sinceHit') /\ FootInv(drive', sinceHit', rolledBack')
         /\ AsksSettledLight /\ AsksAfterCollision
<1> PICK in \in [found : BOOLEAN, there : BOOLEAN], x \in Near(drive.x) :
      drive' = InSection([drive EXCEPT !.x = x, !.asks = {}], in)
  BY DEF InDrive
<1> DEFINE d == [drive EXCEPT !.x = x, !.asks = {}]
           e == InSection(d, in)
<1>1. InTypes(d) /\ d.asks = {}
  BY DEF InInv, InTypes, Record, InNames
<1>2. /\ d.mState = drive.mState /\ d.sub = drive.sub /\ d.mInitState = drive.mInitState
      /\ d.mDoDetectWall = drive.mDoDetectWall /\ d.mTimeCounter = drive.mTimeCounter
      /\ d.gDoMaimai = drive.gDoMaimai
  BY DEF InInv, InTypes, Record, InNames
<1>3. drive' = e
  OBVIOUS
<1> HIDE DEF d
<1>4. InInv(d, steady, sinceHit) /\ FootInv(d, sinceHit, rolledBack)
  BY <1>1, <1>2 DEF InInv, FootInv, Waits
<1>5. GoodStep(d, e, steady, sinceHit) /\ FootStep(d, e, sinceHit, rolledBack)
  BY <1>1, <1>4, SectionGood, SectionFoot
<1> HIDE DEF e
<1>6. steady' = NextSteady(d, e, steady) /\ sinceHit' = NextHit(d, e, sinceHit)
        /\ rolledBack' = NextRolled(d, e, rolledBack)
  BY <1>2, <1>3 DEF InDrive, NextSteady, NextHit, NextRolled
<1>7. FootInv(drive', sinceHit', rolledBack')
        /\ ("BEFORELINETRACE" \in drive'.asks =>
              sinceHit >= Samples \/ (rolledBack /\ drive.mState = "STAIRWAY"))
  BY <1>2, <1>3, <1>5, <1>6 DEF FootStep
<1> QED BY <1>3, <1>5, <1>6, <1>7 DEF GoodStep, AsksSettledLight, AsksAfterCollision

--------------------------------------------------------------------------------
(* The specification *)

CourseInv ==
  /\ mCourse \in {"In", "Out"}
  /\ mCourse = "In" => InInv(drive, steady, sinceHit) /\ FootInv(drive, sinceHit, rolledBack)
  /\ mCourse = "Out" => GateInv(drive)

LEMMA CourseInit == Init => CourseInv
<1> SUFFICES ASSUME Init PROVE CourseInv
  OBVIOUS
<1> USE WaitsLongEnough
<1>1. CASE mCourse = "In" /\ InInit
  <2> PICK s \in {"START", "SEESAW", "STAIRWAY", "GARAGEIN"} :
        drive = [mState |-> s, sub |-> "INIT", mInitState |-> TRUE, mDoDetectWall |-> FALSE,
                 mTimeCounter |-> 0, gDoMaimai |-> TRUE, x |-> Before, mGrayCount |-> 0,
                 seat |-> Standing, asks |-> {}]
    BY <1>1 DEF InInit
  <2>1. Record(drive, InNames)
    BY DEF Record, InNames
  <2>2. drive.mInitState \in BOOLEAN /\ drive.mDoDetectWall \in BOOLEAN /\ drive.mTimeCounter \in Nat
    OBVIOUS
  <2>3. drive.mState \in {"START", "SEESAW", "STAIRWAY", "GARAGEIN"} /\ drive.sub = "INIT"
    OBVIOUS
  <2>4. InTypes(drive)
    BY <2>1, <2>2, TypedStep
  <2>5. Samples \in Nat /\ sinceHit >= Samples /\ rolledBack = FALSE
    BY <1>1 DEF InInit
  <2>6. FootInv(drive, sinceHit, rolledBack)
    BY <2>3, <2>5 DEF FootInv
  <2> QED BY <1>1, <2>3, <2>4, <2>6 DEF CourseInv, InInv, InInit
<1>2. CASE mCourse = "Out" /\ OutInit
  <2>1. /\ Record(drive, OutNames) /\ drive.mTimeCounter = 0 /\ drive.seat = Standing
        /\ drive.sub = "INIT"
    BY <1>2 DEF OutInit, Record, OutNames
  <2>3. drive.gDoSonar \in BOOLEAN
    BY <1>2 DEF OutInit
  <2>2. Standing \in Seats
    BY DEF Standing, Seats
  <2> QED BY <1>2, <2>1, <2>2, <2>3 DEF CourseInv, GateInv
<1> QED BY <1>1, <1>2 DEF Init

\* One call of OutCourse::drive.
LEMMA OutDriveGood ==
  ASSUME GateInv(drive), OutDrive
  PROVE  GateInv(drive')
<1> DEFINE d == [drive EXCEPT !.counts = FALSE]
<1>1. GateInv(d)
  BY DEF GateInv, Record, OutNames
<1>2. OutSection(d)
  BY DEF OutDrive
<1> HIDE DEF d
<1>3. CASE d.mState = "START" /\ (drive' = d \/ drive' = [d EXCEPT !.mState = "LOOKUP"])
  <2>1. CASE drive' = d
    BY <1>1, <2>1
  <2>2. CASE drive' = [d EXCEPT !.mState = "LOOKUP"]
    BY <1>1, <1>3, <2>2 DEF GateInv, Record, OutNames
  <2> QED BY <1>3, <2>1, <2>2
<1>4. CASE d.mState = "LOOKUP" /\ LookUpGate(d)
  BY <1>1, <1>4, GateStep
<1>5. CASE d.mState = "ETSUMO" /\ ETsumo(d)
  BY <1>1, <1>5, SumoStep DEF OnRing
<1> QED BY <1>2, <1>3, <1>4, <1>5 DEF OutSection

LEMMA CourseStep ==
  ASSUME CourseInv, [Next]_courseVars
  PROVE  /\ CourseInv'
         /\ [mCourse = "In" => AsksSettledLight]_courseVars
         /\ [mCourse = "In" => AsksAfterCollision]_courseVars
<1>1. CASE mCourse = "In" /\ InDrive /\ mCourse' = mCourse
  <2>1. /\ InInv(drive', steady', sinceHit') /\ FootInv(drive', sinceHit', rolledBack')
        /\ AsksSettledLight /\ AsksAfterCollision
    BY <1>1, InDriveGood DEF CourseInv
  <2> QED BY <1>1, <2>1 DEF CourseInv
<1>2. CASE mCourse = "Out" /\ OutNext /\ mCourse' = mCourse
  <2>1. drive' = drive \/ OutDrive
    BY <1>2 DEF OutNext, SonarLoop, Measured, NextTurn
  <2>2. GateInv(drive')
    BY <1>2, <2>1, OutDriveGood DEF CourseInv
  <2> QED BY <1>2, <2>2 DEF CourseInv
<1>3. CASE UNCHANGED courseVars
  BY <1>3 DEF CourseInv, courseVars
<1> QED BY <1>1, <1>2, <1>3 DEF Next

LEMMA FreshInit == Init => (mCourse = "Out" => SonarInv)
<1> SUFFICES ASSUME OutInit PROVE SonarInv
  BY WaitsLongEnough DEF Init
<1>1. drive.sub = "INIT"
  BY DEF OutInit
<1>2. PICK n \in 0 .. SonarPeriod - 1 : sonar = [measures |-> FALSE, due |-> n, late |-> 0]
  BY DEF OutInit
<1>3. SonarTypes(sonar, gSonarIsDetected) /\ called \in BOOLEAN /\ fresh \in BOOLEAN
  <2>1. sonar.measures = FALSE /\ sonar.due = n /\ sonar.late = 0
    BY <1>2
  <2>2. n \in 0 .. SonarPeriod /\ 0 \in 0 .. MaxDelay
    BY SonarTimes
  <2>3. gSonarIsDetected = FALSE /\ called = FALSE /\ fresh = FALSE
    BY DEF OutInit
  <2> QED BY <1>2, <2>1, <2>2, <2>3 DEF SonarTypes
<1> QED BY <1>1, <1>3 DEF SonarInv

\* TaskSonar and the time leave alone what the driver has to keep.
LEMMA SonarStep ==
  ASSUME GateInv(drive), SonarInv, OutNext
  PROVE  SonarInv' /\ CountsFresh
<1> DEFINE t == drive.mTimeCounter
           ring == drive.mState = "ETSUMO" /\ drive.sub # "INIT"
<1>1. t \in Nat /\ drive.gDoSonar \in BOOLEAN /\ Since(t) \in Nat /\ SonarPeriod \in Nat \ {0}
        /\ Calls \in Int /\ MaxDelay \in Nat
  BY Ages, SonarTimes DEF GateInv, Since, Calls
<1>2. SonarTypes(sonar, gSonarIsDetected) /\ called \in BOOLEAN /\ fresh \in BOOLEAN
  BY DEF SonarInv
<1>3. ring => drive.sub \in RingSubs
        /\ Held(drive, sonar, gSonarIsDetected, t - Calls, Since(t) - Calls, fresh)
  BY DEF SonarInv
<1>4. CASE OutDrive
  BY <1>4, DriveFresh
<1>5. CASE SonarLoop
  <2>1. /\ ~sonar.measures /\ sonar.due = 0
        /\ sonar' = [measures |-> drive.gDoSonar, due |-> SonarPeriod, late |-> 0]
        /\ gSonarIsDetected' = (gSonarIsDetected /\ drive.gDoSonar)
        /\ drive' = drive /\ called' = called /\ fresh' = fresh
    BY <1>5 DEF SonarLoop
  <2>2. SonarTypes(sonar', gSonarIsDetected') /\ Calls' = Calls
    BY <1>1, <1>2, <2>1 DEF SonarTypes, Calls
  <2>3. ring => Held(drive, sonar', gSonarIsDetected', t - Calls, Since(t) - Calls, fresh)
    <3> SUFFICES ASSUME ring PROVE Held(drive, sonar', gSonarIsDetected', t - Calls, Since(t) - Calls, fresh)
      OBVIOUS
    <3>1. Since(t) - Calls \in Int
      BY <1>1
    <3> QED BY <1>1, <1>2, <1>3, <2>1, <3>1, LoopHolds
  <2>4. ~OutDrive
    BY <2>1 DEF OutDrive
  <2> QED BY <1>2, <1>3, <2>1, <2>2, <2>3, <2>4 DEF SonarInv, CountsFresh
<1>6. CASE Measured
  <2>1. /\ sonar.measures /\ gSonarIsDetected' \in BOOLEAN
        /\ sonar' = [sonar EXCEPT !.measures = FALSE] /\ fresh' = drive.gDoSonar
        /\ drive' = drive /\ called' = called
    BY <1>6 DEF Measured
  <2>2. SonarTypes(sonar', gSonarIsDetected') /\ Calls' = Calls
    BY <1>2, <2>1 DEF SonarTypes, Calls
  <2>3. ring => Held(drive, sonar', gSonarIsDetected', t - Calls, Since(t) - Calls, drive.gDoSonar)
    BY <1>2, <1>3, <2>1, MeasuredHolds
  <2>4. ~OutDrive
    BY <2>1 DEF OutDrive
  <2> QED BY <1>1, <1>2, <1>3, <2>1, <2>2, <2>3, <2>4 DEF SonarInv, CountsFresh
<1>7. CASE NextTurn
  <2>1. /\ called /\ called' = FALSE /\ sonar.due > 0 /\ (sonar.measures => sonar.late < MaxDelay)
        /\ sonar' = [sonar EXCEPT !.due = @ - 1, !.late = IF sonar.measures THEN @ + 1 ELSE @]
        /\ drive' = drive /\ gSonarIsDetected' = gSonarIsDetected /\ fresh' = fresh
    BY <1>7 DEF NextTurn
  <2>6. Calls = 1 /\ Calls' = 0
    BY <2>1 DEF Calls
  <2>7. /\ sonar'.measures = sonar.measures /\ sonar'.due = sonar.due - 1
        /\ sonar'.late = IF sonar.measures THEN sonar.late + 1 ELSE sonar.late
        /\ sonar' = [measures |-> sonar'.measures, due |-> sonar'.due, late |-> sonar'.late]
    BY <1>2, <2>1 DEF SonarTypes
  <2>2. SonarTypes(sonar', gSonarIsDetected')
    BY <1>1, <1>2, <2>1, <2>7 DEF SonarTypes
  <2>3. ring => Held(drive, sonar', gSonarIsDetected', (t - 1) + 1, (Since(t) - 1) + 1, fresh)
    <3> SUFFICES ASSUME ring
                 PROVE  Held(drive, sonar', gSonarIsDetected, (t - 1) + 1, (Since(t) - 1) + 1, fresh)
      BY <2>1
    <3>1. t - 1 \in Int /\ Since(t) - 1 \in Int
      BY <1>1
    <3>2. Held(drive, sonar, gSonarIsDetected, t - 1, Since(t) - 1, fresh)
      BY <1>3, <2>6
    <3> HIDE DEF t
    <3> QED BY <1>2, <2>1, <3>1, <3>2, TurnHolds
  <2>4. (t - 1) + 1 = t - 0 /\ (Since(t) - 1) + 1 = Since(t) - 0
    BY <1>1
  <2>5. ~OutDrive
    BY <2>1 DEF OutDrive
  <2> QED BY <1>2, <1>3, <2>1, <2>2, <2>3, <2>4, <2>5, <2>6 DEF SonarInv, CountsFresh
<1> QED BY <1>4, <1>5, <1>6, <1>7 DEF OutNext

LEMMA FreshStep ==
  ASSUME CourseInv, mCourse = "Out" => SonarInv, [Next]_courseVars
  PROVE  (mCourse' = "Out" => SonarInv') /\ [mCourse = "Out" => CountsFresh]_courseVars
<1>1. CASE mCourse = "In" /\ mCourse' = mCourse
  BY <1>1
<1>2. CASE mCourse = "Out" /\ OutNext /\ mCourse' = mCourse
  BY <1>2, SonarStep DEF CourseInv
<1>3. CASE UNCHANGED courseVars
  BY <1>3 DEF courseVars, SonarInv, Calls
<1> QED BY <1>1, <1>2, <1>3 DEF Next

\* In every execution the counters of the drivers are in step with skill, lamp and collision.
THEOREM CourseKept == Spec => []CourseInv
<1>1. CourseInv /\ [Next]_courseVars => CourseInv'
  BY CourseStep
<1> QED BY CourseInit, <1>1, PTL DEF Spec

\* LookUpGateDriver goes on to roll under the gate only when the skill has come to its end.
THEOREM SeatedFirst == Spec => []SeatedBeforeTripod
<1>1. CourseInv => SeatedBeforeTripod
  BY DEF CourseInv, GateInv, SeatedBeforeTripod, SeatedUnderGate
<1> QED BY <1>1, CourseKept, PTL

\* No detector is asked about the light before lamp and history have settled.
THEOREM LightKept == Spec => LightSettled
<1>1. CourseInv /\ [Next]_courseVars => [mCourse = "In" => AsksSettledLight]_courseVars
  BY CourseStep
<1> QED BY <1>1, CourseKept, PTL DEF Spec, LightSettled

\* ETsumoDriver looks at gSonarIsDetected less often than TaskSonar measures, and only after a
\* move longer than the sonar needs to forget: it counts no measurement twice, and no old one.
THEOREM DetectionsFresh == Spec => CountsFreshDetections
<1>1. Init => CourseInv /\ (mCourse = "Out" => SonarInv)
  BY CourseInit, FreshInit
<1>2. CourseInv /\ (mCourse = "Out" => SonarInv) /\ [Next]_courseVars
        => CourseInv' /\ (mCourse = "Out" => SonarInv)'
             /\ [mCourse = "Out" => CountsFresh]_courseVars
  BY CourseStep, FreshStep
<1> QED BY <1>1, <1>2, PTL DEF Spec, CountsFreshDetections

\* The wall detector is asked before the seesaw, at the foot of the stairs, in the run-up and on
\* the first step only when the last collision has left its history; the one exception is the
\* foot of the stairs when the robot has rolled back from the second step.
THEOREM CollisionsKept == Spec => OneStepPerCollision
<1>1. CourseInv /\ [Next]_courseVars => [mCourse = "In" => AsksAfterCollision]_courseVars
  BY CourseStep
<1> QED BY <1>1, CourseKept, PTL DEF Spec, OneStepPerCollision
=================================================================================
