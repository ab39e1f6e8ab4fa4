------------------------- MODULE LiveBackoffProofs --------------------------
(* Retries, for any durations, factors, caps and ticks: that the loop in      *)
(* Backoff computes the capped doubling, that a failed or edited Live is on a *)
(* timer in time, and that retries keep their distance.                       *)
EXTENDS LiveBackoff, Iteration

-----------------------------------------------------------------------------
\* The loop in Backoff. Its states:
Steps == [duration : 0..Cap, exhausted : BOOLEAN]
First == [duration |-> Duration, exhausted |-> FALSE]

LEMMA StepStays ==
  First \in Steps /\ \A b \in Steps : Step(b) \in Steps
<1>1. First \in Steps
  BY BackoffAssumption DEF First, Steps
<1>2. ASSUME NEW b \in Steps PROVE Step(b) \in Steps
  <2>1. b.duration \in Nat /\ b.duration * Factor \in Nat /\ Cap \in Nat
    BY BackoffAssumption DEF Steps
  <2> DEFINE d == b.duration * Factor
  <2> HIDE DEF d
  <2>2. d > Cap \/ d \in 0..Cap
    BY <2>1 DEF d
  <2>3. Step(b) = b \/ Step(b) = [duration |-> Cap, exhausted |-> TRUE]
        \/ (d \in 0..Cap /\ Step(b) = [duration |-> d, exhausted |-> FALSE])
    BY <2>1, <2>2 DEF Step, d
  <2>4. Cap \in 0..Cap
    BY <2>1
  <2>5. [duration |-> Cap, exhausted |-> TRUE] \in Steps
    BY <2>4 DEF Steps
  <2>6. d \in 0..Cap => [duration |-> d, exhausted |-> FALSE] \in Steps
    BY DEF Steps
  <2>7. QED
    BY <2>3, <2>5, <2>6
<1>3. QED
  BY <1>1, <1>2

\* The recursion has a solution, so Stepped is one.
LEMMA SteppedIs ==
  /\ Stepped[0] = First
  /\ \A n \in Nat : Stepped[n + 1] = Step(Stepped[n])
<1> DEFINE step == [b \in Steps |-> Step(b)]
<1>1. step \in [Steps -> Steps] /\ First \in Steps
  BY StepStays
<1>2. PICK f \in [Nat -> Steps] : f[0] = First /\ \A n \in Nat \ {0} : f[n] = step[f[n - 1]]
  <2> HIDE DEF step
  <2>1. QED
    BY <1>1, IterationExists
<1>3. ASSUME NEW n \in Nat, n # 0 PROVE f[n] = Step(f[n - 1])
  <2>1. n - 1 \in Nat
    BY <1>3
  <2>2. QED
    BY <1>2, <1>3, <2>1
<1>4. f = [n \in Nat |-> IF n = 0 THEN First ELSE Step(f[n - 1])]
  BY <1>2, <1>3
<1>5. Stepped = CHOOSE s : s = [n \in Nat |-> IF n = 0 THEN First ELSE Step(s[n - 1])]
  BY DEF Stepped, First
<1>6. Stepped = [n \in Nat |-> IF n = 0 THEN First ELSE Step(Stepped[n - 1])]
  BY <1>4, <1>5
<1> HIDE DEF Stepped
<1>7. QED
  BY <1>6

LEMMA DoubledIs ==
  /\ Doubled[0] = Duration
  /\ \A n \in Nat : Doubled[n + 1] = Doubled[n] * Factor
<1> DEFINE N == Nat
           step == [d \in N |-> d * Factor]
<1>1. step \in [N -> N] /\ Duration \in N
  BY BackoffAssumption
<1>2. PICK f \in [Nat -> Nat] : f[0] = Duration /\ \A n \in Nat \ {0} : f[n] = step[f[n - 1]]
  <2> HIDE DEF step
  <2> HIDE DEF N
  <2>1. \E f \in [Nat -> N] : f[0] = Duration /\ \A n \in Nat \ {0} : f[n] = step[f[n - 1]]
    BY <1>1, IterationExists
  <2>2. QED
    BY <2>1 DEF N
<1>3. ASSUME NEW n \in Nat, n # 0 PROVE f[n] = f[n - 1] * Factor
  <2>1. n - 1 \in Nat
    BY <1>3
  <2>2. QED
    BY <1>2, <1>3, <2>1
<1>4. f = [n \in Nat |-> IF n = 0 THEN Duration ELSE f[n - 1] * Factor]
  BY <1>2, <1>3
<1>5. Doubled = [n \in Nat |-> IF n = 0 THEN Duration ELSE Doubled[n - 1] * Factor]
  BY <1>4 DEF Doubled
<1> HIDE DEF Doubled
<1>6. QED
  BY <1>5

LEMMA FactorGrows ==
  ASSUME NEW d \in Nat
  PROVE  d * Factor \in Nat /\ d <= d * Factor
<1>1. PICK g \in Nat : Factor = g + 1
  <2>1. Factor - 1 \in Nat /\ Factor = (Factor - 1) + 1
    BY BackoffAssumption
  <2>2. QED
    BY <2>1
<1>2. d * (g + 1) = d * g + d /\ d * g \in Nat
  OBVIOUS
<1>3. QED
  BY <1>1, <1>2

\* The loop stops at the cap exactly when the doubling passes it.
LEMMA SteppedIsDoubled ==
  \A n \in Nat :
    /\ Doubled[n] \in Nat
    /\ Stepped[n] = IF Doubled[n] <= Cap
                    THEN [duration |-> Doubled[n], exhausted |-> FALSE]
                    ELSE [duration |-> Cap, exhausted |-> TRUE]
<1> DEFINE S == {n \in Nat :
              /\ Doubled[n] \in Nat
              /\ Stepped[n] = IF Doubled[n] <= Cap
                              THEN [duration |-> Doubled[n], exhausted |-> FALSE]
                              ELSE [duration |-> Cap, exhausted |-> TRUE]}
<1>1. 0 \in S
  BY SteppedIs, DoubledIs, BackoffAssumption DEF First
<1>2. ASSUME NEW n \in Nat, n \in S PROVE n + 1 \in S
  <2> DEFINE d == Doubled[n]
             e == d * Factor
  <2>1. d \in Nat /\ e \in Nat /\ d <= e /\ Cap \in Nat
    BY <1>2, FactorGrows, BackoffAssumption
  <2>2. Doubled[n + 1] = e /\ Stepped[n + 1] = Step(Stepped[n])
    BY SteppedIs, DoubledIs
  <2>3. Stepped[n] = IF d <= Cap THEN [duration |-> d, exhausted |-> FALSE]
                                 ELSE [duration |-> Cap, exhausted |-> TRUE]
    BY <1>2
  <2> HIDE DEF d
  <2>4. Step(Stepped[n]) = IF e <= Cap THEN [duration |-> e, exhausted |-> FALSE]
                                       ELSE [duration |-> Cap, exhausted |-> TRUE]
    <3>1. CASE d <= Cap
      <4>1. Step(Stepped[n]) = IF e > Cap THEN [duration |-> Cap, exhausted |-> TRUE]
                                          ELSE [duration |-> e, exhausted |-> FALSE]
        BY <2>3, <3>1 DEF Step
      <4> HIDE DEF e
      <4>2. QED
        BY <2>1, <4>1
    <3>2. CASE ~ (d <= Cap)
      <4>1. Step(Stepped[n]) = [duration |-> Cap, exhausted |-> TRUE]
        BY <2>3, <3>2 DEF Step
      <4> HIDE DEF e
      <4>2. QED
        BY <2>1, <3>2, <4>1
    <3>3. QED
      BY <3>1, <3>2
  <2> HIDE DEF e
  <2>5. /\ n + 1 \in Nat /\ Doubled[n + 1] \in Nat
        /\ Stepped[n + 1] = IF Doubled[n + 1] <= Cap
                            THEN [duration |-> Doubled[n + 1], exhausted |-> FALSE]
                            ELSE [duration |-> Cap, exhausted |-> TRUE]
    BY <2>1, <2>2, <2>4
  <2>6. QED
    BY <2>5
<1>3. Nat \subseteq S
  <2> HIDE DEF S
  <2>1. QED
    BY <1>1, <1>2, SetInduction
<1>4. QED
  BY <1>3

\* Backoff is the capped doubling, for any number of retries.
LEMMA BackoffIsCappedDoubling == \A n \in Nat : Backoff(n) = CappedDoubling(n)
<1> SUFFICES ASSUME NEW n \in Nat, n # 0 PROVE Backoff(n) = CappedDoubling(n)
  BY DEF Backoff, CappedDoubling
<1>1. n - 1 \in Nat
  OBVIOUS
<1>2. /\ Doubled[n - 1] \in Nat
      /\ Stepped[n - 1] = IF Doubled[n - 1] <= Cap
                          THEN [duration |-> Doubled[n - 1], exhausted |-> FALSE]
                          ELSE [duration |-> Cap, exhausted |-> TRUE]
  BY <1>1, SteppedIsDoubled
<1>3. QED
  BY <1>2, BackoffAssumption DEF Backoff, CappedDoubling

\* The back-off is never above its cap.
LEMMA BackoffIsCapped == \A n \in Nat : Backoff(n) \in 0..Cap
<1> SUFFICES ASSUME NEW n \in Nat PROVE CappedDoubling(n) \in 0..Cap
  BY BackoffIsCappedDoubling
<1>1. n # 0 => n - 1 \in Nat
  OBVIOUS
<1>2. n # 0 => Doubled[n - 1] \in Nat
  BY <1>1, SteppedIsDoubled
<1>3. QED
  BY <1>2, BackoffAssumption DEF CappedDoubling

-----------------------------------------------------------------------------

\* Transition times are in the past, and only a success makes a Live Ready.
StatusFacts ==
  live.ready # None =>
    /\ live.ready.since <= now
    /\ live.ready.status <=> live.ready.reason = "Succeeded"

\* An entry is of an apply that was announced and has not been reported.
EntryMeansApplying == entry # "none" => IsApplying(live)

\* A failure leaves the transition time where the attempts at the generation began.
SinceFirst == live.ready # None /\ ~live.ready.status => live.ready.since = firstAt

FailedBefore ==
  live.ready # None /\ live.ready.reason = "Failed" =>
    failedAt # None /\ live.ready.since <= failedAt

BInv ==
  /\ TypeOK /\ StatusFacts /\ EntryMeansApplying /\ SinceFirst /\ FailedBefore
  /\ RetryIsTimely /\ EditIsTimely

-----------------------------------------------------------------------------
\* SetPhase, and when it moves the transition time.
LEMMA SetPhaseTimes ==
  ASSUME NEW l \in Lives, NEW phase \in Phases, NEW t \in Nat
  PROVE  LET new == SetPhase(l, phase, t) IN
         /\ new \in Lives /\ new.ready # None
         /\ new.ready.reason = phase /\ new.ready.status = (phase = "Succeeded")
         /\ new.ready.since =
              IF \/ l.ready = None
                 \/ phase = "Applying" /\ l.ready.observedGeneration # l.generation
                 \/ l.ready.status # (phase = "Succeeded")
              THEN t ELSE l.ready.since
<1> DEFINE outdated == /\ phase = "Applying"
                       /\ l.ready # None
                       /\ l.ready.observedGeneration # l.generation
           status   == phase = "Succeeded"
           flips    == l.ready = None \/ outdated \/ l.ready.status # status
           retries  == IF outdated THEN 0 ELSE l.retries
           since    == IF flips THEN t ELSE l.ready.since
           ready    == [status |-> status, reason |-> phase,
                        observedGeneration |-> l.generation, since |-> since]
           kept     == IF phase = "Failed" THEN retries + 1 ELSE retries
<1>1. SetPhase(l, phase, t) = [l EXCEPT !.ready = ready, !.retries = kept]
  BY DEF SetPhase
<1>2. since \in Nat
  BY DEF Lives, Conditions
<1>3. l.generation \in Nat /\ kept \in Nat
  BY DEF Lives
<1>4. since = IF \/ l.ready = None
                 \/ phase = "Applying" /\ l.ready.observedGeneration # l.generation
                 \/ l.ready.status # (phase = "Succeeded")
              THEN t ELSE l.ready.since
  OBVIOUS
<1> HIDE DEF since, kept
<1>5. ready \in Conditions
  BY <1>2, <1>3 DEF Conditions
<1>6. ready.reason = phase /\ ready.status = (phase = "Succeeded") /\ ready.since = since
  OBVIOUS
<1> HIDE DEF ready
<1>7. [l EXCEPT !.ready = ready, !.retries = kept] \in Lives
  BY <1>3, <1>5 DEF Lives
<1>8. [l EXCEPT !.ready = ready, !.retries = kept].ready = ready
  BY DEF Lives
<1>9. QED
  BY <1>1, <1>4, <1>5, <1>6, <1>7, <1>8, NoneAssumption

\* What a start does to the Live: only an outdated condition or a success moves
\* the transition time.
LEMMA StartTimes ==
  ASSUME NEW l \in Lives, NEW t \in Nat
  PROVE  LET new == SetPhase(l, "Applying", t) IN
         /\ new \in Lives /\ new.ready # None
         /\ new.ready.reason = "Applying" /\ ~new.ready.status
         /\ l.ready = None \/ l.ready.observedGeneration # l.generation =>
              new.ready.since = t
         /\ l.ready # None /\ l.ready.observedGeneration = l.generation /\ ~l.ready.status =>
              new.ready.since = l.ready.since
<1>1. PICK phase \in Phases : phase = "Applying"
  BY DEF Phases
<1> DEFINE new == SetPhase(l, phase, t)
<1>2. /\ new \in Lives /\ new.ready # None
      /\ new.ready.reason = phase /\ new.ready.status = (phase = "Succeeded")
      /\ new.ready.since =
           IF \/ l.ready = None
              \/ phase = "Applying" /\ l.ready.observedGeneration # l.generation
              \/ l.ready.status # (phase = "Succeeded")
           THEN t ELSE l.ready.since
  BY SetPhaseTimes
<1>3. l.ready # None => l.ready.status \in BOOLEAN
  BY DEF Lives, Conditions
<1> HIDE DEF new
<1>4. (phase = "Succeeded") = FALSE
  BY <1>1
<1>5. ~new.ready.status
  BY <1>2, <1>4
<1>6. /\ l.ready = None \/ l.ready.observedGeneration # l.generation =>
           new.ready.since = t
      /\ l.ready # None /\ l.ready.observedGeneration = l.generation /\ ~l.ready.status =>
           new.ready.since = l.ready.since
  BY <1>1, <1>2, <1>3, <1>4
<1>7. QED
  BY <1>1, <1>2, <1>5, <1>6 DEF new

\* What a result does: a success moves it, a failure does not.
LEMMA CollectTimes ==
  ASSUME NEW l \in Lives, NEW phase \in {"Succeeded", "Failed"}, NEW t \in Nat,
         l.ready # None, ~l.ready.status
  PROVE  LET new == SetPhase(l, phase, t) IN
         /\ new \in Lives /\ new.ready # None
         /\ new.ready.reason = phase /\ new.ready.status = (phase = "Succeeded")
         /\ new.ready.since = IF phase = "Succeeded" THEN t ELSE l.ready.since
<1>1. phase \in Phases /\ phase # "Applying"
  BY DEF Phases
<1> DEFINE new == SetPhase(l, phase, t)
<1>2. /\ new \in Lives /\ new.ready # None
      /\ new.ready.reason = phase /\ new.ready.status = (phase = "Succeeded")
      /\ new.ready.since =
           IF \/ l.ready = None
              \/ phase = "Applying" /\ l.ready.observedGeneration # l.generation
              \/ l.ready.status # (phase = "Succeeded")
           THEN t ELSE l.ready.since
  BY <1>1, SetPhaseTimes
<1>3. l.ready.status = FALSE
  BY DEF Lives, Conditions
<1> HIDE DEF new
<1>4. new.ready.since = IF phase = "Succeeded" THEN t ELSE l.ready.since
  BY <1>1, <1>2, <1>3
<1>5. QED
  BY <1>2, <1>4 DEF new

\* How long there is to wait, when there is.
LEMMA RemainingFacts ==
  ASSUME TypeOK
  PROVE  /\ BackoffRemaining(live, now) \in Nat
         /\ BackoffRemaining(live, now) > 0 /\ live.ready # None =>
              now + BackoffRemaining(live, now) <= live.ready.since + Cap
         /\ BackoffRemaining(live, now) = 0 /\ live.ready # None =>
              now >= live.ready.since + Backoff(live.retries)
<1>1. /\ Backoff(live.retries) \in Nat /\ Backoff(live.retries) <= Cap /\ Cap \in Nat
  BY BackoffAssumption, BackoffIsCapped DEF TypeOK, Lives
<1>2. now \in Nat /\ (live.ready # None => live.ready.since \in Nat)
  BY DEF TypeOK, Lives, Conditions
<1>3. QED
  BY <1>1, <1>2 DEF BackoffRemaining

LEMMA InitBackoff == Init => BInv
<1> SUFFICES ASSUME Init PROVE BInv
  OBVIOUS
<1>1. PICK spec \in Specs : live = NewLive(1, spec)
  BY DEF Init, Specs
<1>2. live \in Lives /\ live.ready = None
  BY <1>1 DEF NewLive, Lives
<1>3. QED
  BY <1>2 DEF Init, BInv, TypeOK, StatusFacts, EntryMeansApplying, SinceFirst, FailedBefore,
     RetryIsTimely, EditIsTimely

LEMMA BackoffStep ==
  ASSUME BInv, [Next]_vars
  PROVE  BInv'
<1>0. /\ live \in Lives /\ now \in Nat /\ queued \in BOOLEAN
      /\ live.ready # None => live.ready \in Conditions /\ live.ready.since \in Nat
  BY DEF BInv, TypeOK, Lives, Conditions
<1>a. None \notin Nat
  BY BackoffAssumption
<1> USE DEF BInv, TypeOK, StatusFacts, EntryMeansApplying, SinceFirst, FailedBefore, RetryIsTimely,
        EditIsTimely
<1>1. CASE Edit
  <2>1. PICK c \in Commits :
          live' = [live EXCEPT !.spec.commit = c, !.generation = @ + 1]
    BY <1>1 DEF Edit
  <2>2. [live.spec EXCEPT !.commit = c] \in Specs /\ live.generation + 1 \in Nat
    BY <1>0 DEF Lives, Specs
  <2>3. live' = [live EXCEPT !.spec = [live.spec EXCEPT !.commit = c],
                             !.generation = live.generation + 1]
    BY <2>1
  <2>4. live' \in Lives /\ live'.ready = live.ready
    BY <1>0, <2>2, <2>3 DEF Lives
  <2>5. queued' /\ UNCHANGED <<now, entry, wakeAt, firstAt, failedAt>>
    BY <1>1 DEF Edit
  <2>6. QED
    BY <2>4, <2>5 DEF IsApplying
<1>2. CASE Start
  <2>1. /\ live' = SetPhase(live, "Applying", now)
        /\ UNCHANGED <<now, queued, wakeAt, failedAt>> /\ entry' = "pending" /\ queued
        /\ firstAt' = IF Outdated THEN now ELSE firstAt
    BY <1>2 DEF Start, ToApply
  <2>2. ~Outdated => /\ live.ready # None /\ live.ready.observedGeneration = live.generation
                     /\ ~live.ready.status
    BY <1>2 DEF Start, ToApply, Reconciled, Outdated
  <2>3. /\ live' \in Lives /\ live'.ready # None
        /\ live'.ready.reason = "Applying" /\ ~live'.ready.status
        /\ Outdated => live'.ready.since = now
        /\ ~Outdated => live'.ready.since = live.ready.since
    BY <1>0, <2>1, <2>2, StartTimes DEF Outdated
  <2>4. live'.ready.since = firstAt' /\ live'.ready.since <= now
    BY <1>0, <2>1, <2>2, <2>3
  <2>5. firstAt' \in Nat \cup {None}
    BY <1>0, <2>1
  <2>6. live'.ready.reason # "Succeeded" /\ live'.ready.reason # "Failed"
    BY <2>3
  <2>7. QED
    BY <2>1, <2>3, <2>4, <2>5, <2>6 DEF IsApplying
<1>3. CASE Collect
  <2>1. PICK phase \in {"Succeeded", "Failed"} :
          /\ live' = SetPhase(live, phase, now)
          /\ failedAt' = IF phase = "Failed" THEN now ELSE failedAt
    BY <1>3 DEF Collect
  <2>2. live.ready # None /\ ~live.ready.status
    BY <1>3 DEF Collect, IsApplying
  <2>3. /\ live' \in Lives /\ live'.ready # None
        /\ live'.ready.reason = phase /\ live'.ready.status = (phase = "Succeeded")
        /\ live'.ready.since = IF phase = "Succeeded" THEN now ELSE live.ready.since
    BY <1>0, <2>1, <2>2, CollectTimes
  <2>4. UNCHANGED <<now, queued, wakeAt, firstAt>> /\ entry' = "none" /\ queued
    BY <1>3 DEF Collect, ToApply
  <2>5. live'.ready.since <= now
    BY <1>0, <2>2, <2>3
  <2>6. ~live'.ready.status => live'.ready.since = firstAt'
    BY <2>2, <2>3, <2>4
  <2>7. live'.ready.reason = "Failed" => failedAt' # None /\ live'.ready.since <= failedAt'
    BY <1>0, <1>a, <2>1, <2>3, <2>5
  <2>8. failedAt' \in Nat \cup {None}
    BY <1>0, <2>1
  <2>9. live'.ready.status <=> live'.ready.reason = "Succeeded"
    BY <2>3
  <2>10. QED
    BY <2>3, <2>4, <2>5, <2>6, <2>7, <2>8, <2>9
<1>4. CASE Wait
  <2> DEFINE t == now + BackoffRemaining(live, now)
  <2>1. t \in Nat /\ t > now /\ (live.ready # None => t <= live.ready.since + Cap)
    BY <1>0, <1>4, RemainingFacts DEF Wait
  <2>2. wakeAt' = IF wakeAt = None \/ t < wakeAt THEN t ELSE wakeAt
    BY <1>4 DEF Wait, WakeUp
  <2>3. UNCHANGED <<live, now, entry, firstAt, failedAt>> /\ queued' = FALSE
    BY <1>4 DEF Wait
  <2> HIDE DEF t
  <2>4. wakeAt' \in Nat /\ wakeAt' # None /\ now <= wakeAt' /\ wakeAt' <= t
    BY <1>0, <1>a, <2>1, <2>2
  <2>5. live.ready # None /\ live.ready.reason = "Failed" => wakeAt' <= failedAt + Cap
    BY <1>0, <2>1, <2>4, BackoffAssumption
  <2>6. live.ready # None => wakeAt' <= live.ready.since + Cap
    BY <1>0, <2>1, <2>4, BackoffAssumption
  <2>7. QED
    BY <2>3, <2>4, <2>5, <2>6
<1>5. CASE Rest
  <2>1. /\ ~(live.ready # None /\ live.ready.reason = "Failed")
        /\ ~(live.ready # None /\ live.ready.status /\ ~Reconciled(live))
    BY <1>5 DEF Rest, Reconciled, IsApplying
  <2>2. QED
    BY <1>5, <2>1 DEF Rest
<1>6. CASE Finish
  BY <1>6 DEF Finish
<1>7. CASE Fire
  BY <1>7 DEF Fire
<1>8. CASE Tick
  <2>1. now' \in Nat /\ now' >= now /\ (wakeAt # None => now' <= wakeAt)
    BY <1>0, <1>8, BackoffAssumption DEF Tick
  <2>2. QED
    BY <1>0, <1>8, <2>1 DEF Tick
<1>9. CASE UNCHANGED vars
  BY <1>9 DEF vars
<1>10. QED
  BY <1>1, <1>2, <1>3, <1>4, <1>5, <1>6, <1>7, <1>8, <1>9 DEF Next

LEMMA BackoffInvariance == Spec => []BInv
<1>1. BInv /\ [Next]_vars => BInv'
  BY BackoffStep
<1>2. QED
  BY InitBackoff, <1>1, PTL DEF Spec

\* Type correctness, and no timer in the past.
THEOREM TypeCorrect == Spec => []TypeOK
BY BackoffInvariance, PTL DEF BInv

\* A failed Live at rest is on a timer that is due by Cap after the failure.
THEOREM RetriedInTime == Spec => []RetryIsTimely
BY BackoffInvariance, PTL DEF BInv

\* A Live that was edited since its last success and is at rest is on a timer that
\* is due by Cap after the success, whatever Retries the success left.
THEOREM EditedInTime == Spec => []EditIsTimely
BY BackoffInvariance, PTL DEF BInv

\* No retry comes earlier after the first attempt than the back-off says.
THEOREM Paced == Spec => RetriesArePaced
<1> DEFINE Kept ==
      entry = "none" /\ entry' = "pending" /\ ~Outdated => now >= firstAt + Backoff(live.retries)
<1>1. BInv /\ [Next]_vars => [Kept]_vars
  <2> SUFFICES ASSUME BInv, Next, entry = "none", entry' = "pending", ~Outdated
               PROVE  now >= firstAt + Backoff(live.retries)
    BY DEF vars
  <2>1. Start
    BY DEF Next, Edit, Collect, Wait, Rest, Finish, Fire, Tick
  <2>2. live.ready # None /\ ~live.ready.status /\ BackoffRemaining(live, now) = 0
    BY <2>1 DEF Start, ToApply, Reconciled, Outdated
  <2>3. QED
    BY <2>2, RemainingFacts DEF BInv, SinceFirst
<1>2. QED
  BY BackoffInvariance, <1>1, PTL DEF Spec, RetriesArePaced

\* The back-off that the controller waits for is the doubled duration, up to the
\* cap, for every number of retries that comes up (live_types.go, Backoff).
THEOREM DoublesUpToCap == Spec => []BackoffDoublesUpToCap
<1>1. BInv => BackoffDoublesUpToCap
  <2> SUFFICES ASSUME BInv, NEW n \in 0 .. live.retries + 1
               PROVE  Backoff(n) = CappedDoubling(n)
    BY DEF BackoffDoublesUpToCap
  <2>1. live.retries \in Nat
    BY DEF BInv, TypeOK, Lives
  <2>2. n \in Nat
    BY <2>1
  <2>3. QED
    BY <2>2, BackoffIsCappedDoubling
<1>2. QED
  BY BackoffInvariance, <1>1, PTL
=============================================================================
