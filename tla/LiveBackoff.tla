----------------------------- MODULE LiveBackoff -----------------------------
(* The timing of retries: Backoff and BackoffRemaining of live_types.go, and   *)
(* the part of Reconcile (controllers/live_controller.go) that waits for them. *)
(* LiveController has the concurrency and leaves time out; here is the clock,  *)
(* one Live that is always read fresh, and a controller that takes no time of  *)
(* its own: only applies and back-off do.                                      *)
EXTENDS Live, Integers

CONSTANTS
  Duration, Factor, Cap,   \* wait.Backoff, in seconds (2, 2 and 300 in the code)
  TickSizes,               \* by how much time may pass at once
  MaxTime, MaxRetries, MaxGeneration   \* bounds

ASSUME BackoffAssumption ==
  /\ Duration \in Nat \ {0} /\ Factor \in Nat \ {0} /\ Cap \in Nat /\ Duration <= Cap
  /\ TickSizes \subseteq Nat \ {0}
  /\ MaxTime \in Nat /\ MaxRetries \in Nat /\ MaxGeneration \in Nat
  /\ None \notin Nat

VARIABLES
  live,      \* the Live
  now,       \* seconds since the start
  entry,     \* ApplyResults[name]
  queued,    \* is the Live's key in the work queue?
  wakeAt,    \* when the key is added by RequeueAfter, or None
  firstAt,   \* history: when the first apply of the reported generation began
  failedAt   \* history: when the last failure was recorded

vars == <<live, now, entry, queued, wakeAt, firstAt, failedAt>>

-----------------------------------------------------------------------------
\* wait.Backoff.Step: returns the duration and multiplies it, up to the cap.

Step(b) ==
  IF b.exhausted THEN b
  ELSE IF b.duration * Factor > Cap THEN [duration |-> Cap, exhausted |-> TRUE]
  ELSE [duration |-> b.duration * Factor, exhausted |-> FALSE]

Stepped[n \in Nat] ==
  IF n = 0 THEN [duration |-> Duration, exhausted |-> FALSE] ELSE Step(Stepped[n - 1])

\* Mutant: the loop takes one step too many.
BackoffOneMore(retries) == Stepped[retries].duration

Backoff(retries) == IF retries = 0 THEN 0 ELSE Stepped[retries - 1].duration

BackoffRemaining(l, t) ==
  LET left == IF l.ready = None THEN Backoff(l.retries)
              ELSE Backoff(l.retries) - (t - l.ready.since)
  IN  IF left > 0 THEN left ELSE 0

-----------------------------------------------------------------------------
Init ==
  /\ \E c \in Commits, i \in BOOLEAN, a \in ServiceAccounts :
       live = NewLive(1, [commit |-> c, interruptible |-> i, serviceAccountName |-> a])
  /\ now = 0 /\ entry = "none" /\ queued = TRUE
  /\ wakeAt = None /\ firstAt = None /\ failedAt = None

Edit ==
  /\ live.generation < MaxGeneration
  /\ \E c \in Commits \ {live.spec.commit} :
       LET new == [live EXCEPT !.spec.commit = c, !.generation = @ + 1]
       IN  ValidateUpdate(live, new) /\ live' = new
  /\ queued' = TRUE
  /\ UNCHANGED <<now, entry, wakeAt, firstAt, failedAt>>

\* Reconcile gets to ReconcileApply: not reconciled, and no back-off remains.
ToApply == queued /\ ~Reconciled(live) /\ BackoffRemaining(live, now) = 0

Outdated == live.ready = None \/ live.ready.observedGeneration # live.generation

Start ==
  /\ ToApply /\ entry = "none"
  /\ live' = SetPhase(live, "Applying", now)
  /\ entry' = "pending"
  /\ firstAt' = IF Outdated THEN now ELSE firstAt
  /\ UNCHANGED <<now, queued, wakeAt, failedAt>>

\* Every status update enqueues the Live again, hence queued stays TRUE.
Collect ==
  /\ ToApply /\ entry \in {"ok", "err"}
  /\ live' = SetPhase(live, IF entry = "ok" THEN "Succeeded" ELSE "Failed", now)
  /\ failedAt' = IF entry = "err" THEN now ELSE failedAt
  /\ entry' = "none"
  /\ UNCHANGED <<now, queued, wakeAt, firstAt>>

\* RequeueAfter. The delaying queue keeps the earlier of two times for a key.
WakeUp(t) == IF wakeAt = None \/ t < wakeAt THEN t ELSE wakeAt

\* Mutant: the reconcile returns, but asks for no requeue.
WaitForNothing ==
  /\ queued /\ ~Reconciled(live) /\ BackoffRemaining(live, now) > 0
  /\ queued' = FALSE
  /\ UNCHANGED <<live, now, entry, wakeAt, firstAt, failedAt>>

\* Mutant: how long to wait is mistaken for when to wake up.
WaitUntilRemaining ==
  /\ queued /\ ~Reconciled(live) /\ BackoffRemaining(live, now) > 0
  /\ wakeAt' = WakeUp(BackoffRemaining(live, now))
  /\ queued' = FALSE
  /\ UNCHANGED <<live, now, entry, firstAt, failedAt>>

Wait ==
  /\ queued /\ ~Reconciled(live) /\ BackoffRemaining(live, now) > 0
  /\ wakeAt' = WakeUp(now + BackoffRemaining(live, now))
  /\ queued' = FALSE
  /\ UNCHANGED <<live, now, entry, firstAt, failedAt>>

Rest ==
  /\ queued
  /\ Reconciled(live) \/ (ToApply /\ entry = "pending")
  /\ queued' = FALSE
  /\ UNCHANGED <<live, now, entry, wakeAt, firstAt, failedAt>>

\* kptClient.Apply takes as long as it likes.
Finish ==
  /\ entry = "pending"
  /\ entry' \in {"ok"} \cup IF live.retries < MaxRetries THEN {"err"} ELSE {}
  /\ queued' = TRUE
  /\ UNCHANGED <<live, now, wakeAt, firstAt, failedAt>>

Fire ==
  /\ wakeAt = now
  /\ wakeAt' = None /\ queued' = TRUE
  /\ UNCHANGED <<live, now, entry, firstAt, failedAt>>

\* Time passes when the controller has nothing to do, never past a timer.
Tick ==
  /\ ~queued /\ wakeAt # now
  /\ now' \in {now + d : d \in TickSizes} \cup ({wakeAt} \ {None})
  /\ now' <= MaxTime /\ (wakeAt # None => now' <= wakeAt)
  /\ UNCHANGED <<live, entry, queued, wakeAt, firstAt, failedAt>>

Next == Edit \/ Start \/ Collect \/ Wait \/ Rest \/ Finish \/ Fire \/ Tick

Spec == Init /\ [][Next]_vars

-----------------------------------------------------------------------------
\* Type correctness; a timer is never left behind in the past.
TypeOK ==
  /\ live \in Lives
  /\ now \in Nat /\ entry \in {"none", "pending", "ok", "err"} /\ queued \in BOOLEAN
  /\ wakeAt \in Nat \cup {None} /\ (wakeAt # None => now <= wakeAt)
  /\ {firstAt, failedAt} \subseteq Nat \cup {None}

\* Backoff against its reference: Duration, doubled at every retry for ever, and
\* capped only when it is asked for.
Doubled[n \in Nat] == IF n = 0 THEN Duration ELSE Doubled[n - 1] * Factor

CappedDoubling(n) ==
  IF n = 0 THEN 0 ELSE IF Doubled[n - 1] < Cap THEN Doubled[n - 1] ELSE Cap

\* The back-off of every number of retries that comes up, and of the next one,
\* is the capped doubling (live_types.go, Backoff).
BackoffDoublesUpToCap ==
  \A n \in 0 .. live.retries + 1 : Backoff(n) = CappedDoubling(n)

\* A Live that failed and is at rest is on a timer that retries it at most Cap
\* after the failure, also when its spec was edited in the meantime.
RetryIsTimely ==
  (live.ready # None /\ live.ready.reason = "Failed" /\ ~queued) =>
    wakeAt # None /\ wakeAt <= failedAt + Cap

\* A success does not reset the retries, and what they are delays the generation
\* after it: a Live that was edited since and is at rest is on a timer that has it
\* applied at most Cap after the success (live_types.go, SetPhase).
EditIsTimely ==
  (live.ready # None /\ live.ready.status /\ ~Reconciled(live) /\ ~queued) =>
    wakeAt # None /\ wakeAt <= live.ready.since + Cap

\* The n-th retry of a generation starts no sooner than Backoff(n) after the
\* first attempt at that generation.
RetriesArePaced ==
  [][(entry = "none" /\ entry' = "pending" /\ ~Outdated) =>
       now >= firstAt + Backoff(live.retries)]_vars
=============================================================================
