------------------------- MODULE ConcurrencyLimiter -------------------------
(***************************************************************************)
(* The first-in-first-out limiter every SPARQL request of the app passes   *)
(* through (concurrency-limiter.ts).  A caller runs synchronously up to    *)
(* its first await: it either takes a slot and starts its task, or parks a *)
(* resolver in `waiting'.  A settling task hands its slot to the oldest    *)
(* parked resolver; the resolved caller resumes later, in a microtask.     *)
(***************************************************************************)
EXTENDS Naturals, Sequences, FiniteSets

CONSTANTS
  Callers,   \* concurrent users of the limiter, each with one task at a time
  limit      \* the argument of createConcurrencyLimiter

ASSUME CallersAssumption == IsFiniteSet(Callers)
ASSUME LimitAssumption == limit \in Nat

\* Math.max(1, Math.floor(limit)): a limit of 0 still runs one task.
MaxActive == IF limit < 1 THEN 1 ELSE limit

VARIABLES
  active,    \* the counter `active': slots taken
  waiting,   \* the parked resolvers, oldest first
  stage      \* where each caller is: idle, queued, granted (resolved, not resumed), running

limiterVars == <<active, waiting, stage>>

LimiterInit ==
  /\ active = 0
  /\ waiting = << >>
  /\ stage = [c \in Callers |-> "idle"]

\* Mutant of Release: the slot is handed over and given back as well.
Release_Twice(c) ==
  /\ active' = active - 1
  /\ waiting' = IF waiting # << >> THEN Tail(waiting) ELSE waiting
  /\ stage' = IF waiting # << >>
           THEN [stage EXCEPT ![c] = "idle", ![Head(waiting)] = "granted"]
           ELSE [stage EXCEPT ![c] = "idle"]

\* Mutant of Release: the slot is given back and nobody is woken.
Release_WakesNobody(c) ==
  /\ active' = active - 1
  /\ stage' = [stage EXCEPT ![c] = "idle"]
  /\ UNCHANGED waiting

\* release(): hand the slot to the oldest waiter, or give it back.
Release(c) ==
  IF waiting # << >>
  THEN /\ waiting' = Tail(waiting)
       /\ stage' = [stage EXCEPT ![c] = "idle", ![Head(waiting)] = "granted"]
       /\ UNCHANGED active
  ELSE /\ active' = active - 1
       /\ stage' = [stage EXCEPT ![c] = "idle"]
       /\ UNCHANGED waiting

\* run(task) with every slot taken: park behind the earlier waiters.
Queue(c) ==
  /\ stage[c] = "idle"
  /\ active >= MaxActive
  /\ waiting' = Append(waiting, c)
  /\ stage' = [stage EXCEPT ![c] = "queued"]
  /\ UNCHANGED active

\* run(task) with a free slot: take it and start the task.  A task that throws
\* synchronously starts and settles in one turn: Start(c), then Settle(c).
Start(c) ==
  /\ stage[c] = "idle"
  /\ active < MaxActive
  /\ active' = active + 1
  /\ stage' = [stage EXCEPT ![c] = "running"]
  /\ UNCHANGED waiting

\* The await of a resolved waiter returns and its task starts.
Resume(c) ==
  /\ stage[c] = "granted"
  /\ stage' = [stage EXCEPT ![c] = "running"]
  /\ UNCHANGED <<active, waiting>>

\* The task resolves, rejects or throws: the `finally' releases in each case.
Settle(c) ==
  /\ stage[c] = "running"
  /\ Release(c)

LimiterNext == \E c \in Callers : Queue(c) \/ Start(c) \/ Resume(c) \/ Settle(c)

\* The event loop resumes every resolved await, and a request settles in the end
\* (fetch resolves or rejects).
LimiterFairness == \A c \in Callers : WF_limiterVars(Resume(c)) /\ WF_limiterVars(Settle(c))

LimiterSpec == LimiterInit /\ [][LimiterNext]_limiterVars /\ LimiterFairness
-----------------------------------------------------------------------------
\* The callers that hold a slot, whether or not their task has resumed yet.
Holders == {c \in Callers : stage[c] \in {"granted", "running"}}

\* Types: every variable of the limiter stays in its domain.
LimiterTypeOK ==
  /\ active \in Nat
  /\ waiting \in Seq(Callers)
  /\ stage \in [Callers -> {"idle", "queued", "granted", "running"}]

\* No slot leaks and none is handed out twice: the counter is exactly the number of
\* slot holders, and never exceeds the limit (`a failure never leaks a slot').
SlotsAccounted ==
  /\ active = Cardinality(Holders)
  /\ active <= MaxActive

\* The queue is exactly the parked callers, each once, and they only wait while every
\* slot is taken: a queued request never sits beside a free slot.
QueueOnlyWhenFull ==
  /\ \A c \in Callers : stage[c] = "queued" <=> \E i \in 1..Len(waiting) : waiting[i] = c
  /\ \A i, j \in 1..Len(waiting) : waiting[i] = waiting[j] => i = j
  /\ waiting # << >> => active = MaxActive

\* A newcomer never takes a slot while an earlier caller is still parked (the slot is
\* handed over, never put back for whoever comes first).
NoOvertaking ==
  [][\A c, d \in Callers :
       (stage[c] = "queued" /\ stage[d] = "idle" /\ stage'[d] \in {"granted", "running"})
         => stage'[c] # "queued"]_limiterVars

\* Every parked request starts in the end, however many callers keep coming back.
EveryWaiterRuns == \A c \in Callers : (stage[c] = "queued") ~> (stage[c] = "running")
=============================================================================
