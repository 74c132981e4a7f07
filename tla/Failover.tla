------------------------------ MODULE Failover ------------------------------
(***************************************************************************)
(* FailoverEngine (llm_engines/router.py): engines in priority order, each *)
(* behind a circuit breaker, and calls that generate, stream or embed with *)
(* the first engine that can.  Calls may overlap: a stream is a generator  *)
(* its consumer resumes between other calls, and nothing keeps the object  *)
(* from being shared by threads.                                           *)
(*                                                                         *)
(* A cooldown is a flag that is cleared at some later time; messages, the  *)
(* cloud rewriting of prompts and capabilities other than streaming and    *)
(* embedding are left out.  An engine's answer or error is its own step.   *)
(***************************************************************************)
EXTENDS Integers, FiniteSetsExt

CONSTANTS
  Callers,
  Engines,          \* numbered by priority
  Eligible,         \* the engines the cloud setting of the policy admits
  Streaming, Embedding,
  MaxAttempts, BreakerFailures, TransientRetry, ReduceOnOom,
  Asked, MinTokens  \* a request's max_tokens and the policy's floor

ASSUME EnginesAssumption ==
  Engines \in SUBSET Nat /\ IsFiniteSet(Engines) /\ Eligible \subseteq Engines /\ Streaming \subseteq Engines /\ Embedding \subseteq Engines
ASSUME PolicyAssumption ==
  /\ MaxAttempts \in Nat \ {0} /\ BreakerFailures \in Nat \ {0}
  /\ TransientRetry \in BOOLEAN /\ ReduceOnOom \in BOOLEAN
  /\ Asked \in Nat /\ MinTokens \in Nat

VARIABLES
  failures, cooling,  \* each engine's _EngineHealth
  call,     \* where each caller is, the engines it still has, attempts, max_tokens
  seen,     \* history: the engines a call found healthy
  tried,    \* history: those that have failed it
  calls,    \* history: how often a call has had an engine generate
  bad,      \* history: an engine's failures since it last answered, up to BreakerFailures
  tripper,  \* history: who opened the breaker of an engine that is cooling down
  blamed    \* history: the callers whose call counted an out-of-memory error

health == <<failures, cooling, bad, tripper>>
course == <<seen, tried, calls, blamed>>
failoverVars == <<health, call, course>>

\* What _classify tells apart; not_found, context and unknown fare alike.
Errors == {"transient", "oom", "other"}
Places == {"rest", "generate", "retry", "stream", "fallback", "embed", "answered", "failed"}
Calling == {"generate", "retry", "stream", "embed"}

Fresh(at, engines) == [at |-> at, todo |-> engines, attempts |-> 0, tokens |-> Asked]

FailoverInit ==
  /\ failures = [e \in Engines |-> 0] /\ cooling = [e \in Engines |-> FALSE]
  /\ call = [c \in Callers |-> Fresh("rest", {})]
  /\ seen = [c \in Callers |-> {}] /\ tried = [c \in Callers |-> {}] /\ calls = [c \in Callers |-> 0]
  /\ bad = [e \in Engines |-> 0] /\ tripper = [e \in Engines |-> {}] /\ blamed = {}

-----------------------------------------------------------------------------
(* Health.                                                                 *)

Healthy == {e \in Eligible : ~cooling[e]}

\* Mutant: the engines are tried from the last.
CurrentLast(c) == Max(call[c].todo)

Current(c) == Min(call[c].todo)

\* _EngineHealth.record_success, for all of E.
Succeeded(E) ==
  /\ failures' = [e \in Engines |-> IF e \in E THEN 0 ELSE failures[e]]
  /\ cooling' = [e \in Engines |-> cooling[e] /\ e \notin E]
  /\ bad' = [e \in Engines |-> IF e \in E THEN 0 ELSE bad[e]]
  /\ tripper' = [e \in Engines |-> IF e \in E THEN {} ELSE tripper[e]]

Worse(e) == bad' = [bad EXCEPT ![e] = Min({@ + 1, BreakerFailures})]

\* Mutant: the breaker opens one failure early.
FailedEarly(c, e) ==
  LET trips == failures[e] + 2 >= BreakerFailures IN
    /\ failures' = [failures EXCEPT ![e] = IF trips THEN 0 ELSE @ + 1]
    /\ cooling' = [cooling EXCEPT ![e] = @ \/ trips]
    /\ tripper' = IF trips THEN [tripper EXCEPT ![e] = {c}] ELSE tripper
    /\ Worse(e)

\* _EngineHealth.record_failure, on behalf of c.
Failed(c, e) ==
  LET trips == failures[e] + 1 >= BreakerFailures IN
    /\ failures' = [failures EXCEPT ![e] = IF trips THEN 0 ELSE @ + 1]
    /\ cooling' = [cooling EXCEPT ![e] = @ \/ trips]
    /\ tripper' = IF trips THEN [tripper EXCEPT ![e] = {c}] ELSE tripper
    /\ Worse(e)

CooldownEnds(e) ==
  /\ cooling[e]
  /\ cooling' = [cooling EXCEPT ![e] = FALSE]
  /\ tripper' = [tripper EXCEPT ![e] = {}]
  /\ UNCHANGED <<failures, bad, call, course>>

ResetHealth ==
  /\ Succeeded(Engines)
  /\ UNCHANGED <<call, course>>

-----------------------------------------------------------------------------
(* Calls.                                                                  *)

\* The engines are looked up once; without any the call raises.
Enter(c, at, engines) ==
  /\ call' = [call EXCEPT ![c] = Fresh(IF engines = {} THEN "failed" ELSE at, engines)]
  /\ seen' = [seen EXCEPT ![c] = engines]
  /\ tried' = [tried EXCEPT ![c] = {}]
  /\ UNCHANGED <<health, calls, blamed>>

Generate(c) == call[c].at \in {"rest", "fallback"} /\ Enter(c, "generate", Healthy)

Embed(c) == call[c].at = "rest" /\ Enter(c, "embed", Healthy \cap Embedding)

\* Only the first engine that streams is asked; without one, generate is.
Stream(c) ==
  /\ call[c].at = "rest"
  /\ LET able == Healthy \cap Streaming IN
       IF able # {}
         THEN Enter(c, "stream", {Min(able)})
         ELSE /\ call' = [call EXCEPT ![c] = Fresh("fallback", {})]
              /\ UNCHANGED <<health, course>>

\* An engine has answered or failed; only generate's calls are counted.
Count(c) == calls' = [calls EXCEPT ![c] = @ + (IF call[c].at \in {"generate", "retry"} THEN 1 ELSE 0)]

Answer(c) ==
  /\ call[c].at \in Calling
  /\ Succeeded({Current(c)})
  /\ Count(c)
  /\ call' = [call EXCEPT ![c].at = "answered"]
  /\ UNCHANGED <<seen, tried, blamed>>

Tried(c) == tried' = [tried EXCEPT ![c] = @ \cup {Current(c)}] /\ Count(c) /\ UNCHANGED seen

\* One inline retry, on which the engine is asked the same again.
RetryTransient(c) ==
  /\ call[c].at = "generate" /\ TransientRetry
  /\ call' = [call EXCEPT ![c].at = "retry", ![c].attempts = @ + 1]
  /\ Tried(c) /\ Worse(Current(c))
  /\ UNCHANGED <<failures, cooling, tripper, blamed>>

Reduced(c) == Max({MinTokens, call[c].tokens \div 2})

\* The same engine is asked for less, unless the attempts are used up: then
\* no further engine is tried.
ReduceOutput(c) ==
  /\ call[c].at = "generate" /\ ReduceOnOom
  /\ Reduced(c) < call[c].tokens
  /\ call' = [call EXCEPT ![c].tokens = Reduced(c), ![c].attempts = @ + 1,
                          ![c].at = IF call[c].attempts + 1 < MaxAttempts THEN @ ELSE "failed"]
  /\ Tried(c) /\ Worse(Current(c))
  /\ UNCHANGED <<failures, cooling, tripper, blamed>>

MoveOn(c) ==
  LET left == call[c].todo \ {Current(c)} IN
    call' = [call EXCEPT ![c].todo = left, ![c].attempts = @ + 1,
                         ![c].at = IF left # {} /\ call[c].attempts + 1 < MaxAttempts THEN "generate" ELSE "failed"]

\* Out of memory at the least max_tokens: the engine is not blamed.
LeaveAtMinimum(c) ==
  /\ call[c].at = "generate" /\ ReduceOnOom
  /\ Reduced(c) >= call[c].tokens
  /\ MoveOn(c)
  /\ Tried(c) /\ Worse(Current(c))
  /\ UNCHANGED <<failures, cooling, tripper, blamed>>

\* Any other error, and any error of the inline retry.
Blame(c) ==
  \E error \in Errors :
    /\ \/ call[c].at = "retry"
       \/ /\ call[c].at = "generate"
          /\ ~(error = "transient" /\ TransientRetry) /\ ~(error = "oom" /\ ReduceOnOom)
    /\ Failed(c, Current(c))
    /\ blamed' = IF error = "oom" THEN blamed \cup {c} ELSE blamed
    /\ MoveOn(c)
    /\ Tried(c)

\* Mutants: embed raises when the first engine fails; it asks it again.
EmbedGivesUp(c) ==
  /\ call[c].at = "embed"
  /\ Failed(c, Current(c)) /\ Tried(c)
  /\ call' = [call EXCEPT ![c].at = "failed"]
  /\ UNCHANGED blamed

EmbedAgain(c) ==
  /\ call[c].at = "embed"
  /\ Failed(c, Current(c)) /\ Tried(c)
  /\ UNCHANGED <<call, blamed>>

EmbedFails(c) ==
  /\ call[c].at = "embed"
  /\ Failed(c, Current(c)) /\ Tried(c)
  /\ LET left == call[c].todo \ {Current(c)} IN
       call' = [call EXCEPT ![c].todo = left, ![c].at = IF left = {} THEN "failed" ELSE @]
  /\ UNCHANGED blamed

StreamBreaks(c) ==
  /\ call[c].at = "stream"
  /\ Failed(c, Current(c)) /\ Tried(c)
  /\ call' = [call EXCEPT ![c] = Fresh("fallback", {})]
  /\ UNCHANGED blamed

Ends(c) ==
  /\ call' = [call EXCEPT ![c] = Fresh("rest", {})]
  /\ seen' = [seen EXCEPT ![c] = {}] /\ tried' = [tried EXCEPT ![c] = {}]
  /\ calls' = [calls EXCEPT ![c] = 0] /\ blamed' = blamed \ {c}
  /\ UNCHANGED health

\* The consumer drops the generator: neither success nor failure.
StreamAbandoned(c) == call[c].at = "stream" /\ Ends(c)

Return(c) == call[c].at \in {"answered", "failed"} /\ Ends(c)

\* What a caller does once it has called.
Proceed(c) ==
  \/ call[c].at = "fallback" /\ Generate(c)
  \/ Answer(c) \/ RetryTransient(c) \/ ReduceOutput(c) \/ LeaveAtMinimum(c) \/ Blame(c)
  \/ EmbedFails(c) \/ StreamBreaks(c) \/ StreamAbandoned(c) \/ Return(c)

FailoverNext ==
  \/ \E c \in Callers : Proceed(c) \/ Generate(c) \/ Stream(c) \/ Embed(c)
  \/ \E e \in Engines : CooldownEnds(e)
  \/ ResetHealth

FailoverSpec == FailoverInit /\ [][FailoverNext]_failoverVars

\* Engines answer or fail in the end: their clients have timeouts.
FailoverFairness == \A c \in Callers : WF_failoverVars(Proceed(c))
FairFailoverSpec == FailoverSpec /\ FailoverFairness

-----------------------------------------------------------------------------
(* Properties.                                                             *)

FailoverTypeOK ==
  /\ failures \in [Engines -> 0..(BreakerFailures - 1)]
  /\ cooling \in [Engines -> BOOLEAN]
  /\ call \in [Callers -> [at : Places, todo : SUBSET Engines, attempts : 0..(MaxAttempts + 1), tokens : 0..Asked]]
  /\ \A c \in Callers : call[c].at \in Calling => call[c].todo # {}
  /\ seen \in [Callers -> SUBSET Engines] /\ tried \in [Callers -> SUBSET Engines]
  /\ calls \in [Callers -> Nat]
  /\ bad \in [Engines -> 0..BreakerFailures]
  /\ tripper \in [Engines -> SUBSET Callers]
  /\ blamed \subseteq Callers

\* Priority order: an engine is asked, or has answered, only when every
\* engine before it that the call found healthy has failed this call.
PriorityKept ==
  \A c \in Callers : call[c].at \in Calling \cup {"answered"} =>
    \A e \in seen[c] : e < Current(c) => e \in tried[c]

\* generate and embed raise only when all engines they found healthy have
\* failed, or generate has used up its attempts.
GivesUpExhausted ==
  \A c \in Callers : call[c].at = "failed" =>
    seen[c] \subseteq tried[c] \/ call[c].attempts >= MaxAttempts

\* However errors alternate and the output is reduced, one generate asks its
\* engines at most one time more than max_attempts.
AttemptsBounded == \A c \in Callers : calls[c] <= MaxAttempts + 1

\* An engine is in cooldown only if its last BreakerFailures results, over
\* all calls and kinds of call, were failures.
BreakerEarned == \A e \in Engines : cooling[e] => bad[e] = BreakerFailures

\* A call never asks an engine whose breaker its own failure has opened, not
\* in generate after a stream that broke, nor in its later calls.
OwnTripsRespected ==
  \A c \in Callers : call[c].at \in Calling => c \notin tripper[Current(c)]

\* Whatever its engines do, every call returns or raises.
CallReturns == \A c \in Callers : call[c].at # "rest" ~> call[c].at = "rest"

\* router.py:250 "Does not trip the circuit breaker on OOM": generate counts
\* no out-of-memory error as a failure of the engine.
OomNeverBlamed == ReduceOnOom => blamed = {}

\* router.py:52 calls max_attempts the "Total attempts across all engines":
\* no generate asks its engines more often.
AttemptsTotal == \A c \in Callers : calls[c] <= MaxAttempts
=============================================================================
