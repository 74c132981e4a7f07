--------------------------- MODULE Failover_proofs ---------------------------
(***************************************************************************)
(* Proofs about Failover for any engines, callers and policy: types, the   *)
(* order in which engines are tried, the attempts made, and the breakers.  *)
(***************************************************************************)
EXTENDS Failover, TLAPS, FiniteSetTheorems

-----------------------------------------------------------------------------
(* Least and greatest numbers.                                             *)

LEMMA LeastExists ==
  ASSUME NEW S \in SUBSET Nat, S # {}
  PROVE  Min(S) \in S /\ \A x \in S : Min(S) <= x
<1>1. PICK x \in S : \A y \in S : ~ (<<y, x>> \in OpToRel(<, Nat))
  BY NatLessThanWellFounded, WFMin
<1>2. \A y \in S : ~ (y < x)
  <2>1. ASSUME NEW y \in S
        PROVE  ~ (y < x)
    <3>1. y \in Nat /\ x \in Nat
      OBVIOUS
    <3>2. <<y, x>> \notin OpToRel(<, Nat)
      BY <1>1
    <3>3. QED
      BY <3>1, <3>2, Zenon DEF OpToRel
  <2>2. QED
    BY <2>1
<1>3. \A y \in S : x <= y
  BY <1>2
<1>4. QED
  BY <1>3 DEF Min

LEMMA LeastOfTwo ==
  ASSUME NEW a \in Nat, NEW b \in Nat
  PROVE  Min({a, b}) \in Nat /\ Min({a, b}) <= a /\ Min({a, b}) <= b /\ Min({a, b}) \in {a, b}
BY LeastExists

LEMMA GreatestOfTwo ==
  ASSUME NEW a \in Nat, NEW b \in Nat
  PROVE  Max({a, b}) \in {a, b} /\ a <= Max({a, b}) /\ b <= Max({a, b})
<1>1. \E x \in {a, b} : \A y \in {a, b} : x >= y
  OBVIOUS
<1>2. QED
  BY <1>1 DEF Max

-----------------------------------------------------------------------------
(* The inductive invariant.                                                *)

CallType == [at : Places, todo : SUBSET Engines, attempts : 0..(MaxAttempts + 1), tokens : 0..Asked]

\* The failures counted are among the last results, only an open breaker has
\* somebody to name.
HealthOK ==
  \A e \in Engines :
    /\ failures[e] <= bad[e]
    /\ cooling[e] => bad[e] = BreakerFailures
    /\ ~cooling[e] => tripper[e] = {}

\* What a call has left and what has failed it are together what it saw, no
\* engine it has left is one it has tripped, and attempts counts its calls.
CallOK(c) ==
  /\ call[c].at \in Calling \cup {"answered"} =>
       call[c].todo # {} /\ seen[c] \subseteq call[c].todo \cup tried[c]
  /\ call[c].at = "failed" => seen[c] \subseteq tried[c] \/ call[c].attempts >= MaxAttempts
  /\ call[c].at \in Calling => \A e \in call[c].todo : c \notin tripper[e]
  /\ call[c].at \in {"rest", "fallback", "stream", "embed"} => calls[c] = 0
  /\ call[c].at = "generate" => calls[c] = call[c].attempts /\ call[c].attempts < MaxAttempts
  /\ call[c].at = "retry" => calls[c] = call[c].attempts /\ call[c].attempts <= MaxAttempts
  /\ calls[c] <= MaxAttempts + 1

IInv == FailoverTypeOK /\ HealthOK /\ \A c \in Callers : CallOK(c)

\* What a step of c leaves to the other callers.
Frame(c) ==
  \A d \in Callers : d # c =>
    /\ call'[d] = call[d] /\ seen'[d] = seen[d] /\ tried'[d] = tried[d] /\ calls'[d] = calls[d]
    /\ \A e \in Engines : d \notin tripper[e] => d \notin tripper'[e]

\* The invariant follows from what a step does to health and to one call.
LEMMA FramedStep ==
  ASSUME IInv, NEW c \in Callers, FailoverTypeOK', HealthOK', CallOK(c)', Frame(c)
  PROVE  IInv'
<1>1. ASSUME NEW d \in Callers, d # c
      PROVE  CallOK(d)'
  <2>1. /\ call'[d] = call[d] /\ seen'[d] = seen[d] /\ tried'[d] = tried[d] /\ calls'[d] = calls[d]
        /\ \A e \in Engines : d \notin tripper[e] => d \notin tripper'[e]
    BY <1>1 DEF Frame
  <2>2. CallOK(d) /\ call[d].todo \subseteq Engines
    BY <1>1 DEF IInv, FailoverTypeOK
  <2>3. QED
    BY <2>1, <2>2 DEF CallOK
<1>2. QED
  BY <1>1 DEF IInv

LEMMA CurrentLeft ==
  ASSUME IInv, NEW c \in Callers, call[c].at \in Calling \cup {"answered"}
  PROVE  /\ Current(c) \in call[c].todo /\ Current(c) \in Engines
         /\ \A e \in call[c].todo : Current(c) <= e
<1>1. call[c].todo # {} /\ call[c].todo \in SUBSET Engines
  BY DEF IInv, FailoverTypeOK, CallOK
<1>2. call[c].todo \in SUBSET Nat
  BY <1>1, EnginesAssumption
<1>3. QED
  BY <1>1, <1>2, LeastExists DEF Current

-----------------------------------------------------------------------------
(* Health.                                                                 *)

HealthTypes ==
  /\ failures \in [Engines -> 0..(BreakerFailures - 1)]
  /\ cooling \in [Engines -> BOOLEAN]
  /\ bad \in [Engines -> 0..BreakerFailures]
  /\ tripper \in [Engines -> SUBSET Callers]

LEMMA SucceededKeeps ==
  ASSUME HealthTypes, HealthOK, NEW E \in SUBSET Engines, Succeeded(E)
  PROVE  /\ HealthTypes' /\ HealthOK'
         /\ \A e \in Engines : tripper'[e] \subseteq tripper[e]
<1>1. /\ \A e \in Engines : /\ failures'[e] = (IF e \in E THEN 0 ELSE failures[e])
                            /\ cooling'[e] = (cooling[e] /\ e \notin E)
                            /\ bad'[e] = (IF e \in E THEN 0 ELSE bad[e])
                            /\ tripper'[e] = (IF e \in E THEN {} ELSE tripper[e])
  BY DEF Succeeded
<1>2. HealthTypes'
  BY PolicyAssumption DEF Succeeded, HealthTypes
<1>3. HealthOK'
  <2>1. ASSUME NEW e \in Engines
        PROVE  /\ failures'[e] <= bad'[e] /\ (cooling'[e] => bad'[e] = BreakerFailures)
               /\ (~cooling'[e] => tripper'[e] = {})
    <3>1. CASE e \in E
      <4>1. ~cooling'[e]
        BY <3>1, <1>1
      <4>2. failures'[e] = 0 /\ bad'[e] = 0 /\ tripper'[e] = {}
        BY <3>1, <1>1
      <4>3. QED
        BY <4>1, <4>2
    <3>2. CASE e \notin E
      BY <3>2, <1>1 DEF HealthOK
    <3>3. QED
      BY <3>1, <3>2
  <2>2. QED
    BY <2>1 DEF HealthOK
<1>4. QED
  BY <1>1, <1>2, <1>3

LEMMA WorseCounts ==
  ASSUME HealthTypes, NEW e \in Engines, Worse(e)
  PROVE  /\ bad' \in [Engines -> 0..BreakerFailures]
         /\ \A f \in Engines : f # e => bad'[f] = bad[f]
         /\ bad'[e] \in {bad[e] + 1, BreakerFailures}
         /\ bad[e] <= bad'[e]
<1>1. bad[e] \in 0..BreakerFailures /\ bad[e] + 1 \in Nat /\ BreakerFailures \in Nat
  BY PolicyAssumption DEF HealthTypes
<1> DEFINE m == Min({bad[e] + 1, BreakerFailures})
<1>2. m \in {bad[e] + 1, BreakerFailures} /\ m <= BreakerFailures /\ m \in Nat
  BY <1>1, LeastOfTwo
<1>3. bad' = [bad EXCEPT ![e] = m]
  BY DEF Worse
<1> HIDE DEF m
<1>4. QED
  BY <1>1, <1>2, <1>3 DEF HealthTypes

LEMMA WorseKeeps ==
  ASSUME HealthTypes, HealthOK, NEW e \in Engines, Worse(e), UNCHANGED <<failures, cooling, tripper>>
  PROVE  HealthTypes' /\ HealthOK'
<1>1. /\ bad' \in [Engines -> 0..BreakerFailures]
      /\ \A f \in Engines : f # e => bad'[f] = bad[f]
      /\ bad'[e] \in {bad[e] + 1, BreakerFailures}
      /\ bad[e] <= bad'[e]
  BY WorseCounts
<1>2. HealthTypes'
  BY <1>1 DEF HealthTypes
<1>3. HealthOK'
  <2>1. ASSUME NEW f \in Engines
        PROVE  /\ failures[f] <= bad'[f]
               /\ cooling[f] => bad'[f] = BreakerFailures
    BY <1>1, PolicyAssumption DEF HealthTypes, HealthOK
  <2>2. QED
    BY <2>1 DEF HealthOK
<1>4. QED
  BY <1>2, <1>3

LEMMA FailedKeeps ==
  ASSUME HealthTypes, HealthOK, NEW c \in Callers, NEW e \in Engines, Failed(c, e)
  PROVE  /\ HealthTypes' /\ HealthOK'
         /\ \A f \in Engines : f # e => tripper'[f] = tripper[f]
         /\ tripper'[e] = tripper[e] \/ tripper'[e] = {c}
<1> DEFINE trips == failures[e] + 1 >= BreakerFailures
<1>1. /\ failures' = [failures EXCEPT ![e] = IF trips THEN 0 ELSE failures[e] + 1]
      /\ cooling' = [cooling EXCEPT ![e] = cooling[e] \/ trips]
      /\ tripper' = IF trips THEN [tripper EXCEPT ![e] = {c}] ELSE tripper
      /\ Worse(e)
  BY DEF Failed
<1>2. /\ bad' \in [Engines -> 0..BreakerFailures]
      /\ \A f \in Engines : f # e => bad'[f] = bad[f]
      /\ bad'[e] \in {bad[e] + 1, BreakerFailures}
      /\ bad[e] <= bad'[e]
  BY <1>1, WorseCounts
<1>3. failures[e] \in 0..(BreakerFailures - 1) /\ BreakerFailures \in Nat /\ BreakerFailures > 0
  BY PolicyAssumption DEF HealthTypes
<1>4. trips \in BOOLEAN
  OBVIOUS
<1>5. HealthTypes'
  <2>1. failures' \in [Engines -> 0..(BreakerFailures - 1)]
    BY <1>1, <1>3 DEF HealthTypes
  <2>2. cooling' \in [Engines -> BOOLEAN]
    BY <1>1, <1>4 DEF HealthTypes
  <2>3. tripper' \in [Engines -> SUBSET Callers]
    BY <1>1 DEF HealthTypes
  <2>4. QED
    BY <1>2, <2>1, <2>2, <2>3 DEF HealthTypes
<1>6. /\ \A f \in Engines : f # e => /\ failures'[f] = failures[f] /\ cooling'[f] = cooling[f]
                                     /\ tripper'[f] = tripper[f]
      /\ failures'[e] = (IF trips THEN 0 ELSE failures[e] + 1)
      /\ cooling'[e] = (cooling[e] \/ trips)
      /\ tripper'[e] = (IF trips THEN {c} ELSE tripper[e])
  BY <1>1 DEF HealthTypes
<1>7. /\ bad[e] \in 0..BreakerFailures /\ bad'[e] \in 0..BreakerFailures
      /\ failures[e] <= bad[e]
      /\ cooling[e] => bad[e] = BreakerFailures
      /\ ~cooling[e] => tripper[e] = {}
  BY <1>2 DEF HealthTypes, HealthOK
<1>8. failures'[e] <= bad'[e]
  BY <1>2, <1>3, <1>6, <1>7
<1>9. cooling'[e] => bad'[e] = BreakerFailures
  <2>1. CASE trips
    BY <2>1, <1>2, <1>3, <1>7
  <2>2. CASE ~trips
    <3>1. cooling'[e] => cooling[e]
      BY <2>2, <1>6
    <3>2. cooling'[e] => bad[e] = BreakerFailures
      BY <3>1, <1>7
    <3>3. QED
      BY <3>2, <1>2, <1>3, <1>7
  <2>3. QED
    BY <2>1, <2>2
<1>10. ~cooling'[e] => tripper'[e] = {}
  BY <1>6, <1>7
<1>11. HealthOK'
  <2>1. ASSUME NEW f \in Engines, f # e
        PROVE  /\ failures'[f] <= bad'[f] /\ (cooling'[f] => bad'[f] = BreakerFailures)
               /\ (~cooling'[f] => tripper'[f] = {})
    BY <2>1, <1>2, <1>6 DEF HealthOK
  <2>2. QED
    BY <2>1, <1>8, <1>9, <1>10 DEF HealthOK
<1>12. QED
  BY <1>5, <1>6, <1>11
-----------------------------------------------------------------------------
(* Steps of a caller.                                                      *)

CourseTypes ==
  /\ call \in [Callers -> CallType]
  /\ \A c \in Callers : call[c].at \in Calling => call[c].todo # {}
  /\ seen \in [Callers -> SUBSET Engines] /\ tried \in [Callers -> SUBSET Engines]
  /\ calls \in [Callers -> Nat]
  /\ blamed \subseteq Callers

LEMMA TypesSplit == FailoverTypeOK <=> HealthTypes /\ CourseTypes
BY DEF FailoverTypeOK, HealthTypes, CourseTypes, CallType

\* A step that gives one call the record k, and its history s, t and n.
Moves(c, k, s, t, n) ==
  /\ call' = [call EXCEPT ![c] = k] /\ seen' = [seen EXCEPT ![c] = s]
  /\ tried' = [tried EXCEPT ![c] = t] /\ calls' = [calls EXCEPT ![c] = n]
  /\ blamed' \subseteq Callers
  /\ \A d \in Callers, e \in Engines : d # c /\ d \notin tripper[e] => d \notin tripper'[e]

\* What k, s, t and n must satisfy.
Good(c, k, s, t, n) ==
  /\ k \in CallType /\ s \subseteq Engines /\ t \subseteq Engines /\ n \in Nat
  /\ k.at \in Calling \cup {"answered"} => k.todo # {} /\ s \subseteq k.todo \cup t
  /\ k.at = "failed" => s \subseteq t \/ k.attempts >= MaxAttempts
  /\ k.at \in Calling => \A e \in k.todo : c \notin tripper'[e]
  /\ k.at \in {"rest", "fallback", "stream", "embed"} => n = 0
  /\ k.at = "generate" => n = k.attempts /\ k.attempts < MaxAttempts
  /\ k.at = "retry" => n = k.attempts /\ k.attempts <= MaxAttempts
  /\ n <= MaxAttempts + 1

LEMMA CourseKept ==
  ASSUME IInv, HealthTypes', HealthOK', NEW c \in Callers, NEW k, NEW s, NEW t, NEW n,
         Moves(c, k, s, t, n), Good(c, k, s, t, n)
  PROVE  IInv'
<1>1. CourseTypes
  BY TypesSplit DEF IInv
<1>2. call'[c] = k /\ seen'[c] = s /\ tried'[c] = t /\ calls'[c] = n
  BY <1>1 DEF CourseTypes, Moves
<1>3. \A d \in Callers : d # c =>
        /\ call'[d] = call[d] /\ seen'[d] = seen[d] /\ tried'[d] = tried[d] /\ calls'[d] = calls[d]
  BY <1>1 DEF CourseTypes, Moves
<1>4. Frame(c)
  BY <1>3 DEF Frame, Moves
<1>5. CourseTypes'
  <2>1. call' \in [Callers -> CallType] /\ seen' \in [Callers -> SUBSET Engines]
        /\ tried' \in [Callers -> SUBSET Engines] /\ calls' \in [Callers -> Nat]
    BY <1>1 DEF CourseTypes, Moves, Good
  <2>2. \A d \in Callers : call'[d].at \in Calling => call'[d].todo # {}
    BY <1>1, <1>2, <1>3 DEF CourseTypes, Good
  <2>3. QED
    BY <2>1, <2>2 DEF CourseTypes, Moves
<1>6. FailoverTypeOK'
  BY <1>5 DEF FailoverTypeOK, HealthTypes, CourseTypes, CallType
<1>7. CallOK(c)'
  BY <1>2 DEF CallOK, Good
<1>8. QED
  BY <1>4, <1>6, <1>7, FramedStep

\* The record of a call that has just begun.
LEMMA FreshType ==
  ASSUME NEW at \in Places, NEW E \in SUBSET Engines
  PROVE  /\ Fresh(at, E) \in CallType /\ Fresh(at, E).at = at /\ Fresh(at, E).todo = E
         /\ Fresh(at, E).attempts = 0
BY PolicyAssumption DEF Fresh, CallType

LEMMA StartKeeps ==
  ASSUME IInv, NEW c \in Callers, Generate(c) \/ Embed(c) \/ Stream(c)
  PROVE  IInv'
<1>1. HealthTypes /\ HealthOK /\ CourseTypes
  BY TypesSplit DEF IInv
<1>2. Healthy \in SUBSET Engines /\ \A e \in Healthy : tripper[e] = {}
  BY <1>1, EnginesAssumption DEF Healthy, HealthOK
<1>3. calls[c] = 0
  BY DEF Generate, Embed, Stream, IInv, CallOK
<1>4. ASSUME NEW at \in {"generate", "embed", "stream"}, NEW E \in SUBSET Healthy, Enter(c, at, E)
      PROVE  IInv'
  <2> DEFINE k == Fresh(IF E = {} THEN "failed" ELSE at, E)
  <2>1. /\ k \in CallType /\ k.todo = E /\ k.attempts = 0 /\ E \in SUBSET Engines
        /\ k.at = IF E = {} THEN "failed" ELSE at
    BY <1>2, FreshType DEF Places
  <2>2. /\ call' = [call EXCEPT ![c] = k] /\ seen' = [seen EXCEPT ![c] = E]
        /\ tried' = [tried EXCEPT ![c] = {}] /\ UNCHANGED <<failures, cooling, bad, tripper, calls, blamed>>
    BY <1>4 DEF Enter, health
  <2>3. calls' = [calls EXCEPT ![c] = 0]
    BY <1>1, <1>3, <2>2 DEF CourseTypes
  <2>4. HealthTypes' /\ HealthOK'
    BY <1>1, <2>2 DEF HealthTypes, HealthOK
  <2>5. \A e \in k.todo : c \notin tripper'[e]
    BY <1>2, <2>1, <2>2
  <2> HIDE DEF k
  <2>6. MaxAttempts > 0 /\ MaxAttempts \in Nat
    BY PolicyAssumption
  <2>7. blamed' \subseteq Callers
    BY <1>1, <2>2 DEF CourseTypes
  <2>8. Moves(c, k, E, {}, 0)
    BY <2>2, <2>3, <2>7 DEF Moves
  <2>9. Good(c, k, E, {}, 0)
    BY <2>1, <2>5, <2>6 DEF Good, Calling
  <2>10. QED
    BY <2>4, <2>8, <2>9, CourseKept
<1>5. CASE Generate(c)
  BY <1>4, <1>5 DEF Generate
<1>6. CASE Embed(c)
  BY <1>4, <1>6 DEF Embed
<1>7. CASE Stream(c)
  <2> DEFINE able == Healthy \cap Streaming
  <2>1. CASE able # {}
    <3>1. able \in SUBSET Nat
      BY <1>2, EnginesAssumption
    <3>2. Min(able) \in able
      BY <2>1, <3>1, LeastExists
    <3>3. {Min(able)} \in SUBSET Healthy
      BY <3>2
    <3>4. Enter(c, "stream", {Min(able)})
      BY <1>7, <2>1 DEF Stream
    <3>5. QED
      BY <1>4, <3>3, <3>4
  <2>2. CASE able = {}
    <3> DEFINE k == Fresh("fallback", {})
    <3>1. k \in CallType /\ k.at = "fallback"
      BY FreshType DEF Places
    <3>2. call' = [call EXCEPT ![c] = k] /\ UNCHANGED <<failures, cooling, bad, tripper, seen, tried, calls, blamed>>
      BY <1>7, <2>2 DEF Stream, health, course
    <3> HIDE DEF k
    <3>3. /\ seen' = [seen EXCEPT ![c] = seen[c]] /\ tried' = [tried EXCEPT ![c] = tried[c]]
          /\ calls' = [calls EXCEPT ![c] = 0]
          /\ seen[c] \in SUBSET Engines /\ tried[c] \in SUBSET Engines
      BY <1>1, <1>3, <3>2 DEF CourseTypes
    <3>4. HealthTypes' /\ HealthOK' /\ blamed' \subseteq Callers
      BY <1>1, <3>2 DEF HealthTypes, HealthOK, CourseTypes
    <3>5. MaxAttempts \in Nat
      BY PolicyAssumption
    <3>6. Moves(c, k, seen[c], tried[c], 0)
      BY <3>2, <3>3, <3>4 DEF Moves
    <3>7. Good(c, k, seen[c], tried[c], 0)
      BY <3>1, <3>3, <3>5 DEF Good, Calling
    <3>8. QED
      BY <3>4, <3>6, <3>7, CourseKept
  <2>3. QED
    BY <2>1, <2>2
<1>8. QED
  BY <1>5, <1>6, <1>7
\* A call that is asking an engine, and what each kind of record satisfies.
LEMMA Asking ==
  ASSUME IInv, NEW c \in Callers, call[c].at \in Calling \cup {"answered"}
  PROVE  /\ HealthTypes /\ HealthOK /\ CourseTypes
         /\ call[c] \in CallType /\ seen[c] \subseteq Engines /\ tried[c] \subseteq Engines
         /\ calls[c] \in Nat /\ call[c].attempts \in Nat
         /\ Current(c) \in call[c].todo /\ Current(c) \in Engines
         /\ seen[c] \subseteq call[c].todo \cup tried[c]
         /\ CallOK(c) /\ MaxAttempts \in Nat /\ MaxAttempts > 0
         /\ blamed \subseteq Callers
<1>1. HealthTypes /\ HealthOK /\ CourseTypes /\ CallOK(c)
  BY TypesSplit DEF IInv
<1>2. call[c] \in CallType /\ call[c].attempts \in Nat
  BY <1>1, PolicyAssumption DEF CourseTypes, CallType
<1>3. QED
  BY <1>1, <1>2, CurrentLeft, PolicyAssumption DEF CourseTypes, CallOK

LEMMA AnswerKeeps ==
  ASSUME IInv, NEW c \in Callers, Answer(c)
  PROVE  IInv'
<1> DEFINE e == Current(c)
           k == [call[c] EXCEPT !.at = "answered"]
           n == calls[c] + (IF call[c].at \in {"generate", "retry"} THEN 1 ELSE 0)
<1>1. call[c].at \in Calling
  BY DEF Answer
<1>2. HealthTypes' /\ HealthOK' /\ \A f \in Engines : tripper'[f] \subseteq tripper[f]
  <2>1. {e} \in SUBSET Engines /\ Succeeded({e}) /\ HealthTypes /\ HealthOK
    BY <1>1, Asking DEF Answer
  <2>2. QED
    BY <2>1, SucceededKeeps
<1>3. /\ call' = [call EXCEPT ![c] = k] /\ calls' = [calls EXCEPT ![c] = n]
      /\ UNCHANGED <<seen, tried, blamed>>
  BY <1>1, Asking DEF Answer, Count, CourseTypes
<1>4. k \in CallType /\ k.at = "answered" /\ k.todo = call[c].todo
  BY <1>1, Asking DEF CallType, Places
<1>5. n \in Nat /\ n <= MaxAttempts + 1
  BY <1>1, Asking DEF CallOK, Calling
<1> HIDE DEF k, n
<1>6. Moves(c, k, seen[c], tried[c], n)
  BY <1>1, <1>2, <1>3, Asking DEF Moves, CourseTypes
<1>7. Good(c, k, seen[c], tried[c], n)
  BY <1>1, <1>4, <1>5, Asking DEF Good, Calling
<1>8. QED
  BY <1>2, <1>6, <1>7, CourseKept

\* What a failure leaves of the call's history.
LEMMA TriedAdds ==
  ASSUME IInv, NEW c \in Callers, call[c].at \in Calling, Tried(c)
  PROVE  /\ tried' = [tried EXCEPT ![c] = tried[c] \cup {Current(c)}]
         /\ seen' = [seen EXCEPT ![c] = seen[c]]
         /\ calls' = [calls EXCEPT ![c] =
                        calls[c] + (IF call[c].at \in {"generate", "retry"} THEN 1 ELSE 0)]
BY Asking DEF Tried, Count, CourseTypes

LEMMA RetryKeeps ==
  ASSUME IInv, NEW c \in Callers, RetryTransient(c)
  PROVE  IInv'
<1> DEFINE k == [call[c] EXCEPT !.at = "retry", !.attempts = call[c].attempts + 1]
           t == tried[c] \cup {Current(c)}
           n == calls[c] + 1
<1>1. call[c].at = "generate" /\ call[c].at \in Calling
  BY DEF RetryTransient, Calling
<1>2. HealthTypes' /\ HealthOK' /\ tripper' = tripper
  BY <1>1, Asking, WorseKeeps DEF RetryTransient
<1>3. calls[c] = call[c].attempts /\ call[c].attempts < MaxAttempts
  BY <1>1, Asking DEF CallOK
<1>4. /\ k \in CallType /\ k.at = "retry" /\ k.todo = call[c].todo
      /\ k.attempts = call[c].attempts + 1
  <2>1. "retry" \in Places /\ call[c].attempts + 1 \in 0..(MaxAttempts + 1) /\ call[c].tokens \in 0..Asked
    BY <1>1, <1>3, Asking DEF CallType, Places
  <2>2. call[c] \in CallType
    BY <1>1, Asking
  <2>3. k \in CallType
    BY <2>1, <2>2 DEF CallType
  <2>4. k.at = "retry" /\ k.todo = call[c].todo /\ k.attempts = call[c].attempts + 1
    BY <2>2 DEF CallType
  <2>5. QED
    BY <2>3, <2>4
<1>5. /\ call' = [call EXCEPT ![c] = k] /\ tried' = [tried EXCEPT ![c] = t]
      /\ seen' = [seen EXCEPT ![c] = seen[c]] /\ calls' = [calls EXCEPT ![c] = n]
      /\ blamed' = blamed
  BY <1>1, Asking, TriedAdds DEF RetryTransient, CourseTypes
<1> HIDE DEF k
<1>6. Moves(c, k, seen[c], t, n)
  BY <1>1, <1>2, <1>5, Asking DEF Moves
<1>7. Good(c, k, seen[c], t, n)
  BY <1>1, <1>2, <1>3, <1>4, Asking DEF Good, Calling, CallOK
<1>8. QED
  BY <1>2, <1>6, <1>7, CourseKept

LEMMA ReduceKeeps ==
  ASSUME IInv, NEW c \in Callers, ReduceOutput(c)
  PROVE  IInv'
<1> DEFINE at == IF call[c].attempts + 1 < MaxAttempts THEN "generate" ELSE "failed"
           k == [call[c] EXCEPT !.tokens = Reduced(c), !.attempts = call[c].attempts + 1, !.at = at]
           t == tried[c] \cup {Current(c)}
           n == calls[c] + 1
<1>1. call[c].at = "generate" /\ call[c].at \in Calling
  BY DEF ReduceOutput, Calling
<1>2. HealthTypes' /\ HealthOK' /\ tripper' = tripper
  BY <1>1, Asking, WorseKeeps DEF ReduceOutput
<1>3. calls[c] = call[c].attempts /\ call[c].attempts < MaxAttempts
  BY <1>1, Asking DEF CallOK
<1>4. Reduced(c) \in 0..Asked
  <2>1. call[c].tokens \in 0..Asked
    BY <1>1, Asking DEF CallType
  <2>2. call[c].tokens \div 2 \in Nat
    BY <2>1
  <2>3. Reduced(c) \in {MinTokens, call[c].tokens \div 2}
    BY <2>2, GreatestOfTwo, PolicyAssumption DEF Reduced
  <2>4. Reduced(c) < call[c].tokens
    BY DEF ReduceOutput
  <2>5. QED
    BY <2>1, <2>2, <2>3, <2>4, PolicyAssumption
<1>5. /\ k \in CallType /\ k.at = at /\ k.todo = call[c].todo
      /\ k.attempts = call[c].attempts + 1
  <2>1. at \in Places /\ call[c].attempts + 1 \in 0..(MaxAttempts + 1)
    BY <1>1, <1>3, Asking DEF Places
  <2>2. call[c] \in CallType
    BY <1>1, Asking
  <2>3. k \in CallType
    BY <1>4, <2>1, <2>2 DEF CallType
  <2>4. k.at = at /\ k.todo = call[c].todo /\ k.attempts = call[c].attempts + 1
    BY <2>2 DEF CallType
  <2>5. QED
    BY <2>3, <2>4
<1>6. /\ call' = [call EXCEPT ![c] = k] /\ tried' = [tried EXCEPT ![c] = t]
      /\ seen' = [seen EXCEPT ![c] = seen[c]] /\ calls' = [calls EXCEPT ![c] = n]
      /\ blamed' = blamed
  BY <1>1, Asking, TriedAdds DEF ReduceOutput, CourseTypes
<1>7. at = "failed" => call[c].attempts + 1 >= MaxAttempts
  BY <1>1, Asking
<1>8. at = "generate" => call[c].attempts + 1 < MaxAttempts
  OBVIOUS
<1>9. at \in {"generate", "failed"}
  OBVIOUS
<1> HIDE DEF k, at
<1>10. Moves(c, k, seen[c], t, n)
  BY <1>1, <1>2, <1>6, Asking DEF Moves
<1>11. Good(c, k, seen[c], t, n)
  BY <1>1, <1>2, <1>3, <1>5, <1>7, <1>8, <1>9, Asking DEF Good, Calling, CallOK
<1>12. QED
  BY <1>2, <1>10, <1>11, CourseKept
\* A call that leaves its engine for the next, whatever that does to the
\* engine's health.
LEMMA MoveKeeps ==
  ASSUME IInv, NEW c \in Callers, call[c].at \in {"generate", "retry"}, MoveOn(c), Tried(c),
         HealthTypes', HealthOK', blamed' \subseteq Callers,
         \A f \in Engines : f # Current(c) => tripper'[f] = tripper[f],
         tripper'[Current(c)] = tripper[Current(c)] \/ tripper'[Current(c)] = {c}
  PROVE  IInv'
<1> DEFINE left == call[c].todo \ {Current(c)}
           at == IF left # {} /\ call[c].attempts + 1 < MaxAttempts THEN "generate" ELSE "failed"
           k == [call[c] EXCEPT !.todo = left, !.attempts = call[c].attempts + 1, !.at = at]
           t == tried[c] \cup {Current(c)}
           n == calls[c] + 1
<1>1. call[c].at \in Calling
  BY DEF Calling
<1>2. calls[c] = call[c].attempts /\ call[c].attempts <= MaxAttempts
  BY <1>1, Asking DEF CallOK
<1>3. call[c] \in CallType /\ left \in SUBSET Engines /\ Current(c) \in Engines
  BY <1>1, Asking DEF CallType
<1>4. at \in Places /\ call[c].attempts + 1 \in 0..(MaxAttempts + 1)
  BY <1>1, <1>2, Asking DEF Places
<1>5. k \in CallType
  BY <1>3, <1>4 DEF CallType
<1>6. k.at = at /\ k.todo = left /\ k.attempts = call[c].attempts + 1
  BY <1>3 DEF CallType
<1>7. call' = [call EXCEPT ![c] = k]
  BY DEF MoveOn
<1>8. /\ tried' = [tried EXCEPT ![c] = t] /\ seen' = [seen EXCEPT ![c] = seen[c]]
      /\ calls' = [calls EXCEPT ![c] = n]
  BY <1>1, TriedAdds
<1>9. at = "failed" => left = {} \/ call[c].attempts + 1 >= MaxAttempts
  BY <1>1, Asking
<1>10. at = "generate" => left # {} /\ call[c].attempts + 1 < MaxAttempts
  OBVIOUS
<1>11. at \in {"generate", "failed"}
  OBVIOUS
<1>12. seen[c] \subseteq left \cup t
  BY <1>1, Asking
<1>13. \A e \in left : c \notin tripper'[e]
  <2>1. \A e \in call[c].todo : c \notin tripper[e]
    BY <1>1, Asking DEF CallOK
  <2>2. QED
    BY <1>3, <2>1
<1>14. \A d \in Callers, e \in Engines : d # c /\ d \notin tripper[e] => d \notin tripper'[e]
  BY <1>3
<1> HIDE DEF k, at, left, t
<1>15. Moves(c, k, seen[c], t, n)
  BY <1>7, <1>8, <1>14 DEF Moves
<1>16. Good(c, k, seen[c], t, n)
  <2>1. seen[c] \subseteq Engines /\ t \subseteq Engines /\ n \in Nat /\ n <= MaxAttempts + 1
    BY <1>1, <1>2, Asking DEF t
  <2>2. k.at = "failed" => seen[c] \subseteq t \/ k.attempts >= MaxAttempts
    BY <1>6, <1>9, <1>12
  <2>3. QED
    BY <1>2, <1>5, <1>6, <1>10, <1>11, <1>12, <1>13, <2>1, <2>2 DEF Good, Calling
<1>17. QED
  BY <1>15, <1>16, CourseKept

LEMMA LeaveKeeps ==
  ASSUME IInv, NEW c \in Callers, LeaveAtMinimum(c)
  PROVE  IInv'
<1>1. call[c].at = "generate" /\ call[c].at \in Calling
  BY DEF LeaveAtMinimum, Calling
<1>2. HealthTypes' /\ HealthOK' /\ tripper' = tripper
  BY <1>1, Asking, WorseKeeps DEF LeaveAtMinimum
<1>3. MoveOn(c) /\ Tried(c) /\ blamed' \subseteq Callers
  BY <1>1, Asking DEF LeaveAtMinimum
<1>4. QED
  BY <1>1, <1>2, <1>3, MoveKeeps

LEMMA BlameKeeps ==
  ASSUME IInv, NEW c \in Callers, Blame(c)
  PROVE  IInv'
<1>1. call[c].at \in {"generate", "retry"} /\ call[c].at \in Calling
  BY DEF Blame, Calling
<1>2. Failed(c, Current(c)) /\ MoveOn(c) /\ Tried(c)
  BY DEF Blame
<1>3. blamed' \subseteq Callers
  BY <1>1, Asking DEF Blame
<1>4. /\ HealthTypes' /\ HealthOK'
      /\ \A f \in Engines : f # Current(c) => tripper'[f] = tripper[f]
      /\ tripper'[Current(c)] = tripper[Current(c)] \/ tripper'[Current(c)] = {c}
  BY <1>1, <1>2, Asking, FailedKeeps
<1>5. QED
  BY <1>1, <1>2, <1>3, <1>4, MoveKeeps

LEMMA EmbedKeeps ==
  ASSUME IInv, NEW c \in Callers, EmbedFails(c)
  PROVE  IInv'
<1> DEFINE left == call[c].todo \ {Current(c)}
           at == IF left = {} THEN "failed" ELSE "embed"
           k == [call[c] EXCEPT !.todo = left, !.at = at]
           t == tried[c] \cup {Current(c)}
<1>1. call[c].at = "embed" /\ call[c].at \in Calling /\ Failed(c, Current(c)) /\ Tried(c)
  BY DEF EmbedFails, Calling
<1>2. /\ HealthTypes' /\ HealthOK'
      /\ \A f \in Engines : f # Current(c) => tripper'[f] = tripper[f]
      /\ tripper'[Current(c)] = tripper[Current(c)] \/ tripper'[Current(c)] = {c}
  BY <1>1, Asking, FailedKeeps
<1>3. call[c] \in CallType /\ left \in SUBSET Engines /\ Current(c) \in Engines
  BY <1>1, Asking DEF CallType
<1>4. at \in Places
  BY DEF Places
<1>5. k \in CallType
  BY <1>3, <1>4 DEF CallType
<1>6. k.at = at /\ k.todo = left
  BY <1>3 DEF CallType
<1>7. call' = [call EXCEPT ![c] = k]
  BY <1>1 DEF EmbedFails
<1>8. /\ tried' = [tried EXCEPT ![c] = t] /\ seen' = [seen EXCEPT ![c] = seen[c]]
      /\ calls' = [calls EXCEPT ![c] = 0] /\ blamed' \subseteq Callers
  BY <1>1, TriedAdds, Asking DEF CallOK, EmbedFails
<1>9. /\ at = "failed" => left = {}
      /\ at = "embed" => left # {}
      /\ at \in {"embed", "failed"}
  OBVIOUS
<1>10. seen[c] \subseteq left \cup t
  BY <1>1, Asking
<1>11. \A e \in left : c \notin tripper'[e]
  <2>1. \A e \in call[c].todo : c \notin tripper[e]
    BY <1>1, Asking DEF CallOK
  <2>2. QED
    BY <1>2, <1>3, <2>1
<1>12. \A d \in Callers, e \in Engines : d # c /\ d \notin tripper[e] => d \notin tripper'[e]
  BY <1>2, <1>3
<1> HIDE DEF k, at, left, t
<1>13. Moves(c, k, seen[c], t, 0)
  BY <1>7, <1>8, <1>12 DEF Moves
<1>14. Good(c, k, seen[c], t, 0)
  <2>1. seen[c] \subseteq Engines /\ t \subseteq Engines /\ MaxAttempts \in Nat
    BY <1>1, Asking DEF t
  <2>2. k.at = "failed" => seen[c] \subseteq t
    BY <1>6, <1>9, <1>10
  <2>3. QED
    BY <1>5, <1>6, <1>9, <1>10, <1>11, <2>1, <2>2 DEF Good, Calling
<1>15. QED
  BY <1>2, <1>13, <1>14, CourseKept

LEMMA BreakKeeps ==
  ASSUME IInv, NEW c \in Callers, StreamBreaks(c)
  PROVE  IInv'
<1> DEFINE k == Fresh("fallback", {})
           t == tried[c] \cup {Current(c)}
<1>1. call[c].at = "stream" /\ call[c].at \in Calling /\ Failed(c, Current(c)) /\ Tried(c)
  BY DEF StreamBreaks, Calling
<1>2. /\ HealthTypes' /\ HealthOK'
      /\ \A f \in Engines : f # Current(c) => tripper'[f] = tripper[f]
      /\ tripper'[Current(c)] = tripper[Current(c)] \/ tripper'[Current(c)] = {c}
  BY <1>1, Asking, FailedKeeps
<1>3. k \in CallType /\ k.at = "fallback"
  BY FreshType DEF Places
<1>4. call' = [call EXCEPT ![c] = k]
  BY DEF StreamBreaks
<1>5. /\ tried' = [tried EXCEPT ![c] = t] /\ seen' = [seen EXCEPT ![c] = seen[c]]
      /\ calls' = [calls EXCEPT ![c] = 0] /\ blamed' \subseteq Callers
  BY <1>1, TriedAdds, Asking DEF CallOK, StreamBreaks
<1>6. \A d \in Callers, e \in Engines : d # c /\ d \notin tripper[e] => d \notin tripper'[e]
  BY <1>1, <1>2, Asking
<1>7. seen[c] \subseteq Engines /\ t \subseteq Engines /\ MaxAttempts \in Nat
  BY <1>1, Asking
<1> HIDE DEF k, t
<1>8. Moves(c, k, seen[c], t, 0)
  BY <1>4, <1>5, <1>6 DEF Moves
<1>9. Good(c, k, seen[c], t, 0)
  BY <1>3, <1>7 DEF Good, Calling
<1>10. QED
  BY <1>2, <1>8, <1>9, CourseKept

LEMMA EndKeeps ==
  ASSUME IInv, NEW c \in Callers, Ends(c)
  PROVE  IInv'
<1> DEFINE k == Fresh("rest", {})
<1>1. k \in CallType /\ k.at = "rest"
  BY FreshType DEF Places
<1>2. HealthTypes /\ HealthOK /\ CourseTypes
  BY TypesSplit DEF IInv
<1>3. HealthTypes' /\ HealthOK'
  BY <1>2 DEF Ends, health, HealthTypes, HealthOK
<1> HIDE DEF k
<1>4. Moves(c, k, {}, {}, 0)
  BY <1>2 DEF Moves, Ends, health, CourseTypes, k
<1>5. Good(c, k, {}, {}, 0)
  BY <1>1, PolicyAssumption DEF Good, Calling
<1>6. QED
  BY <1>3, <1>4, <1>5, CourseKept
-----------------------------------------------------------------------------
(* Health on its own.                                                      *)

LEMMA HealthStepKeeps ==
  ASSUME IInv, HealthTypes', HealthOK', UNCHANGED <<call, course>>,
         \A e \in Engines : tripper'[e] \subseteq tripper[e]
  PROVE  IInv'
<1>1. CourseTypes' /\ FailoverTypeOK'
  BY TypesSplit DEF IInv, CourseTypes, course, FailoverTypeOK, HealthTypes, CallType
<1>2. ASSUME NEW d \in Callers
      PROVE  CallOK(d)'
  <2>1. CallOK(d) /\ call[d].todo \subseteq Engines
    BY DEF IInv, FailoverTypeOK
  <2>2. call' = call /\ seen' = seen /\ tried' = tried /\ calls' = calls
    BY DEF course
  <2>3. QED
    BY <2>1, <2>2 DEF CallOK
<1>3. QED
  BY <1>1, <1>2 DEF IInv

LEMMA CooldownKeeps ==
  ASSUME IInv, NEW e \in Engines, CooldownEnds(e)
  PROVE  IInv'
<1>1. HealthTypes /\ HealthOK
  BY TypesSplit DEF IInv
<1>2. HealthTypes'
  BY <1>1 DEF CooldownEnds, HealthTypes
<1>3. \A f \in Engines : /\ f # e => cooling'[f] = cooling[f] /\ tripper'[f] = tripper[f]
                         /\ ~cooling'[e] /\ tripper'[e] = {}
  BY <1>1 DEF CooldownEnds, HealthTypes
<1>4. HealthOK'
  <2>1. failures' = failures /\ bad' = bad
    BY DEF CooldownEnds
  <2>2. QED
    BY <1>1, <1>3, <2>1 DEF HealthOK
<1>5. QED
  BY <1>2, <1>3, <1>4, HealthStepKeeps DEF CooldownEnds

LEMMA ResetKeeps ==
  ASSUME IInv, ResetHealth
  PROVE  IInv'
<1>1. HealthTypes /\ HealthOK /\ Engines \in SUBSET Engines /\ Succeeded(Engines)
  BY TypesSplit DEF IInv, ResetHealth
<1>2. HealthTypes' /\ HealthOK' /\ \A e \in Engines : tripper'[e] \subseteq tripper[e]
  BY <1>1, SucceededKeeps
<1>3. QED
  BY <1>2, HealthStepKeeps DEF ResetHealth

-----------------------------------------------------------------------------
(* The specification.                                                      *)

LEMMA InitEstablishes == FailoverInit => IInv
<1> SUFFICES ASSUME FailoverInit PROVE IInv
  OBVIOUS
<1>1. Fresh("rest", {}) \in CallType /\ Fresh("rest", {}).at = "rest"
  BY FreshType DEF Places
<1>2. \A c \in Callers : call[c] = Fresh("rest", {})
  BY DEF FailoverInit
<1>3. HealthTypes /\ HealthOK
  BY PolicyAssumption DEF FailoverInit, HealthTypes, HealthOK
<1>4. CourseTypes
  BY <1>1, <1>2 DEF FailoverInit, CourseTypes, Calling
<1>5. \A c \in Callers : CallOK(c)
  BY <1>1, <1>2, PolicyAssumption DEF FailoverInit, CallOK, Calling
<1>6. QED
  BY <1>3, <1>4, <1>5, TypesSplit DEF IInv

LEMMA StepKeeps == IInv /\ [FailoverNext]_failoverVars => IInv'
<1> SUFFICES ASSUME IInv, [FailoverNext]_failoverVars PROVE IInv'
  OBVIOUS
<1>1. ASSUME NEW c \in Callers, Proceed(c) PROVE IInv'
  <2>1. CASE Generate(c)
    BY <2>1, StartKeeps
  <2>2. CASE Answer(c)
    BY <2>2, AnswerKeeps
  <2>3. CASE RetryTransient(c)
    BY <2>3, RetryKeeps
  <2>4. CASE ReduceOutput(c)
    BY <2>4, ReduceKeeps
  <2>5. CASE LeaveAtMinimum(c)
    BY <2>5, LeaveKeeps
  <2>6. CASE Blame(c)
    BY <2>6, BlameKeeps
  <2>7. CASE EmbedFails(c)
    BY <2>7, EmbedKeeps
  <2>8. CASE StreamBreaks(c)
    BY <2>8, BreakKeeps
  <2>9. CASE StreamAbandoned(c) \/ Return(c)
    BY <2>9, EndKeeps DEF StreamAbandoned, Return
  <2>10. QED
    BY <1>1, <2>1, <2>2, <2>3, <2>4, <2>5, <2>6, <2>7, <2>8, <2>9 DEF Proceed
<1>2. ASSUME NEW c \in Callers, Generate(c) \/ Stream(c) \/ Embed(c) PROVE IInv'
  BY <1>2, StartKeeps
<1>3. ASSUME NEW e \in Engines, CooldownEnds(e) PROVE IInv'
  BY <1>3, CooldownKeeps
<1>4. CASE ResetHealth
  BY <1>4, ResetKeeps
<1>5. CASE UNCHANGED failoverVars
  BY <1>5 DEF failoverVars, health, course, IInv, FailoverTypeOK, HealthOK, CallOK
<1>6. QED
  BY <1>1, <1>2, <1>3, <1>4, <1>5 DEF FailoverNext

LEMMA Invariance == FailoverSpec => []IInv
BY InitEstablishes, StepKeeps, PTL DEF FailoverSpec

\* Health and calls keep their types, and a call that asks has an engine.
THEOREM TypeCorrect == FailoverSpec => []FailoverTypeOK
<1>1. IInv => FailoverTypeOK
  BY DEF IInv
<1>2. QED
  BY <1>1, Invariance, PTL

\* Whatever the engines, their failures and the other calls, an engine is
\* asked only when every healthy engine before it has failed the call.
THEOREM PriorityIsKept == FailoverSpec => []PriorityKept
<1>1. IInv => PriorityKept
  <2> SUFFICES ASSUME IInv, NEW c \in Callers, call[c].at \in Calling \cup {"answered"},
                      NEW e \in seen[c], e < Current(c)
               PROVE  e \in tried[c]
    BY DEF PriorityKept
  <2>1. Current(c) \in Nat /\ call[c].todo \subseteq Nat
    BY CurrentLeft, EnginesAssumption DEF IInv, FailoverTypeOK
  <2>2. e \notin call[c].todo
    BY <2>1, CurrentLeft
  <2>3. QED
    BY <2>2, Asking
<1>2. QED
  BY <1>1, Invariance, PTL

\* generate and embed raise only when every engine they found has failed, or
\* generate's attempts are used up.
THEOREM GivesUpLate == FailoverSpec => []GivesUpExhausted
<1>1. IInv => GivesUpExhausted
  BY DEF IInv, CallOK, GivesUpExhausted
<1>2. QED
  BY <1>1, Invariance, PTL

\* generate asks engines at most max_attempts + 1 times in all.
THEOREM AttemptsAreBounded == FailoverSpec => []AttemptsBounded
<1>1. IInv => AttemptsBounded
  BY DEF IInv, CallOK, AttemptsBounded
<1>2. QED
  BY <1>1, Invariance, PTL

\* A breaker that is open has as many failures in a row behind it as the
\* policy says, over all calls that share the engine.
THEOREM BreakersAreEarned == FailoverSpec => []BreakerEarned
<1>1. IInv => BreakerEarned
  BY DEF IInv, HealthOK, BreakerEarned
<1>2. QED
  BY <1>1, Invariance, PTL

\* No call asks an engine whose breaker the same caller has opened.
THEOREM OwnTripsAreRespected == FailoverSpec => []OwnTripsRespected
<1>1. IInv => OwnTripsRespected
  <2> SUFFICES ASSUME IInv, NEW c \in Callers, call[c].at \in Calling
               PROVE  c \notin tripper[Current(c)]
    BY DEF OwnTripsRespected
  <2>1. QED
    BY CurrentLeft DEF IInv, CallOK
<1>2. QED
  BY <1>1, Invariance, PTL
-----------------------------------------------------------------------------
(* A call is finite, whatever its engines do.                              *)

\* How many steps a call with this record still has in it, at most: what is
\* left of the attempts, or of the engines; a broken stream has generate's
\* whole course before it.
StepsLeft(k) ==
  CASE k.at \in {"generate", "retry"} -> MaxAttempts + 2 - k.attempts
    [] k.at = "fallback" -> MaxAttempts + 3
    [] k.at = "stream" -> MaxAttempts + 4
    [] k.at = "embed" -> Cardinality(k.todo) + 1
    [] k.at \in {"answered", "failed"} -> 1
    [] OTHER -> 0

\* generate and stream are bounded by the attempts, embed by its engines ...
CallsBounded ==
  \A c \in Callers :
    /\ StepsLeft(call[c]) \in Nat
    /\ StepsLeft(call[c]) <=
         IF call[c].at = "embed" THEN Cardinality(Engines) + 1 ELSE MaxAttempts + 4

\* ... and a call that is under way uses them up with every step it takes;
\* nobody else's step and no change of an engine's health gives it one more.
CallsShrink ==
  [][\A c \in Callers : call[c].at # "rest" =>
       /\ StepsLeft(call[c])' <= StepsLeft(call[c])
       /\ Proceed(c) => StepsLeft(call[c])' < StepsLeft(call[c])]_failoverVars

LEMMA EnginesLeft ==
  ASSUME NEW k \in CallType
  PROVE  /\ Cardinality(k.todo) \in Nat /\ IsFiniteSet(k.todo)
         /\ Cardinality(k.todo) <= Cardinality(Engines) /\ Cardinality(Engines) \in Nat
<1>1. k.todo \in SUBSET Engines /\ IsFiniteSet(Engines)
  BY EnginesAssumption DEF CallType
<1>2. QED
  BY <1>1, FS_Subset, FS_CardinalityType

LEMMA StepsLeftValues ==
  ASSUME NEW k \in CallType
  PROVE  /\ k.at \in {"generate", "retry"} => StepsLeft(k) = MaxAttempts + 2 - k.attempts
         /\ k.at = "fallback" => StepsLeft(k) = MaxAttempts + 3
         /\ k.at = "stream" => StepsLeft(k) = MaxAttempts + 4
         /\ k.at = "embed" => StepsLeft(k) = Cardinality(k.todo) + 1
         /\ k.at \in {"answered", "failed"} => StepsLeft(k) = 1
         /\ k.at = "rest" => StepsLeft(k) = 0
         /\ k.at \in Places /\ k.attempts \in 0..(MaxAttempts + 1) /\ MaxAttempts \in Nat \ {0}
<1>1. k.at \in Places /\ k.attempts \in 0..(MaxAttempts + 1) /\ MaxAttempts \in Nat \ {0}
  BY PolicyAssumption DEF CallType
<1>2. QED
  BY <1>1 DEF StepsLeft

LEMMA StepsLeftType ==
  ASSUME NEW k \in CallType
  PROVE  /\ StepsLeft(k) \in Nat
         /\ StepsLeft(k) <= IF k.at = "embed" THEN Cardinality(Engines) + 1 ELSE MaxAttempts + 4
         /\ k.at # "rest" => StepsLeft(k) >= 1
BY StepsLeftValues, EnginesLeft DEF Places

\* What moving on leaves: one attempt less, or nothing.
LEMMA MoveShrinks ==
  ASSUME IInv, IInv', NEW c \in Callers, call[c].at \in {"generate", "retry"}, MoveOn(c)
  PROVE  StepsLeft(call'[c]) < StepsLeft(call[c])
<1>1. /\ call[c] \in CallType /\ call'[c] \in CallType
      /\ call \in [Callers -> CallType]
  BY DEF IInv, FailoverTypeOK, CallType
<1>2. /\ call'[c].attempts = call[c].attempts + 1
      /\ call'[c].at \in {"generate", "failed"}
  BY <1>1 DEF MoveOn, CallType
<1>3. call[c].attempts \in Nat /\ call[c].attempts <= MaxAttempts
  BY <1>1, StepsLeftValues DEF IInv, CallOK
<1>4. QED
  BY <1>1, <1>2, <1>3, StepsLeftValues

\* Every step of a call leaves it with less to do.
LEMMA ProceedShrinks ==
  ASSUME IInv, IInv', NEW c \in Callers, Proceed(c)
  PROVE  StepsLeft(call'[c]) < StepsLeft(call[c])
<1>0. /\ call[c] \in CallType /\ call'[c] \in CallType
      /\ call \in [Callers -> CallType] /\ CallOK(c)
  BY DEF IInv, FailoverTypeOK, CallType
<1> DEFINE new == call'[c]
<1>1. CASE call[c].at = "fallback" /\ Generate(c)
  <2>1. new.at \in {"generate", "failed"} /\ new.attempts = 0
    BY <1>0, <1>1 DEF Generate, Enter, Fresh
  <2>2. QED
    BY <1>0, <1>1, <2>1, StepsLeftValues
<1>2. CASE Answer(c)
  <2>1. new.at = "answered" /\ call[c].at \in Calling
    BY <1>0, <1>2 DEF Answer, CallType
  <2>2. call[c].at = "embed" => Cardinality(call[c].todo) > 0
    <3>1. call[c].todo # {} /\ IsFiniteSet(call[c].todo) /\ Cardinality(call[c].todo) \in Nat
      BY <1>0, <2>1, EnginesLeft DEF CallOK
    <3>2. QED
      BY <3>1, FS_EmptySet
  <2>3. QED
    BY <1>0, <2>1, <2>2, StepsLeftValues, EnginesLeft DEF CallOK, Calling
<1>3. CASE RetryTransient(c)
  <2>1. new.at = "retry" /\ call[c].at = "generate" /\ new.attempts = call[c].attempts + 1
    BY <1>0, <1>3 DEF RetryTransient, CallType
  <2>2. QED
    BY <1>0, <2>1, StepsLeftValues
<1>4. CASE ReduceOutput(c)
  <2>1. /\ new.at \in {"generate", "failed"} /\ call[c].at = "generate"
        /\ new.attempts = call[c].attempts + 1 /\ call[c].attempts < MaxAttempts
    BY <1>0, <1>4 DEF ReduceOutput, CallType, CallOK
  <2>2. QED
    BY <1>0, <2>1, StepsLeftValues
<1>5. CASE LeaveAtMinimum(c) \/ Blame(c)
  <2>1. call[c].at \in {"generate", "retry"} /\ MoveOn(c)
    BY <1>5 DEF LeaveAtMinimum, Blame
  <2>2. QED
    BY <2>1, MoveShrinks
<1>6. CASE EmbedFails(c)
  <2> DEFINE left == call[c].todo \ {Current(c)}
  <2>1. /\ call[c].at = "embed" /\ new.todo = left
        /\ new.at = IF left = {} THEN "failed" ELSE "embed"
    BY <1>0, <1>6 DEF EmbedFails, CallType
  <2>2. Current(c) \in call[c].todo
    BY <2>1, CurrentLeft DEF Calling
  <2>3. /\ Cardinality(left) = Cardinality(call[c].todo) - 1
        /\ Cardinality(left) \in Nat /\ Cardinality(call[c].todo) \in Nat
    BY <1>0, <2>1, <2>2, EnginesLeft, FS_RemoveElement
  <2> HIDE DEF left
  <2>4. QED
    BY <1>0, <2>1, <2>3, StepsLeftValues
<1>7. CASE StreamBreaks(c)
  <2>1. call[c].at = "stream" /\ new.at = "fallback"
    BY <1>0, <1>7 DEF StreamBreaks, Fresh
  <2>2. QED
    BY <1>0, <2>1, StepsLeftValues
<1>8. CASE StreamAbandoned(c) \/ Return(c)
  <2>1. call[c].at \in {"stream", "answered", "failed"} /\ new.at = "rest"
    BY <1>0, <1>8 DEF StreamAbandoned, Return, Ends, Fresh
  <2>2. QED
    BY <1>0, <2>1, StepsLeftValues, StepsLeftType
<1>9. QED
  BY <1>1, <1>2, <1>3, <1>4, <1>5, <1>6, <1>7, <1>8 DEF Proceed

\* A caller's step is made on its own record.
LEMMA OthersKept ==
  ASSUME IInv, NEW c \in Callers, Proceed(c) \/ Generate(c) \/ Stream(c) \/ Embed(c),
         NEW d \in Callers, d # c
  PROVE  call'[d] = call[d]
<1>1. call \in [Callers -> CallType]
  BY DEF IInv, FailoverTypeOK, CallType
<1>2. CASE Generate(c) \/ Stream(c) \/ Embed(c)
  BY <1>1, <1>2 DEF Generate, Stream, Embed, Enter
<1>3. CASE Proceed(c) /\ ~Generate(c)
  BY <1>1, <1>3 DEF Proceed, Answer, RetryTransient, ReduceOutput, LeaveAtMinimum, Blame, MoveOn,
     EmbedFails, StreamBreaks, StreamAbandoned, Return, Ends
<1>4. QED
  BY <1>2, <1>3

LEMMA CallsShrinkStep ==
  ASSUME IInv, IInv', [FailoverNext]_failoverVars, NEW c \in Callers, call[c].at # "rest"
  PROVE  /\ StepsLeft(call'[c]) <= StepsLeft(call[c])
         /\ Proceed(c) => StepsLeft(call'[c]) < StepsLeft(call[c])
<1>0. StepsLeft(call[c]) \in Nat /\ StepsLeft(call'[c]) \in Nat
  BY StepsLeftType DEF IInv, FailoverTypeOK, CallType
<1>1. CASE Proceed(c)
  BY <1>0, <1>1, ProceedShrinks
<1>2. ASSUME ~Proceed(c)
      PROVE  call'[c] = call[c]
  <2>1. ASSUME NEW d \in Callers, Proceed(d) \/ Generate(d) \/ Stream(d) \/ Embed(d)
        PROVE  call'[c] = call[c]
    <3>1. d # c
      BY <1>2, <2>1 DEF Proceed, Generate, Stream, Embed
    <3>2. QED
      BY <2>1, <3>1, OthersKept
  <2>2. ASSUME NEW e \in Engines, CooldownEnds(e)
        PROVE  call'[c] = call[c]
    BY <2>2 DEF CooldownEnds
  <2>3. ASSUME ResetHealth \/ UNCHANGED failoverVars
        PROVE  call'[c] = call[c]
    BY <2>3 DEF ResetHealth, failoverVars
  <2>4. QED
    BY <2>1, <2>2, <2>3 DEF FailoverNext
<1>3. QED
  BY <1>0, <1>1, <1>2

\* Whatever the engines answer and however calls overlap, generate and stream
\* are over after max_attempts + 4 steps of their own, and embed after one
\* more than there are engines: the inline retry, the reduced output and the
\* fallback of a broken stream never make a call go round.
THEOREM CallsAreFinite == FailoverSpec => []CallsBounded /\ CallsShrink
<1>1. IInv => CallsBounded
  BY StepsLeftType DEF IInv, FailoverTypeOK, CallType, CallsBounded
<1>2. IInv /\ IInv' /\ [FailoverNext]_failoverVars =>
        [\A c \in Callers : call[c].at # "rest" =>
           /\ StepsLeft(call[c])' <= StepsLeft(call[c])
           /\ Proceed(c) => StepsLeft(call[c])' < StepsLeft(call[c])]_failoverVars
  BY CallsShrinkStep
<1>3. QED
  BY <1>1, <1>2, Invariance, PTL DEF FailoverSpec, CallsShrink
=============================================================================
