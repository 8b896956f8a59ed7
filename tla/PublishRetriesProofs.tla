------------------------ MODULE PublishRetriesProofs ------------------------
(***************************************************************************)
(* The duplicate window covers the retries of the publish step, for every  *)
(* retry policy, timeout and window.  The invariant compares two measures  *)
(* of the time since the message was stored: its age, and the time in      *)
(* which the step waited or was over.  Their difference is time that       *)
(* attempts and backing off took, and that is bounded by the policy.       *)
(***************************************************************************)
EXTENDS PublishRetries, TLAPS

\* The most that attempts and intervals can have taken so far.
Spent ==
  IF at \in Executing THEN Span[try] - StartToClose + clock
  ELSE IF at = "backoff" THEN Span[try] + clock
  ELSE IF at = "queued" THEN Span[try] - StartToClose
  ELSE Span[MaxAttempts]

RetriesInv == TypeOK /\ (at = "backoff" => try < MaxAttempts) /\ age <= waited + Spent

LEMMA BackoffType == \A n \in 1..MaxAttempts : Backoff[n] \in 0..MaximumInterval
  BY NumbersAssumption DEF Backoff

\* What attempts and intervals take grows up to the span of all attempts.
LEMMA Spans ==
  ASSUME TypeOK
  PROVE  /\ Span[try] \in Nat /\ Span[MaxAttempts] \in Nat /\ StartToClose \in Nat
         /\ Backoff[try] \in Nat
         /\ StartToClose <= Span[try] /\ Span[try] <= Span[MaxAttempts]
         /\ try < MaxAttempts => /\ try + 1 \in 1..MaxAttempts
                                 /\ Span[try + 1] = Span[try] + Backoff[try] + StartToClose
                                 /\ Span[try + 1] <= Span[MaxAttempts]
<1>1. try \in 1..MaxAttempts /\ MaxAttempts \in 1..MaxAttempts /\ try \in Nat /\ MaxAttempts \in Nat
  BY NumbersAssumption DEF TypeOK
<1>2. Span[try] \in Nat /\ Span[MaxAttempts] \in Nat /\ Span[try] <= Span[MaxAttempts]
  BY <1>1, SpanAssumption
<1>3. Backoff[try] \in Nat /\ StartToClose \in Nat
  BY <1>1, BackoffType, NumbersAssumption
<1>4. StartToClose <= Span[try]
  <2>1. CASE try = 1
    BY <1>3, <2>1, SpanAssumption
  <2>2. CASE try # 1
    <3>1. try - 1 \in 1..(MaxAttempts - 1) /\ try - 1 \in 1..MaxAttempts /\ (try - 1) + 1 = try
      BY <1>1, <2>2
    <3>2. Span[try] = Span[try - 1] + Backoff[try - 1] + StartToClose
      BY <3>1, SpanAssumption
    <3>3. Span[try - 1] \in Nat /\ Backoff[try - 1] \in Nat
      BY <3>1, SpanAssumption, BackoffType, NumbersAssumption
    <3> QED  BY <1>3, <3>2, <3>3
  <2> QED  BY <2>1, <2>2
<1>5. ASSUME try < MaxAttempts
      PROVE  /\ try + 1 \in 1..MaxAttempts
             /\ Span[try + 1] = Span[try] + Backoff[try] + StartToClose
             /\ Span[try + 1] <= Span[MaxAttempts]
  <2>1. try \in 1..(MaxAttempts - 1) /\ try + 1 \in 1..MaxAttempts
    BY <1>1, <1>5
  <2> QED  BY <2>1, SpanAssumption
<1> QED  BY <1>2, <1>3, <1>4, <1>5

\* A message that is stored starts both measures again.
LEMMA StoreKeeps ==
  ASSUME TypeOK, Store \/ UNCHANGED <<age, waited, copies>>
  PROVE  /\ age' \in 0..Window /\ waited' \in 0..Window /\ copies' \in Nat
         /\ \/ age' = 0 /\ waited' = 0
            \/ age' = age /\ waited' = waited
  BY NumbersAssumption DEF TypeOK, Store

LEMMA Start == Init => RetriesInv
<1> SUFFICES ASSUME Init PROVE RetriesInv
  OBVIOUS
<1>1. TypeOK
  <2>1. 1 \in 1..MaxAttempts
    BY NumbersAssumption
  <2> QED  BY <2>1, NumbersAssumption DEF Init, TypeOK, Executing
<1>2. Spent \in Nat
  BY <1>1, Spans DEF Init, Spent, Executing
<1> QED  BY <1>1, <1>2 DEF Init, RetriesInv, TypeOK, Executing

\* An attempt ends without success: what it took is part of the span of the attempts.
LEMMA FailureKeeps ==
  ASSUME RetriesInv, at \in Executing, AttemptFails
  PROVE  RetriesInv'
<1> USE DEF RetriesInv
<1>1. /\ at' \in {"backoff", "closed"} /\ clock' = 0 /\ late' \in Nat
      /\ at' = "backoff" => try < MaxAttempts
      /\ UNCHANGED <<try, age, waited, copies>>
  BY DEF AttemptFails, TypeOK
<1>2. TypeOK'
  <2>1. 0 <= Backoff[try]
    BY Spans
  <2> QED  BY <1>1, <2>1 DEF TypeOK, Executing
<1> PICK bound : bound = IF at' = "backoff" THEN Span[try] ELSE Span[MaxAttempts]
  OBVIOUS
<1>3. Spent' = bound
  BY <1>1, Spans DEF Spent, Executing
<1>4. Spent = Span[try] - StartToClose + clock /\ clock \in Nat /\ clock <= StartToClose
  BY DEF Spent, TypeOK
<1>5. age \in Int /\ waited \in Int /\ Spent \in Int /\ Spent <= bound /\ bound \in Int
  BY <1>4, Spans DEF TypeOK
<1>6. age' <= waited' + bound
  BY <1>1, <1>5
<1> QED  BY <1>1, <1>2, <1>3, <1>6

LEMMA TickKeeps ==
  ASSUME RetriesInv, Tick
  PROVE  RetriesInv'
<1> USE DEF RetriesInv
<1>1. /\ age \in 0..Window /\ waited \in 0..Window /\ clock \in Nat /\ Window \in Nat
      /\ UNCHANGED <<at, try, late, copies>>
      /\ age' = Later(age) /\ age' \in 0..Window /\ age' <= age + 1
  BY NumbersAssumption DEF TypeOK, Tick, Later
<1>2. waited' \in 0..Window
  BY <1>1 DEF Tick, Later
<1>3. TypeOK'
  BY <1>1, <1>2, Spans DEF TypeOK, Tick, Executing
<1>4. CASE at \in Executing \cup {"backoff"}
  <2>1. clock' = clock + 1 /\ waited' = waited
    BY <1>4 DEF Tick, Executing
  <2>2. Spent \in Int /\ Spent' = Spent + 1
    BY <1>1, <1>4, <2>1, Spans DEF Spent
  <2> QED  BY <1>1, <1>3, <2>1, <2>2
<1>5. CASE at \in {"queued", "closed"}
  <2>1. clock' = clock /\ waited' = Later(waited)
    BY <1>5 DEF Tick, Executing
  <2>2. Spent' = Spent /\ Spent \in Nat
    BY <1>1, <1>5, <2>1, Spans DEF Spent, Executing
  <2>3. waited' = waited + 1 \/ waited' = Window
    BY <2>1 DEF Later
  <2> QED  BY <1>1, <1>2, <1>3, <1>5, <2>2, <2>3
<1> QED  BY <1>4, <1>5 DEF TypeOK

LEMMA StepKeeps ==
  ASSUME RetriesInv, [Next]_vars
  PROVE  RetriesInv'
<1> USE DEF RetriesInv
<1>1. CASE Take
  <2>1. Spent' = Spent
    BY <1>1, Spans DEF Take, Spent, Executing
  <2> QED  BY <1>1, <2>1, NumbersAssumption DEF Take, TypeOK, Executing
<1>2. CASE Publish \/ Straggle
  <2>1. /\ age' \in 0..Window /\ waited' \in 0..Window /\ copies' \in Nat
        /\ (age' = 0 /\ waited' = 0) \/ (age' = age /\ waited' = waited)
    <3>1. Store \/ UNCHANGED <<age, waited, copies>>
      BY <1>2 DEF Publish, Straggle
    <3> QED  BY <3>1, StoreKeeps
  <2>2. /\ late' \in Nat /\ UNCHANGED <<try, clock>>
        /\ at' = at \/ (at \in Executing /\ at' \in Executing)
    BY <1>2 DEF Publish, Straggle, TypeOK, Executing
  <2>3. TypeOK'
    BY <2>1, <2>2 DEF TypeOK, Executing
  <2>4. Spent \in Int /\ 0 <= Spent
    BY Spans DEF Spent, TypeOK, Executing
  <2>5. age' <= waited' + Spent
    <3>1. age \in Int /\ waited \in Int /\ age <= waited + Spent
      BY DEF TypeOK
    <3>2. CASE age' = 0 /\ waited' = 0
      BY <2>4, <3>2
    <3>3. CASE age' = age /\ waited' = waited
      BY <3>1, <3>3
    <3> QED  BY <2>1, <3>2, <3>3
  <2>6. Spent' = Spent
    BY <2>2 DEF Spent, Executing
  <2> QED  BY <2>2, <2>3, <2>5, <2>6 DEF Executing
<1>3. CASE Return
  <2>1. at \in Executing /\ at' = "closed" /\ UNCHANGED <<try, clock, late, age, waited, copies>>
    BY <1>3 DEF Return, Executing
  <2>2. Spent \in Int /\ Spent <= Span[MaxAttempts] /\ Span[MaxAttempts] \in Int
    BY <2>1, Spans DEF Spent, TypeOK, Executing
  <2>3. TypeOK' /\ age \in Int /\ waited \in Int
    BY <2>1 DEF TypeOK, Executing
  <2>4. age' <= waited' + Span[MaxAttempts]
    BY <2>1, <2>2, <2>3
  <2>5. Spent' = Span[MaxAttempts]
    BY <2>1 DEF Spent, Executing
  <2> QED  BY <2>1, <2>3, <2>4, <2>5
<1>4. CASE Raise \/ Timeout
  BY <1>4, FailureKeeps DEF Raise, Timeout, Executing
<1>5. CASE Vanish
  <2>1. Spent' = Spent
    BY <1>5 DEF Vanish, Spent, Executing
  <2> QED  BY <1>5, <2>1 DEF Vanish, TypeOK, Executing
<1>6. CASE Retry
  <2>1. /\ at = "backoff" /\ try < MaxAttempts /\ clock = Backoff[try]
        /\ at' = "queued" /\ try' = try + 1 /\ UNCHANGED <<clock, late, age, waited, copies>>
    BY <1>6 DEF Retry
  <2>2. Spent = Span[try] + clock /\ Spent' = Span[try + 1] - StartToClose
    BY <2>1 DEF Spent, Executing
  <2>3. Spent' = Spent
    BY <2>1, <2>2, Spans
  <2> QED  BY <2>1, <2>3, Spans DEF TypeOK, Executing
<1>7. CASE Tick
  BY <1>7, TickKeeps
<1>8. CASE UNCHANGED vars
  BY <1>8 DEF vars, TypeOK, Spent
<1> QED  BY <1>1, <1>2, <1>3, <1>4, <1>5, <1>6, <1>7, <1>8 DEF Next

\* The span of all attempts bounds what was spent, so a message that has outlived the
\* window has spent the rest of it waiting.
LEMMA RepeatHasWaited ==
  ASSUME RetriesInv, [Next]_vars, copies' # copies
  PROVE  waited >= Window - Span[MaxAttempts]
<1>1. Publish \/ Straggle
  BY DEF Next, vars, Take, Return, Raise, Timeout, Vanish, Retry, Tick, AttemptFails
<1>2. age = Window
  BY <1>1 DEF Publish, Straggle, Store
<1>3. Spent \in Int /\ Spent <= Span[MaxAttempts]
  BY Spans DEF RetriesInv, Spent, TypeOK, Executing
<1> QED  BY <1>2, <1>3, Spans, NumbersAssumption DEF RetriesInv, TypeOK

\* For every retry policy, timeout and window, and whatever fails, dies, times out or
\* comes late: a second copy of a message means that the publish step has waited for
\* workers, or has been over, for all of the window but the span of its attempts.
THEOREM RetriesAreCovered == Spec => WindowCoversRetries
<1>1. RetriesInv /\ [Next]_vars => RetriesInv'
  BY StepKeeps
<1>2. RetriesInv /\ [Next]_vars =>
        [copies > 0 /\ copies' # copies => waited >= Window - Span[MaxAttempts]]_vars
  BY RepeatHasWaited
<1> QED  BY <1>1, <1>2, Start, PTL DEF Spec, WindowCoversRetries
=============================================================================
