-------------------------- MODULE EnrichmentProofs --------------------------
(***************************************************************************)
(* The two enrichment loops: the repair loop of enrich_one, for every      *)
(* number of retries and every budget, and the loops that resume from      *)
(* their own output, for every number of functions and runs.               *)
(***************************************************************************)
EXTENDS EnrichOne, ResumableEnrich, TLAPS

-----------------------------------------------------------------------------
(***************************************************************************)
(* Part 1, enrich_one.                                                     *)
(***************************************************************************)

\* What the loop knows of the attempt before the current one when it builds a
\* prompt: the category is the one logged for it, and last_raw is its reply
\* if the category blames a reply.
LoopKnowsPreviousAttempt ==
  pc = "build" =>
    /\ attempt = 1 => category = "unknown"
    /\ attempt > 1 =>
         /\ category = logged[attempt - 1]
         /\ category \in Repairable => lastRaw = attempt - 1

\* The attempt that ran out of memory has been logged before it is retried.
OutOfMemoryLogged == pc = "oom_retry" => logged[attempt] = "cuda_oom"

Inv ==
  /\ TypeOK
  /\ OutOfMemoryLogged
  /\ LoopKnowsPreviousAttempt
  /\ RepairQuotesPreviousReply
  /\ RetriesFollowRetryable
  /\ RetryableUsesEveryAttempt
  /\ RecordExplained

LEMMA InitInv == Init => Inv
<1> USE RetriesAssumption, BudgetsAssumption
<1> SUFFICES ASSUME Init PROVE Inv
  OBVIOUS
<1>1. TypeOK
  BY DEF Init, TypeOK, Attempts, Categories
<1>2. LoopKnowsPreviousAttempt /\ RetriesFollowRetryable
  BY DEF Init, LoopKnowsPreviousAttempt, RetriesFollowRetryable, Attempts
<1>3. /\ RepairQuotesPreviousReply /\ RetryableUsesEveryAttempt /\ RecordExplained
      /\ OutOfMemoryLogged
  BY DEF Init, OutOfMemoryLogged, RepairQuotesPreviousReply, RetryableUsesEveryAttempt, RecordExplained
<1> QED
  BY <1>1, <1>2, <1>3 DEF Inv

\* An attempt that ends in the category it logs, with its reply in last_raw if
\* the category is about a reply, keeps the invariant, whether the loop breaks
\* or (for a retryable category) continues.
LEMMA AttemptEnds ==
  ASSUME Inv, NEW c \in Categories \ {"unknown"},
         category' = c, Log(c),
         \/ Break
         \/ Continue /\ c \in Retryable,
         Break => c \notin Retryable \/ attempt = Retries + 1,
         lastRaw' \in {lastRaw, attempt},
         c \in Repairable \cup {"completed"} => lastRaw' = attempt,
         UNCHANGED <<fixed, override, note, budget, raised>>
  PROVE  Inv'
<1> USE RetriesAssumption
<1>1. /\ attempt \in Attempts /\ attempt \in Nat /\ attempt >= 1
      /\ logged \in [Attempts -> Categories \cup {NotLogged}]
      /\ logged' = [logged EXCEPT ![attempt] = c]
  BY DEF Inv, TypeOK, Attempts, Log
<1>2. logged'[attempt] = c /\ \A n \in Attempts : n # attempt => logged'[n] = logged[n]
  BY <1>1
<1>3. \/ pc' = "returned" /\ attempt' = attempt /\ (c \notin Retryable \/ attempt = Retries + 1)
      \/ /\ pc' = "build" /\ attempt' = attempt + 1
         /\ attempt < Retries + 1
         /\ c \in Retryable
  BY <1>1 DEF Break, Continue, Attempts
<1>4. TypeOK'
  <2>1. /\ attempt' \in Attempts
        /\ lastRaw' \in 0..attempt'
    BY <1>1, <1>3 DEF Inv, TypeOK, Attempts
  <2>2. logged' \in [Attempts -> Categories \cup {NotLogged}]
    BY <1>1
  <2> QED
    BY <1>3, <2>1, <2>2 DEF Inv, TypeOK
<1>5. LoopKnowsPreviousAttempt'
  BY <1>1, <1>2, <1>3 DEF LoopKnowsPreviousAttempt, Repairable
<1>6. RepairQuotesPreviousReply'
  BY <1>3 DEF RepairQuotesPreviousReply
<1>7. RetriesFollowRetryable'
  <2> SUFFICES ASSUME NEW n \in Attempts, n < attempt'
               PROVE  logged'[n] \in Retryable
    BY DEF RetriesFollowRetryable
  <2>1. CASE n = attempt
    BY <1>1, <1>2, <1>3, <2>1
  <2>2. CASE n # attempt
    BY <1>1, <1>2, <1>3, <2>2 DEF Inv, RetriesFollowRetryable, Attempts
  <2> QED
    BY <2>1, <2>2
<1>8. RetryableUsesEveryAttempt'
  BY <1>3 DEF RetryableUsesEveryAttempt
<1>9. RecordExplained' /\ OutOfMemoryLogged'
  BY <1>1, <1>2, <1>3 DEF RecordExplained, OutOfMemoryLogged
<1> QED
  BY <1>4, <1>5, <1>6, <1>7, <1>8, <1>9 DEF Inv

\* A prompt is built: the note quotes the attempt the loop knows.
LEMMA PromptBuiltInv ==
  ASSUME Inv, PromptBuilt
  PROVE  Inv'
<1> USE RetriesAssumption, BudgetsAssumption
<1>1. budget' \in Nat
  <2>1. PICK n \in AttemptBudgets : budget' \in {n, Smaller(2 * n, 1536)}
    BY DEF PromptBuilt
  <2>2. n \in Nat
    BY <2>1 DEF AttemptBudgets, Inv, TypeOK
  <2> QED
    BY <2>1, <2>2 DEF Smaller
<1>2. /\ note' = 0 \/ (note' = attempt - 1 /\ logged[note'] \in Repairable)
      /\ note' \in 0..Retries
  BY DEF PromptBuilt, WantsRepair, Inv, LoopKnowsPreviousAttempt, TypeOK, Attempts
<1>3. TypeOK'
  BY <1>1, <1>2 DEF PromptBuilt, Inv, TypeOK
<1>4. RepairQuotesPreviousReply'
  BY <1>2 DEF PromptBuilt, RepairQuotesPreviousReply
<1> QED
  BY <1>3, <1>4 DEF PromptBuilt, Inv, LoopKnowsPreviousAttempt, RetriesFollowRetryable,
     RetryableUsesEveryAttempt, RecordExplained, OutOfMemoryLogged

\* The first out-of-memory error of an attempt starts the retry of the
\* attempt, with a prompt that has no note.
LEMMA OutOfMemoryInv ==
  ASSUME Inv, OutOfMemory
  PROVE  Inv'
<1> USE RetriesAssumption
<1>1. /\ attempt \in Attempts /\ attempt \in Nat
      /\ logged' = [logged EXCEPT ![attempt] = "cuda_oom"]
      /\ logged \in [Attempts -> Categories \cup {NotLogged}]
  BY DEF OutOfMemory, Log, Inv, TypeOK, Attempts
<1>2. logged' \in [Attempts -> Categories \cup {NotLogged}]
  BY <1>1 DEF Categories
<1>3. \A n \in Attempts : n < attempt => logged'[n] = logged[n]
  BY <1>1
<1>4. budget' \in Nat
  BY DEF OutOfMemory, Larger, Inv, TypeOK
<1>5. TypeOK'
  BY <1>2, <1>4 DEF OutOfMemory, Inv, TypeOK
<1>6. RetriesFollowRetryable'
  BY <1>3 DEF OutOfMemory, Inv, RetriesFollowRetryable
<1>7. RepairQuotesPreviousReply'
  BY DEF OutOfMemory, RepairQuotesPreviousReply
<1>8. OutOfMemoryLogged'
  BY <1>1 DEF OutOfMemory, OutOfMemoryLogged
<1> QED
  BY <1>5, <1>6, <1>7, <1>8 DEF OutOfMemory, Inv, LoopKnowsPreviousAttempt,
     RetryableUsesEveryAttempt, RecordExplained

\* An exception leaves enrich_one.
LEMMA RaisedInv ==
  ASSUME Inv, OutOfMemoryUnhealthy \/ RetryFails
  PROVE  Inv'
<1> USE RetriesAssumption
<1>1. /\ attempt \in Attempts /\ attempt \in Nat
      /\ logged \in [Attempts -> Categories \cup {NotLogged}]
      /\ logged' = logged \/ logged' = [logged EXCEPT ![attempt] = "cuda_oom"]
      /\ pc' = "raised" /\ attempt' = attempt
  BY DEF OutOfMemoryUnhealthy, RetryFails, Log, Inv, TypeOK, Attempts
<1>2. logged' \in [Attempts -> Categories \cup {NotLogged}]
  BY <1>1 DEF Categories
<1>3. \A n \in Attempts : n < attempt => logged'[n] = logged[n]
  BY <1>1
<1>4. TypeOK'
  BY <1>1, <1>2 DEF OutOfMemoryUnhealthy, RetryFails, Inv, TypeOK
<1>5. RetriesFollowRetryable'
  BY <1>1, <1>3 DEF Inv, RetriesFollowRetryable
<1>6. logged'[attempt] = "cuda_oom"
  BY <1>1 DEF OutOfMemoryUnhealthy, RetryFails, Log, Inv, OutOfMemoryLogged
<1>7. OutOfMemoryLogged'
  BY <1>1 DEF OutOfMemoryLogged
<1> QED
  BY <1>1, <1>4, <1>5, <1>6, <1>7 DEF Inv, LoopKnowsPreviousAttempt, RepairQuotesPreviousReply,
     RetryableUsesEveryAttempt, RecordExplained

LEMMA NextInv ==
  ASSUME Inv, [Next]_vars
  PROVE  Inv'
<1>1. ASSUME NEW c \in {"prompt_too_long", "prompt_build_error"}, PromptFails(c)
      PROVE  Inv'
  <2>1. c \in Categories \ {"unknown"} /\ c \notin Retryable \cup {"completed"}
    BY DEF Categories, Retryable, Repairable
  <2> QED
    BY <1>1, <2>1, AttemptEnds DEF PromptFails, Retryable
<1>2. CASE PromptBuilt
  BY <1>2, PromptBuiltInv
<1>3. CASE GenerationFails
  <2>1. "generation_error" \in (Categories \ {"unknown"}) \cap Retryable
    BY DEF Categories, Retryable
  <2>2. "generation_error" \notin Repairable \cup {"completed"}
    BY DEF Repairable
  <2>3. Break => attempt = Retries + 1
    BY <1>3, RetriesAssumption DEF GenerationFails, Continue, Break, Inv, TypeOK, Attempts
  <2> QED
    BY <1>3, <2>1, <2>2, <2>3, AttemptEnds DEF GenerationFails
<1>4. CASE OutOfMemory
  BY <1>4, OutOfMemoryInv
<1>5. CASE OutOfMemoryAgain
  <2>1. "cuda_oom" \in Categories \ {"unknown"} /\ "cuda_oom" \notin Retryable \cup {"completed"}
    BY DEF Categories, Retryable, Repairable
  <2> QED
    BY <1>5, <2>1, AttemptEnds DEF OutOfMemoryAgain, Retryable
<1>6. CASE OutOfMemoryUnhealthy \/ RetryFails
  BY <1>6, RaisedInv
<1>7. ASSUME NEW c \in {"output_truncated", "invalid_json"}, ReplyUnusable(c)
      PROVE  Inv'
  <2>1. c \in Categories \ {"unknown"} /\ c \in Retryable
    BY DEF Categories, Retryable, Repairable
  <2>2. Break => attempt = Retries + 1
    BY <1>7, RetriesAssumption DEF ReplyUnusable, Continue, Break, Inv, TypeOK, Attempts
  <2> QED
    BY <1>7, <2>1, <2>2, AttemptEnds DEF ReplyUnusable
<1>8. CASE ReplyParsed
  <2>1. "completed" \in Categories \ {"unknown"} /\ "completed" \notin Retryable
    BY DEF Categories, Retryable, Repairable
  <2> QED
    BY <1>8, <2>1, AttemptEnds DEF ReplyParsed
<1>9. CASE UNCHANGED vars
  BY <1>9 DEF vars, Inv, TypeOK, LoopKnowsPreviousAttempt, RepairQuotesPreviousReply,
     RetriesFollowRetryable, RetryableUsesEveryAttempt, RecordExplained, OutOfMemoryLogged
<1> QED
  BY <1>1, <1>2, <1>3, <1>4, <1>5, <1>6, <1>7, <1>8, <1>9 DEF Next, Step

LEMMA AlwaysInv == Spec => []Inv
<1>1. Inv /\ [Next]_vars => Inv'
  BY NextInv
<1> QED
  BY InitInv, <1>1, PTL DEF Spec

\* For every number of retries: a repair note quotes the refused reply of the
\* attempt before it.
THEOREM EnrichOneRepairQuotesPreviousReply == Spec => []RepairQuotesPreviousReply
<1>1. Inv => RepairQuotesPreviousReply
  BY DEF Inv
<1> QED
  BY AlwaysInv, <1>1, PTL

\* evaluation.raw_response is the reply the record is about, and an exception
\* that escapes was an out-of-memory error first.
THEOREM EnrichOneRecordExplained == Spec => []RecordExplained
<1>1. Inv => RecordExplained
  BY DEF Inv
<1> QED
  BY AlwaysInv, <1>1, PTL

\* RETRYABLE_CATEGORIES describes the loop: attempts follow retryable ones only,
\* and a call that ends in one of them has used every attempt.
THEOREM EnrichOneRetries ==
  Spec => [](TypeOK /\ RetriesFollowRetryable /\ RetryableUsesEveryAttempt)
<1>1. Inv => TypeOK /\ RetriesFollowRetryable /\ RetryableUsesEveryAttempt
  BY DEF Inv
<1> QED
  BY AlwaysInv, <1>1, PTL

-----------------------------------------------------------------------------
(***************************************************************************)
(* The token budget of an attempt.                                         *)
(***************************************************************************)

\* gen.max_new_tokens bounds the reply, and halving and doubling do not leave
\* the range their floor and cap were chosen for.
BudgetInReach == override = NoBudget /\ fixed \in 128..1536

Doubled == Smaller(2 * fixed, 1536)

\* What attempt n was given before any out-of-memory error.
Given(n) ==
  IF n > 1 /\ logged[n - 1] = "output_truncated" THEN Doubled ELSE fixed

\* The budget of an attempt is what it was given, or less after an
\* out-of-memory error, also when the next prompt is about to be built.
BudgetIsGiven ==
  BudgetInReach =>
    /\ pc = "generate" => budget = Given(attempt)
    /\ pc = "oom_retry" => budget <= Given(attempt)
    /\ pc = "build" /\ attempt > 1 => budget <= Given(attempt - 1)

BudgetInv == Inv /\ BudgetIsGiven

LEMMA DoubledBounds ==
  ASSUME fixed \in 128..1536
  PROVE  /\ Doubled \in 128..1536
         /\ fixed <= Doubled
         /\ Doubled = fixed => Doubled = 1536
BY DEF Doubled, Smaller

\* Once an attempt is logged, what it was given is settled.
LEMMA GivenStays ==
  ASSUME TypeOK, NEW n \in Attempts, n <= attempt,
         fixed' = fixed,
         \A k \in Attempts : k < attempt => logged'[k] = logged[k]
  PROVE  Given(n)' = Given(n)
<1>1. n > 1 => n - 1 \in Attempts /\ n - 1 < attempt
  BY RetriesAssumption DEF Attempts, TypeOK
<1> QED
  BY <1>1 DEF Given, Doubled

\* In an attempt that follows a truncated one, gen.max_new_tokens is doubled.
LEMMA PromptBuiltGives ==
  ASSUME Inv, PromptBuilt, BudgetInReach
  PROVE  budget' = Given(attempt)
<1>1. AttemptBudgets = {fixed} /\ fixed # NoBudget
  BY BudgetsAssumption DEF AttemptBudgets, BudgetInReach
<1>2. attempt \in Nat /\ attempt >= 1
  BY RetriesAssumption DEF Inv, TypeOK, Attempts
<1>3. WantsRepair /\ category = "output_truncated"
        <=> attempt > 1 /\ logged[attempt - 1] = "output_truncated"
  <2>1. attempt > 1 => category = logged[attempt - 1]
    BY DEF PromptBuilt, Inv, LoopKnowsPreviousAttempt
  <2> QED
    BY <2>1 DEF WantsRepair, Repairable
<1> QED
  BY <1>1, <1>3 DEF PromptBuilt, BudgetInReach, Given, Doubled

LEMMA BudgetStep ==
  ASSUME BudgetInv, [Next]_vars
  PROVE  BudgetInv'
<1>1. Inv'
  BY NextInv DEF BudgetInv
<1> SUFFICES ASSUME BudgetInReach' PROVE BudgetIsGiven'
  BY <1>1 DEF BudgetInv, BudgetIsGiven
<1>2. PICK a \in Attempts : a = attempt
  BY DEF BudgetInv, Inv, TypeOK
<1>3. /\ a \in Nat /\ a >= 1 /\ budget \in Nat
      /\ logged \in [Attempts -> Categories \cup {NotLogged}]
      /\ TypeOK
  BY RetriesAssumption, <1>2 DEF BudgetInv, Inv, TypeOK, Attempts
<1>4. UNCHANGED <<fixed, override>>
  BY DEF Next, Step, PromptFails, PromptBuilt, GenerationFails, OutOfMemory,
     OutOfMemoryAgain, OutOfMemoryUnhealthy, RetryFails, ReplyUnusable,
     ReplyParsed, vars
<1>5. BudgetInReach /\ fixed \in 128..1536
  BY <1>4 DEF BudgetInReach
<1>6. Given(a)' = Given(a)
  <2>1. \A k \in Attempts : k < attempt => logged'[k] = logged[k]
    BY <1>2, <1>3 DEF Log, Next, Step, PromptFails, PromptBuilt, GenerationFails,
       OutOfMemory, OutOfMemoryAgain, OutOfMemoryUnhealthy, RetryFails,
       ReplyUnusable, ReplyParsed, vars
  <2> QED
    BY <1>2, <1>3, <1>4, <2>1, GivenStays
<1>7. Given(a) \in 128..1536
  BY <1>5, DoubledBounds DEF Given
<1>8. CASE PromptBuilt
  <2>1. budget' = Given(a) /\ pc' = "generate" /\ attempt' = a
    BY <1>2, <1>5, <1>8, PromptBuiltGives DEF BudgetInv, PromptBuilt
  <2> QED
    BY <1>6, <2>1 DEF BudgetIsGiven
<1>9. CASE OutOfMemory
  <2>1. budget = Given(a) /\ budget' <= budget /\ pc' = "oom_retry" /\ attempt' = a
    BY <1>2, <1>3, <1>5, <1>7, <1>9 DEF BudgetInv, BudgetIsGiven, OutOfMemory, Larger
  <2> QED
    BY <1>6, <1>9, <2>1 DEF BudgetIsGiven
<1>10. ASSUME pc \in {"generate", "oom_retry"}, Break \/ Continue, budget' = budget
       PROVE  BudgetIsGiven'
  <2>1. budget' <= Given(a)'
    BY <1>2, <1>3, <1>5, <1>6, <1>7, <1>10 DEF BudgetInv, BudgetIsGiven
  <2>2. \/ pc' = "returned"
        \/ pc' = "build" /\ attempt' = a + 1
    BY <1>2, <1>10 DEF Break, Continue
  <2>3. CASE pc' = "returned"
    BY <2>3 DEF BudgetIsGiven
  <2>4. CASE pc' = "build" /\ attempt' = a + 1
    <3>1. attempt' - 1 = a
      BY <1>3, <2>4
    <3> QED
      BY <2>1, <2>4, <3>1 DEF BudgetIsGiven
  <2> QED
    BY <2>2, <2>3, <2>4
<1>11. CASE GenerationFails \/ OutOfMemoryAgain \/ ReplyParsed
  BY <1>10, <1>11 DEF GenerationFails, OutOfMemoryAgain, ReplyParsed
<1>12. ASSUME NEW c \in {"output_truncated", "invalid_json"}, ReplyUnusable(c)
       PROVE  BudgetIsGiven'
  BY <1>10, <1>12 DEF ReplyUnusable
<1>13. CASE \/ \E c \in {"prompt_too_long", "prompt_build_error"} : PromptFails(c)
            \/ OutOfMemoryUnhealthy \/ RetryFails
  BY <1>13 DEF BudgetIsGiven, PromptFails, Break, OutOfMemoryUnhealthy, RetryFails
<1>14. CASE UNCHANGED vars
  BY <1>14 DEF vars, BudgetInv, BudgetIsGiven, BudgetInReach, Given, Doubled
<1> QED
  BY <1>8, <1>9, <1>11, <1>12, <1>13, <1>14 DEF Next, Step

\* "Only a FIXED budget is doubled on retry": for every number of retries and
\* every budget within reach, a truncated attempt is never followed by one with
\* less room, and by one with the same only at the cap or after a second
\* truncation.
THEOREM EnrichOneTruncatedGetsMoreRoom == Spec => TruncatedGetsMoreRoom
<1>1. Init => BudgetInv
  <2> SUFFICES ASSUME Init PROVE BudgetInv
    OBVIOUS
  <2>1. BudgetIsGiven
    BY DEF Init, BudgetIsGiven
  <2> QED
    BY <2>1, InitInv DEF BudgetInv
<1>2. BudgetInv /\ [Next]_vars => BudgetInv'
  BY BudgetStep
<1>3. ASSUME BudgetInv, [Next]_vars,
             pc = "build", pc' = "generate", attempt > 1,
             category = "output_truncated",
             override = NoBudget, fixed \in 128..1536
      PROVE  \/ budget' > budget
             \/ /\ budget' = budget
                /\ \/ budget = 1536
                   \/ attempt > 2 /\ logged[attempt - 2] = "output_truncated"
  <2>1. PromptBuilt
    BY <1>3 DEF Next, Step, PromptFails, PromptBuilt, GenerationFails, OutOfMemory,
       OutOfMemoryAgain, OutOfMemoryUnhealthy, RetryFails, ReplyUnusable,
       ReplyParsed, Break, vars
  <2>2. attempt \in Nat /\ budget \in Nat /\ category = logged[attempt - 1]
    BY <1>3, RetriesAssumption
       DEF BudgetInv, Inv, TypeOK, Attempts, LoopKnowsPreviousAttempt
  <2>3. budget' = Doubled
    <3>1. budget' = Given(attempt)
      BY <1>3, <2>1, PromptBuiltGives DEF BudgetInv, BudgetInReach
    <3> QED
      BY <1>3, <2>2, <3>1 DEF Given
  <2>4. budget <= Given(attempt - 1)
    BY <1>3 DEF BudgetInv, BudgetIsGiven, BudgetInReach
  <2>5. /\ Doubled \in 128..1536 /\ fixed <= Doubled
        /\ Doubled = fixed => Doubled = 1536
    BY <1>3, DoubledBounds
  <2>6. CASE attempt - 1 > 1 /\ logged[(attempt - 1) - 1] = "output_truncated"
    <3>1. attempt > 2 /\ (attempt - 1) - 1 = attempt - 2
      BY <2>2, <2>6
    <3>2. budget <= Doubled
      BY <2>4, <2>6 DEF Given
    <3> QED
      BY <2>2, <2>3, <2>5, <2>6, <3>1, <3>2
  <2>7. CASE ~(attempt - 1 > 1 /\ logged[(attempt - 1) - 1] = "output_truncated")
    <3>1. budget <= fixed
      BY <2>4, <2>7 DEF Given
    <3> QED
      BY <1>3, <2>2, <2>3, <2>5, <3>1
  <2> QED
    BY <2>6, <2>7
<1>4. BudgetInv /\ [Next]_vars =>
        [(/\ pc = "build" /\ pc' = "generate" /\ attempt > 1
          /\ category = "output_truncated"
          /\ override = NoBudget /\ fixed \in 128..1536) =>
            \/ budget' > budget
            \/ /\ budget' = budget
               /\ \/ budget = 1536
                  \/ attempt > 2 /\ logged[attempt - 2] = "output_truncated"]_vars
  BY <1>3
<1> QED
  BY <1>1, <1>2, <1>4, PTL DEF Spec, TruncatedGetsMoreRoom

-----------------------------------------------------------------------------
(***************************************************************************)
(* Part 2, enrich_nodes and enrich_analysis.                               *)
(***************************************************************************)

\* The artifact in memory has exactly the functions the loop has passed, the
\* prior ones among them completed.
ResultIsPassed ==
  loopPc # "stopped" =>
    /\ at <= limit + 1
    /\ \A f \in Functions :
         /\ result[f] # "none" <=> f < at
         /\ f < at /\ f \in prior => result[f] = "completed"

FinishedIsSaved == loopPc = "finished" => output = result /\ at = limit + 1

ResumableInv ==
  /\ LoopTypeOK
  /\ ResultIsPassed
  /\ FinishedIsSaved
  /\ SavedOutputHasNoGaps

\* What the loop has passed, once saved, has no gaps.
LEMMA PassedHasNoGaps ==
  ASSUME NEW n \in 1..(Count + 1), NEW artifact,
         \A f \in Functions : artifact[f] # "none" <=> f < n
  PROVE  \E m \in Functions \cup {0} : \A f \in Functions :
           artifact[f] # "none" <=> f <= m
<1> USE CountAssumption
<1>1. n - 1 \in Functions \cup {0}
  BY DEF Functions
<1>2. \A f \in Functions : f < n <=> f <= n - 1
  BY DEF Functions
<1> QED
  BY <1>1, <1>2

LEMMA ResumableInitInv ==
  ASSUME LoopInit
  PROVE  ResumableInv
<1>1. LoopTypeOK
  <2>1. Bare \in [Functions -> Enrichments]
    BY DEF Bare, Enrichments
  <2>2. 0 \in 0..MaxRuns /\ 0 \in 0..Count /\ 1 \in 1..(Count + 1)
    BY CountAssumption, MaxRunsAssumption
  <2> QED
    BY <2>1, <2>2, Zenon DEF LoopInit, LoopTypeOK
<1> QED
  BY <1>1 DEF LoopInit, ResumableInv, ResultIsPassed, FinishedIsSaved,
     SavedOutputHasNoGaps

\* The function the loop is at gets an enrichment, and the loop goes on.
LEMMA PassInv ==
  ASSUME ResumableInv,
         loopPc = "loop", at <= limit,
         NEW outcome \in {"completed", "failed"},
         at \in prior => outcome = "completed",
         result' = [result EXCEPT ![at] = outcome],
         at' = at + 1,
         UNCHANGED <<torn, runs, loopPc, limit, prior>>,
         \/ UNCHANGED <<exists, output>>
         \/ output' = result' /\ exists' = TRUE
  PROVE  ResumableInv'
<1> USE CountAssumption
<1>1. /\ at \in Functions /\ at \in Nat /\ limit \in Nat
      /\ at' \in 1..(Count + 1) /\ at' <= limit' + 1
      /\ result \in [Functions -> Enrichments]
  BY DEF ResumableInv, LoopTypeOK, Functions
<1>2. /\ result' \in [Functions -> Enrichments]
      /\ result'[at] = outcome /\ outcome # "none"
      /\ \A f \in Functions : f # at => result'[f] = result[f]
  BY <1>1 DEF Enrichments
<1>3. LoopTypeOK'
  BY <1>1, <1>2 DEF ResumableInv, LoopTypeOK, Functions
<1>4. ResultIsPassed'
  <2>1. \A f \in Functions : f < at' <=> f < at \/ f = at
    BY <1>1 DEF Functions
  <2> QED
    BY <1>1, <1>2, <2>1 DEF ResumableInv, ResultIsPassed, Functions
<1>5. FinishedIsSaved'
  BY DEF FinishedIsSaved
<1>6. SavedOutputHasNoGaps'
  <2>1. CASE UNCHANGED <<exists, output>>
    BY <2>1 DEF ResumableInv, SavedOutputHasNoGaps, Functions
  <2>2. CASE output' = result' /\ exists' = TRUE
    <3>1. \A f \in Functions : output'[f] # "none" <=> f < at'
      BY <1>4, <2>2 DEF ResultIsPassed, Functions
    <3> QED
      BY <1>1, <3>1, PassedHasNoGaps DEF SavedOutputHasNoGaps, Functions
  <2> QED
    BY <2>1, <2>2
<1> QED
  BY <1>3, <1>4, <1>5, <1>6 DEF ResumableInv

LEMMA ResumableNextInv ==
  ASSUME ResumableInv, [LoopNext]_loopVars
  PROVE  ResumableInv'
<1> USE CountAssumption, MaxRunsAssumption
<1>1. ASSUME NEW n \in 0..Count, Start(n) PROVE ResumableInv'
  <2>1. LoopTypeOK'
    BY <1>1 DEF Start, ResumableInv, LoopTypeOK, PriorOf,
       Completed, Bare, Functions, Enrichments
  <2>2. ResultIsPassed' /\ FinishedIsSaved'
    BY <1>1 DEF Start, ResultIsPassed, FinishedIsSaved, Bare,
       Functions
  <2>3. SavedOutputHasNoGaps'
    BY <1>1 DEF Start, ResumableInv, SavedOutputHasNoGaps,
       Functions
  <2> QED
    BY <2>1, <2>2, <2>3 DEF ResumableInv
<1>2. CASE KeepPrior
  BY <1>2, PassInv DEF KeepPrior
<1>3. ASSUME NEW outcome \in {"completed", "failed"}, EnrichAndSave(outcome)
      PROVE  ResumableInv'
  BY <1>3, PassInv DEF EnrichAndSave
<1>4. CASE Finish
  <2>1. at = limit + 1 /\ at \in 1..(Count + 1)
    BY <1>4 DEF Finish, ResumableInv, LoopTypeOK, ResultIsPassed
  <2>2. LoopTypeOK'
    BY <1>4 DEF Finish, ResumableInv, LoopTypeOK, Functions
  <2>3. ResultIsPassed' /\ FinishedIsSaved'
    BY <1>4, <2>1 DEF Finish, ResumableInv, ResultIsPassed, FinishedIsSaved,
       Functions
  <2>4. \A f \in Functions : output'[f] # "none" <=> f < at
    BY <1>4 DEF Finish, ResumableInv, ResultIsPassed
  <2>5. SavedOutputHasNoGaps'
    BY <2>1, <2>4, PassedHasNoGaps DEF SavedOutputHasNoGaps, Functions
  <2> QED
    BY <2>2, <2>3, <2>5 DEF ResumableInv
<1>5. CASE Crash
  BY <1>5 DEF Crash, ResumableInv, LoopTypeOK, ResultIsPassed,
     FinishedIsSaved, SavedOutputHasNoGaps, Functions
<1>6. CASE CrashInFinish
  BY <1>6 DEF CrashInFinish, ResumableInv, LoopTypeOK, ResultIsPassed,
     FinishedIsSaved, SavedOutputHasNoGaps, Functions,
     Bare, Enrichments
<1>7. CASE UNCHANGED loopVars
  BY <1>7 DEF loopVars, ResumableInv, LoopTypeOK, ResultIsPassed,
     FinishedIsSaved, SavedOutputHasNoGaps, Functions
<1> QED
  BY <1>1, <1>2, <1>3, <1>4, <1>5, <1>6, <1>7 DEF LoopNext

LEMMA AlwaysResumableInv == LoopSpec => []ResumableInv
<1>1. LoopInit => ResumableInv
  BY ResumableInitInv
<1>2. ResumableInv /\ [LoopNext]_loopVars => ResumableInv'
  BY ResumableNextInv
<1> QED
  BY <1>1, <1>2, PTL DEF LoopSpec

\* The loops keep their types, for every number of functions and runs.
THEOREM ResumableTypeOK == LoopSpec => []LoopTypeOK
<1>1. ResumableInv => LoopTypeOK
  BY DEF ResumableInv
<1> QED
  BY AlwaysResumableInv, <1>1, PTL

\* A run that finishes has an enrichment for every function it was asked for,
\* and has kept what the output held of them when it started, whatever runs
\* were cut short before it.
THEOREM ResumableKeepsPrior == LoopSpec => []FinishedRunKeepsPrior
<1>1. ResumableInv => FinishedRunKeepsPrior
  <2> SUFFICES ASSUME ResumableInv, loopPc = "finished", NEW f \in 1..limit
               PROVE  output[f] # "none" /\ (f \in prior => output[f] = "completed")
    BY DEF FinishedRunKeepsPrior
  <2>1. f \in Functions /\ f < at
    BY CountAssumption DEF ResumableInv, LoopTypeOK, FinishedIsSaved, Functions
  <2> QED
    BY <2>1 DEF ResumableInv, ResultIsPassed, FinishedIsSaved
<1> QED
  BY AlwaysResumableInv, <1>1, PTL

\* An output that can be read shows the functions up to the last a run
\* enriched, and none beyond, wherever that run was cut short.
THEOREM ResumableOutputHasNoGaps == LoopSpec => []SavedOutputHasNoGaps
<1>1. ResumableInv => SavedOutputHasNoGaps
  BY DEF ResumableInv
<1> QED
  BY AlwaysResumableInv, <1>1, PTL
=============================================================================
