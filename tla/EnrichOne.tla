----------------------------- MODULE EnrichOne -----------------------------
(***************************************************************************)
(* One call of enrich_one (optima_kaggle/enrichment.py): the model is      *)
(* asked up to Retries + 1 times about one function; a reply that is not   *)
(* JSON is quoted back with a repair note, an out-of-memory error has one  *)
(* retry of its own with a smaller prompt, and every outcome ends in a     *)
(* category on the record or in an exception.  An OSError of the log and a *)
(* user's interrupt are left out: they end the call where it stands.       *)
(***************************************************************************)
EXTENDS Integers

CONSTANTS
  Retries,          \* gen.retries
  FixedBudgets,     \* values gen.max_new_tokens and the override can have
  ContextBudgets,   \* values max_new_tokens_for_context can return
  NoBudget          \* None

ASSUME RetriesAssumption == Retries \in Nat
ASSUME BudgetsAssumption ==
  /\ FixedBudgets \subseteq Nat
  /\ ContextBudgets \subseteq Nat
  /\ NoBudget \notin Nat

VARIABLES
  fixed,      \* gen.max_new_tokens, or NoBudget
  override,   \* max_new_tokens_override, or NoBudget
  pc,         \* where the loop body stands
  attempt,    \* attempts_made
  category,   \* why the last attempt ended as it did
  lastRaw,    \* last_raw: the attempt whose reply it is, 0 for ""
  note,       \* repair note of the current prompt: the attempt quoted, or 0
  budget,     \* max_new_tokens of the coming generate_text call
  logged,     \* attempts.jsonl: the last category logged for an attempt
  raised      \* the exception that left enrich_one

vars == <<fixed, override, pc, attempt, category, lastRaw, note, budget,
          logged, raised>>

Attempts   == 1..(Retries + 1)
Repairable == {"invalid_json", "schema_invalid", "output_truncated"}
Retryable  == Repairable \cup {"generation_error"}
Categories == Retryable \cup {"unknown", "completed", "prompt_too_long",
                              "prompt_build_error", "cuda_oom"}
NotLogged  == "not logged"

TypeOK ==
  /\ fixed \in FixedBudgets \cup {NoBudget}
  /\ override \in FixedBudgets \cup {NoBudget}
  /\ pc \in {"build", "generate", "oom_retry", "returned", "raised"}
  /\ attempt \in Attempts
  /\ category \in Categories
  /\ lastRaw \in 0..attempt
  /\ note \in 0..Retries
  /\ budget \in Nat
  /\ logged \in [Attempts -> Categories \cup {NotLogged}]
  /\ raised \in {"nothing", "GenerationOOMError", "other"}

Init ==
  /\ fixed \in FixedBudgets \cup {NoBudget}
  /\ override \in FixedBudgets \cup {NoBudget}
  /\ pc = "build"
  /\ attempt = 1
  /\ category = "unknown"
  /\ lastRaw = 0
  /\ note = 0
  /\ budget = 0
  /\ logged = [n \in Attempts |-> NotLogged]
  /\ raised = "nothing"

-----------------------------------------------------------------------------
(***************************************************************************)
(* How an attempt ends: `break', or `continue' to the next attempt if      *)
(* there is one.                                                           *)
(***************************************************************************)

Log(c) == logged' = [logged EXCEPT ![attempt] = c]

Break ==
  /\ pc' = "returned"
  /\ attempt' = attempt

Continue ==
  IF attempt < Retries + 1
  THEN pc' = "build" /\ attempt' = attempt + 1
  ELSE Break

-----------------------------------------------------------------------------
(***************************************************************************)
(* Building the prompt.                                                    *)
(***************************************************************************)

\* PromptTooLongError or any other exception: never retried.
PromptFails(c) ==
  /\ pc = "build"
  /\ category' = c
  /\ Log(c)
  /\ Break
  /\ UNCHANGED <<fixed, override, lastRaw, note, budget, raised>>

WantsRepair == attempt > 1 /\ category \in Repairable

Smaller(a, b) == IF a < b THEN a ELSE b
Larger(a, b)  == IF a > b THEN a ELSE b

AttemptBudgets ==
  IF override # NoBudget THEN {override}
  ELSE IF fixed # NoBudget THEN {fixed}
  ELSE ContextBudgets

\* Mutant: the reply quoted is the last one, whatever came in between.
PromptBuiltQuotingAny ==
  /\ pc = "build"
  /\ note' = IF attempt > 1 THEN lastRaw ELSE 0
  /\ budget' \in AttemptBudgets
  /\ pc' = "generate"
  /\ UNCHANGED <<fixed, override, attempt, category, lastRaw, logged, raised>>

\* Mutant: the budget is doubled, then capped by itself.
PromptBuiltUndoubled ==
  /\ pc = "build"
  /\ note' = IF WantsRepair THEN lastRaw ELSE 0
  /\ \E n \in AttemptBudgets : budget' = Smaller(2 * n, n)
  /\ pc' = "generate"
  /\ UNCHANGED <<fixed, override, attempt, category, lastRaw, logged, raised>>

PromptBuilt ==
  /\ pc = "build"
  /\ note' = IF WantsRepair THEN lastRaw ELSE 0
  /\ \E n \in AttemptBudgets :
        budget' = IF /\ WantsRepair
                     /\ category = "output_truncated"
                     /\ override = NoBudget
                     /\ fixed # NoBudget
                  THEN Smaller(2 * n, 1536)
                  ELSE n
  /\ pc' = "generate"
  /\ UNCHANGED <<fixed, override, attempt, category, lastRaw, logged, raised>>

-----------------------------------------------------------------------------
(***************************************************************************)
(* generate_text, in the attempt itself (pc = "generate") or in the        *)
(* out-of-memory retry of the attempt (pc = "oom_retry").                  *)
(***************************************************************************)

\* Any exception but torch.cuda.OutOfMemoryError.
GenerationFails ==
  /\ pc = "generate"
  /\ category' = "generation_error"
  /\ Log("generation_error")
  /\ Continue
  /\ UNCHANGED <<fixed, override, lastRaw, note, budget, raised>>

\* The retry's prompt is built anew, without a repair note.
OutOfMemory ==
  /\ pc = "generate"
  /\ pc' = "oom_retry"
  /\ Log("cuda_oom")
  /\ budget' = Larger(128, budget \div 2)
  /\ note' = 0
  /\ UNCHANGED <<fixed, override, attempt, category, lastRaw, raised>>

\* Mutant: the attempt starts over while memory is short.
OutOfMemoryAgainLooping ==
  /\ pc = "oom_retry"
  /\ category' = "cuda_oom"
  /\ Log("cuda_oom")
  /\ pc' = "generate"
  /\ UNCHANGED <<fixed, override, attempt, lastRaw, note, budget, raised>>

\* The GPU has 1 GiB free afterwards: only this function fails.
OutOfMemoryAgain ==
  /\ pc = "oom_retry"
  /\ category' = "cuda_oom"
  /\ Log("cuda_oom")
  /\ Break
  /\ UNCHANGED <<fixed, override, lastRaw, note, budget, raised>>

\* It has not: GenerationOOMError.
OutOfMemoryUnhealthy ==
  /\ pc = "oom_retry"
  /\ Log("cuda_oom")
  /\ pc' = "raised"
  /\ raised' = "GenerationOOMError"
  /\ UNCHANGED <<fixed, override, attempt, category, lastRaw, note, budget>>

\* PromptTooLongError of the reduced prompt, or an exception of the second
\* generate_text: the retry catches OutOfMemoryError only.
RetryFails ==
  /\ pc = "oom_retry"
  /\ pc' = "raised"
  /\ raised' = "other"
  /\ UNCHANGED <<fixed, override, attempt, category, lastRaw, note, budget, logged>>

\* Mutant: the reply of a failed attempt is not kept.
ReplyUnusableDropped(c) ==
  /\ pc \in {"generate", "oom_retry"}
  /\ category' = c
  /\ Log(c)
  /\ Continue
  /\ UNCHANGED <<fixed, override, lastRaw, note, budget, raised>>

\* The reply is not JSON: c says whether it hit the token limit.
ReplyUnusable(c) ==
  /\ pc \in {"generate", "oom_retry"}
  /\ category' = c
  /\ lastRaw' = attempt
  /\ Log(c)
  /\ Continue
  /\ UNCHANGED <<fixed, override, note, budget, raised>>

\* The reply is JSON, of the schema or not.
ReplyParsed ==
  /\ pc \in {"generate", "oom_retry"}
  /\ category' = "completed"
  /\ lastRaw' = attempt
  /\ Log("completed")
  /\ Break
  /\ UNCHANGED <<fixed, override, note, budget, raised>>

Step ==
  \/ \E c \in {"prompt_too_long", "prompt_build_error"} : PromptFails(c)
  \/ PromptBuilt
  \/ GenerationFails
  \/ OutOfMemory
  \/ OutOfMemoryAgain
  \/ OutOfMemoryUnhealthy
  \/ RetryFails
  \/ \E c \in {"output_truncated", "invalid_json"} : ReplyUnusable(c)
  \/ ReplyParsed

Ended == pc \in {"returned", "raised"}

Next == Step \/ (Ended /\ UNCHANGED vars)

\* Every call enrich_one makes returns or raises: a generation is bounded by
\* its token budget.
Spec == Init /\ [][Next]_vars /\ WF_vars(Step)

-----------------------------------------------------------------------------
(***************************************************************************)
(* Properties.                                                             *)
(***************************************************************************)

\* The repair note says "Your previous reply was not valid JSON" and quotes
\* last_raw: what it quotes is the reply of the attempt just before, and that
\* reply was refused, also when errors and out-of-memory retries intervene.
RepairQuotesPreviousReply ==
  (pc \in {"generate", "oom_retry"} /\ note # 0) =>
     note = attempt - 1 /\ logged[note] \in Repairable

\* RETRYABLE_CATEGORIES, which no code reads, still describes the loop: an
\* attempt is followed by another only if it ended in one of them ...
RetriesFollowRetryable ==
  \A n \in Attempts : n < attempt => logged[n] \in Retryable

\* ... and a record that carries one of them has used every attempt.
RetryableUsesEveryAttempt ==
  (pc = "returned" /\ category \in Retryable) => attempt = Retries + 1

\* evaluation.raw_response is "the exact text the model produced": a record
\* that blames a reply, or accepts one, carries that very reply, and the log
\* gives the record's own category as the attempt's last word.  A call that
\* leaves no record because an exception of the models escaped ran out of memory
\* first, in the attempt it left, and the log says so.
RecordExplained ==
  /\ pc = "returned" =>
       /\ logged[attempt] = category
       /\ category \in Repairable \cup {"completed"} => lastRaw = attempt
  /\ pc = "raised" => logged[attempt] = "cuda_oom"

\* A call ends, however errors, refusals and out-of-memory retries follow one
\* another.
Terminates == <>Ended

\* "Only a FIXED budget is doubled on retry": an attempt that follows a truncated
\* one never has less room, also after an out-of-memory retry had halved it, and
\* it has more unless the cap of 1536 tokens is reached or the truncated attempt
\* was such a retry itself: the fixed budget is doubled, not the last one, so a
\* reply truncated twice is asked for with the same room again.  Budgets from
\* the floor of the halving to the cap of the doubling are within its reach.
TruncatedGetsMoreRoom ==
  [][(/\ pc = "build"
      /\ pc' = "generate"
      /\ attempt > 1
      /\ category = "output_truncated"
      /\ override = NoBudget
      /\ fixed \in 128..1536) =>
        \/ budget' > budget
        \/ /\ budget' = budget
           /\ \/ budget = 1536
              \/ attempt > 2 /\ logged[attempt - 2] = "output_truncated"]_vars
=============================================================================
