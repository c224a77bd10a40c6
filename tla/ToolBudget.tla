----------------------------- MODULE ToolBudget -----------------------------
(***************************************************************************)
(* internal/orchestrator/tool_budget.go: how tool results are shortened to *)
(* a number of tokens.  task = "fit": the results of a tool loop, one by   *)
(* one, into the context (fit, with the placeholder of tool_loop.go:306).  *)
(* task = "retry": all results of a run once more, into the smaller budget *)
(* of the final retry (compactToolResults), each into a cumulative share.  *)
(*                                                                         *)
(* A result is what the counter says of it: whole is its number of tokens, *)
(* cut[k] that of the JSON object that holds its first k runes and the     *)
(* mark "truncated".  The tokens of several messages add up.               *)
(***************************************************************************)
EXTENDS Integers

CONSTANTS Budget,       \* maxToolContextTokens - toolBudgetReserve
          PageBudget,   \* maxFetchPageTokens
          RetryBudget,  \* maxRetryToolTokens
          NearlyFull,   \* the 32 tokens in fit
          Placeholder,  \* tokens of the error context_budget_reached
          Results,      \* bound: the results a tool may give
          MaxResults    \* bound: results of one run

ASSUME BudgetAssumption ==
    /\ Budget \in Nat /\ PageBudget \in Nat /\ RetryBudget \in Nat
    /\ NearlyFull \in Nat /\ Placeholder \in Nat /\ MaxResults \in Nat \ {0}
    /\ \A r \in Results :
         /\ r.len \in Nat /\ r.whole \in Nat
         /\ r.cut \in [0 .. r.len -> Nat]
         /\ r.page \in BOOLEAN       \* a result of fetch_page
         /\ r.forced \in BOOLEAN     \* longer than maxToolResultBytes

VARIABLES
    task,       \* "fit" or "retry"
    count,      \* retry: the number of tool messages
    seen,       \* results taken so far, the current one included
    stage,      \* "next", "whole", "search"; "failed" if the retry gave up,
                \* "error" if the counter did
    result,     \* the current result
    low, high,  \* the search over its prefixes
    best,       \* the longest prefix found to fit, -1 if none
    used,       \* tokens of the tool messages that were built
    over,       \* how many of them are placeholders
    withdrawn   \* disableTools was called

budgetVars == <<task, count, seen, stage, result, low, high, best, used, over, withdrawn>>
searchVars == <<low, high, best>>

BudgetInit ==
    /\ task \in {"fit", "retry"}
    /\ count \in 1 .. MaxResults
    /\ seen = 0
    /\ stage = "next"
    /\ result \in Results
    /\ low = 0 /\ high = 0 /\ best = -1
    /\ used = 0
    /\ over = 0
    /\ withdrawn = FALSE

-----------------------------------------------------------------------------
(* Mutant of Share: every result may take what is left. *)
Greedy(i) == RetryBudget

(* the tokens that the first i messages of a retry may have *)
Share(i) == (RetryBudget * i) \div count

(* Mutant of Fits: each result is counted by itself. *)
FitsAlone(tokens) ==
    IF task = "retry" THEN tokens <= Share(seen)
    ELSE tokens <= Budget /\ (result.page => tokens <= PageBudget)

Fits(tokens) ==
    IF task = "retry" THEN used + tokens <= Share(seen)
    ELSE used + tokens <= Budget /\ (result.page => tokens <= PageBudget)

(* Mutant of Take: a message that is no tool result is taken for one. *)
TakeOneMore ==
    /\ stage = "next" /\ seen <= count
    /\ result' \in Results
    /\ seen' = seen + 1
    /\ stage' = "whole"
    /\ UNCHANGED <<task, count, searchVars, used, over, withdrawn>>

Take ==
    /\ stage = "next" /\ seen < count
    /\ result' \in Results
    /\ seen' = seen + 1
    /\ stage' = "whole"
    /\ UNCHANGED <<task, count, searchVars, used, over, withdrawn>>

WholeAllowed == task = "fit" => ~result.forced

KeepWhole ==
    /\ stage = "whole" /\ WholeAllowed /\ Fits(result.whole)
    /\ used' = used + result.whole
    /\ stage' = "next"
    /\ UNCHANGED <<task, count, seen, result, searchVars, over, withdrawn>>

(* Mutant of BeginSearch: the best of the result before is kept. *)
BeginSearchStale ==
    /\ stage = "whole" /\ ~(WholeAllowed /\ Fits(result.whole))
    /\ low' = 0 /\ high' = result.len
    /\ stage' = "search"
    /\ UNCHANGED <<task, count, seen, result, best, used, over, withdrawn>>

BeginSearch ==
    /\ stage = "whole" /\ ~(WholeAllowed /\ Fits(result.whole))
    /\ low' = 0 /\ high' = result.len /\ best' = -1
    /\ stage' = "search"
    /\ UNCHANGED <<task, count, seen, result, used, over, withdrawn>>

Middle == low + (high - low) \div 2

(* Mutant of Probe: a prefix that does not fit is skipped with the one before it. *)
ProbeSkipping ==
    /\ stage = "search" /\ low <= high
    /\ IF Fits(result.cut[Middle])
       THEN /\ best' = Middle /\ low' = Middle + 1
            /\ UNCHANGED high
       ELSE /\ high' = Middle - 2
            /\ UNCHANGED <<low, best>>
    /\ UNCHANGED <<task, count, seen, stage, result, used, over, withdrawn>>

(* one iteration of the search *)
Probe ==
    /\ stage = "search" /\ low <= high
    /\ IF Fits(result.cut[Middle])
       THEN /\ best' = Middle /\ low' = Middle + 1
            /\ UNCHANGED high
       ELSE /\ high' = Middle - 1
            /\ UNCHANGED <<low, best>>
    /\ UNCHANGED <<task, count, seen, stage, result, used, over, withdrawn>>

KeepPrefix ==
    /\ stage = "search" /\ low > high /\ best # -1
    /\ used' = used + result.cut[best]
    /\ withdrawn' = (withdrawn \/ (task = "fit" /\ used' >= Budget - NearlyFull))
    /\ stage' = "next"
    /\ UNCHANGED <<task, count, seen, result, searchVars, over>>

(* errToolContextFull: the loop appends a placeholder that it does not count first *)
UsePlaceholder ==
    /\ stage = "search" /\ low > high /\ best = -1 /\ task = "fit"
    /\ used' = used + Placeholder
    /\ over' = over + 1
    /\ withdrawn' = TRUE
    /\ stage' = "next"
    /\ UNCHANGED <<task, count, seen, result, searchVars>>

(* no share for this result: the retry, and with it the request, fails *)
RetryFails ==
    /\ stage = "search" /\ low > high /\ best = -1 /\ task = "retry"
    /\ stage' = "failed"
    /\ UNCHANGED <<task, count, seen, result, searchVars, used, over, withdrawn>>

(* the server that counts tokens does not answer: the request fails *)
CountFails ==
    /\ stage \in {"whole", "search"}
    /\ stage' = "error"
    /\ UNCHANGED <<task, count, seen, result, searchVars, used, over, withdrawn>>

BudgetNext ==
    \/ Take \/ KeepWhole \/ BeginSearch \/ Probe \/ KeepPrefix
    \/ UsePlaceholder \/ RetryFails \/ CountFails

BudgetSpec == BudgetInit /\ [][BudgetNext]_budgetVars

-----------------------------------------------------------------------------
BudgetTypeOK ==
    /\ task \in {"fit", "retry"} /\ stage \in {"next", "whole", "search", "failed", "error"}
    /\ count \in 1 .. MaxResults /\ seen \in 0 .. count
    /\ result \in Results
    /\ low \in Nat /\ high \in Int /\ best \in Nat \cup {-1}
    /\ used \in Nat /\ over \in Nat /\ withdrawn \in BOOLEAN

(* The tool messages stay within their budget: the context exceeds it by placeholders
   only, and a retry is within its smaller budget, and within its share after every
   message. *)
ContextWithinBudget ==
    /\ task = "fit" => used <= Budget + over * Placeholder
    /\ task = "retry" /\ seen > 0 /\ stage = "next" => used <= Share(seen)
    /\ task = "retry" => used <= RetryBudget

SearchOver == stage = "search" /\ low > high

(* A result is replaced, or fails the retry, only if not even its empty prefix fits,
   whatever the token counter says of the others. *)
DroppedOnlyIfNothingFits ==
    SearchOver /\ best = -1 => ~Fits(result.cut[0])

Monotone(r) == \A i, j \in 0 .. r.len : i <= j => r.cut[i] <= r.cut[j]

(* If longer prefixes never have fewer tokens, what is kept of a result is the longest
   prefix that fits. *)
LongestPrefixKept ==
    SearchOver /\ Monotone(result) => \A k \in best + 1 .. result.len : ~Fits(result.cut[k])

(* A retry whose results could each be shortened to an equal part of the budget never
   fails, even if a result before them took all of its share. *)
SmallestPartsSuffice ==
    (\A r \in Results : r.cut[0] * count <= RetryBudget) => stage # "failed"

(* Together: no result is shortened further, replaced or refused without need. *)
NothingGivenUpInVain ==
    DroppedOnlyIfNothingFits /\ LongestPrefixKept /\ SmallestPartsSuffice
=============================================================================
