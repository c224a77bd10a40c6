-------------------------- MODULE ToolBudgetProofs --------------------------
(***************************************************************************)
(* The budget of the tool results is kept, and no more of them is lost     *)
(* than it requires, for all budgets, results and token counts.            *)
(***************************************************************************)
EXTENDS ToolBudget, TLAPS

-----------------------------------------------------------------------------
(* Shares of a budget. *)

(* The quotient is the largest number whose product fits. *)
LEMMA Quotient ==
    ASSUME NEW a \in Nat, NEW n \in Nat \ {0}
    PROVE  /\ a \div n \in Nat /\ (a \div n) * n <= a
           /\ \A m \in Nat : m * n <= a => m <= a \div n
<1>1. a = (a \div n) * n + (a % n) /\ (a % n) \in 0 .. n - 1 /\ a \div n \in Int
    OBVIOUS
<1>2. a \div n \in Nat
    OBVIOUS
<1>3. ASSUME NEW m \in Nat, m * n <= a, m > a \div n PROVE FALSE
    <2>1. m >= a \div n + 1
        BY <1>2, <1>3
    <2>2. m * n >= (a \div n + 1) * n
        BY <2>1, <1>2
    <2>3. (a \div n + 1) * n = (a \div n) * n + n
        BY <1>2
    <2> QED
        BY <1>1, <1>2, <1>3, <2>2, <2>3
<1> QED
    BY <1>1, <1>2, <1>3

(* Nobody's share exceeds the budget, and nobody has one before the first message. *)
LEMMA ShareBounds ==
    ASSUME count \in Nat \ {0}, NEW i \in 0 .. count
    PROVE  Share(i) \in Nat /\ Share(i) <= RetryBudget /\ Share(0) = 0
<1> USE BudgetAssumption
<1>1. RetryBudget * i \in Nat /\ RetryBudget * i <= RetryBudget * count
    OBVIOUS
<1>2. Share(i) \in Nat /\ Share(i) * count <= RetryBudget * i
    BY <1>1, Quotient DEF Share
<1>3. ASSUME Share(i) > RetryBudget PROVE FALSE
    <2>1. Share(i) * count >= (RetryBudget + 1) * count
        BY <1>2, <1>3
    <2> QED
        BY <1>1, <1>2, <2>1
<1>4. RetryBudget * 0 = 0 /\ 0 \div count = 0
    OBVIOUS
<1> QED
    BY <1>2, <1>3, <1>4 DEF Share

(* A product with a sum. *)
LEMMA Distributes ==
    ASSUME NEW x \in Nat, NEW y \in Nat, NEW z \in Nat
    PROVE  (x + y) * z = x * z + y * z
OBVIOUS

(* What an equal part holds is added to the share by every message. *)
LEMMA ShareGrows ==
    ASSUME count \in Nat \ {0}, NEW i \in 1 .. count, NEW c \in Nat, c * count <= RetryBudget
    PROVE  Share(i - 1) + c <= Share(i)
<1> USE BudgetAssumption
<1>1. RetryBudget * (i - 1) \in Nat /\ RetryBudget * i \in Nat
      /\ RetryBudget * i = RetryBudget * (i - 1) + RetryBudget
    OBVIOUS
<1>2. Share(i - 1) \in Nat /\ Share(i - 1) * count <= RetryBudget * (i - 1)
    BY <1>1, Quotient DEF Share
<1>3. (Share(i - 1) + c) * count = Share(i - 1) * count + c * count
    BY <1>2, Distributes
<1>4. (Share(i - 1) + c) * count <= RetryBudget * i
    BY <1>1, <1>2, <1>3
<1> QED
    BY <1>1, <1>2, <1>4, Quotient DEF Share

-----------------------------------------------------------------------------
(* The inductive invariant. *)

(* All prefixes up to best fit by the search so far, and high + 1 does not. *)
SearchInv ==
    stage = "search" =>
        /\ low \in 0 .. result.len + 1 /\ high \in -1 .. result.len
        /\ low <= high + 1
        /\ best = low - 1
        /\ best # -1 => Fits(result.cut[best])
        /\ high < result.len => ~Fits(result.cut[high + 1])

(* What the messages of a retry have used before, and after, the current one. *)
RetryInv ==
    task = "retry" =>
        IF stage = "next" THEN used <= Share(seen) ELSE seen > 0 /\ used <= Share(seen - 1)

ContextInv == task = "fit" => used <= Budget + over * Placeholder

IInv ==
    /\ BudgetTypeOK /\ SearchInv /\ RetryInv /\ ContextInv
    /\ SmallestPartsSuffice

(* What the types say of the current result. *)
LEMMA ResultTypes ==
    ASSUME BudgetTypeOK
    PROVE  /\ result.len \in Nat /\ result.whole \in Nat
           /\ \A k \in 0 .. result.len : result.cut[k] \in Nat
           /\ count \in Nat \ {0} /\ seen \in Nat
BY BudgetAssumption DEF BudgetTypeOK

(* Placeholders only add to what the context may hold. *)
LEMMA PlaceholdersAdd ==
    ASSUME NEW n \in Nat
    PROVE  n * Placeholder \in Nat /\ (n + 1) * Placeholder = n * Placeholder + Placeholder
BY BudgetAssumption

(* A message that fits keeps the budget, whichever it is. *)
LEMMA FittingKeeps ==
    ASSUME IInv, stage # "next", NEW t \in Nat, Fits(t)
    PROVE  /\ task = "retry" => used + t <= Share(seen)
           /\ task = "fit" => used + t <= Budget + over * Placeholder
BY BudgetAssumption, PlaceholdersAdd DEF IInv, BudgetTypeOK, Fits

(* Fewer tokens fit wherever more do. *)
LEMMA FewerFit ==
    ASSUME BudgetTypeOK, NEW t \in Nat, NEW s \in Nat, s <= t, Fits(t)
    PROVE  Fits(s)
<1>1. used \in Nat /\ Share(seen) \in Int
    BY ShareBounds, ResultTypes DEF BudgetTypeOK
<1>2. CASE task = "retry"
    BY <1>1, <1>2 DEF Fits
<1>3. CASE task # "retry"
    <2>1. used + t <= Budget /\ (result.page => t <= PageBudget)
        BY <1>3 DEF Fits
    <2>2. used + s <= Budget
        BY <1>1, <2>1, BudgetAssumption
    <2>3. t <= PageBudget => s <= PageBudget
        BY BudgetAssumption
    <2> QED
        BY <1>3, <2>1, <2>2, <2>3 DEF Fits
<1> QED
    BY <1>2, <1>3

(* The invariant holds before the first result. *)
LEMMA InitIInv == BudgetInit => IInv
<1> SUFFICES ASSUME BudgetInit PROVE IInv
    OBVIOUS
<1>1. count \in Nat \ {0} /\ 0 \in 0 .. count
    BY BudgetAssumption DEF BudgetInit
<1>2. Share(0) = 0
    BY <1>1, ShareBounds
<1>3. 0 * Placeholder = 0
    BY BudgetAssumption
<1>4. BudgetTypeOK
    <2>1. seen \in 0 .. count /\ low \in Nat /\ high \in Int /\ best \in Nat \cup {-1}
        BY <1>1 DEF BudgetInit
    <2>2. used \in Nat /\ over \in Nat /\ withdrawn \in BOOLEAN
        BY DEF BudgetInit
    <2> QED
        BY <2>1, <2>2 DEF BudgetInit, BudgetTypeOK
<1>5. RetryInv /\ ContextInv
    BY <1>2, <1>3, BudgetAssumption DEF BudgetInit, RetryInv, ContextInv
<1>6. SearchInv /\ SmallestPartsSuffice
    BY DEF BudgetInit, SearchInv, SmallestPartsSuffice
<1> QED
    BY <1>4, <1>5, <1>6 DEF IInv

(* The next result is taken, or looked at as a whole. *)
LEMMA TakeKeeps == ASSUME IInv, Take PROVE IInv'
<1>1. seen' = seen + 1 /\ seen' - 1 = seen /\ stage' = "whole" /\ UNCHANGED <<task, count, used, over>>
    BY DEF Take, IInv, BudgetTypeOK
<1>2. BudgetTypeOK'
    BY BudgetAssumption DEF Take, IInv, BudgetTypeOK, searchVars
<1>3. Share(seen)' = Share(seen') /\ Share(seen - 1)' = Share(seen)
    BY <1>1 DEF Share
<1> QED
    BY <1>1, <1>2, <1>3
    DEF Take, IInv, BudgetTypeOK, SearchInv, RetryInv, ContextInv, SmallestPartsSuffice

(* A result kept as a whole fits, so that the budget and the share hold it. *)
LEMMA KeepWholeKeeps == ASSUME IInv, KeepWhole PROVE IInv'
<1>1. used' = used + result.whole /\ stage' = "next" /\ result.whole \in Nat
      /\ UNCHANGED <<task, count, seen, result, low, high, best, over, withdrawn>>
    BY ResultTypes DEF KeepWhole, IInv, searchVars
<1>2. /\ task = "retry" => used' <= Share(seen)
      /\ task = "fit" => used' <= Budget + over * Placeholder
    BY <1>1, FittingKeeps DEF KeepWhole
<1>3. BudgetTypeOK'
    BY <1>1 DEF IInv, BudgetTypeOK
<1>4. Share(seen)' = Share(seen)
    BY <1>1 DEF Share
<1> QED
    BY <1>1, <1>2, <1>3, <1>4
    DEF IInv, SearchInv, RetryInv, ContextInv, SmallestPartsSuffice

(* A search begins with all prefixes open, and none known to fit. *)
LEMMA BeginSearchKeeps == ASSUME IInv, BeginSearch PROVE IInv'
<1>1. /\ low' = 0 /\ high' = result.len /\ best' = -1 /\ stage' = "search" /\ stage = "whole"
      /\ UNCHANGED <<task, count, seen, result, used, over, withdrawn>>
    BY DEF BeginSearch
<1>2. result.len \in Nat
    BY ResultTypes DEF IInv
<1>3. BudgetTypeOK' /\ SearchInv'
    BY <1>1, <1>2 DEF IInv, BudgetTypeOK, SearchInv
<1>4. Share(seen - 1)' = Share(seen - 1)
    BY <1>1 DEF Share
<1> QED
    BY <1>1, <1>3, <1>4 DEF IInv, RetryInv, ContextInv, SmallestPartsSuffice

(* A probe keeps what the search knows: best is low - 1 and fits, high + 1 does not. *)
LEMMA ProbeKeeps == ASSUME IInv, Probe PROVE IInv'
<1>1. /\ stage = "search" /\ low <= high
      /\ UNCHANGED <<task, count, seen, stage, result, used, over, withdrawn>>
    BY DEF Probe
<1>2. low \in Nat /\ high \in Nat /\ high <= result.len /\ result.len \in Nat
    BY <1>1, ResultTypes DEF IInv, SearchInv
<1>3. Middle \in low .. high
    BY <1>1, <1>2 DEF Middle
<1>4. \A k : Fits(result.cut[k])' <=> Fits(result.cut[k])
    BY <1>1 DEF Fits, Share
<1>5. BudgetTypeOK' /\ SearchInv'
    <2>1. CASE Fits(result.cut[Middle])
        <3>1. best' = Middle /\ low' = Middle + 1 /\ high' = high
            BY <2>1 DEF Probe
        <3>2. Fits(result.cut[best])'
            BY <2>1, <3>1, <1>1 DEF Fits, Share
        <3>3. (high < result.len => ~Fits(result.cut[high + 1]))'
            BY <3>1, <1>1 DEF Fits, Share, IInv, SearchInv
        <3> QED
            BY <3>1, <3>2, <3>3, <1>1, <1>2, <1>3 DEF IInv, BudgetTypeOK, SearchInv
    <2>2. CASE ~Fits(result.cut[Middle])
        <3>1. high' = Middle - 1 /\ low' = low /\ best' = best
            BY <2>2 DEF Probe
        <3>2. (best # -1 => Fits(result.cut[best]))'
            BY <3>1, <1>1 DEF Fits, Share, IInv, SearchInv
        <3>3. high' + 1 = Middle
            BY <3>1, <1>2, <1>3
        <3>4. ~Fits(result.cut[high + 1])'
            BY <2>2, <3>3, <1>1 DEF Fits, Share
        <3> QED
            BY <3>1, <3>2, <3>4, <1>1, <1>2, <1>3 DEF IInv, BudgetTypeOK, SearchInv
    <2> QED
        BY <2>1, <2>2
<1>6. Share(seen - 1)' = Share(seen - 1)
    BY <1>1 DEF Share
<1> QED
    BY <1>1, <1>5, <1>6 DEF IInv, RetryInv, ContextInv, SmallestPartsSuffice

(* The prefix that is kept fits, like a whole result. *)
LEMMA KeepPrefixKeeps == ASSUME IInv, KeepPrefix PROVE IInv'
<1>1. /\ used' = used + result.cut[best] /\ stage = "search" /\ stage' = "next" /\ low > high
      /\ best # -1 /\ withdrawn' \in BOOLEAN
      /\ UNCHANGED <<task, count, seen, result, low, high, best, over>>
    BY DEF KeepPrefix, IInv, BudgetTypeOK, searchVars
<1>2. best \in 0 .. result.len /\ Fits(result.cut[best])
    BY <1>1, ResultTypes DEF IInv, SearchInv
<1>3. result.cut[best] \in Nat
    BY <1>2, ResultTypes DEF IInv
<1>4. /\ task = "retry" => used' <= Share(seen)
      /\ task = "fit" => used' <= Budget + over * Placeholder
    BY <1>1, <1>2, <1>3, FittingKeeps
<1>5. BudgetTypeOK'
    BY <1>1, <1>3 DEF IInv, BudgetTypeOK
<1>6. Share(seen)' = Share(seen)
    BY <1>1 DEF Share
<1> QED
    BY <1>1, <1>4, <1>5, <1>6
    DEF IInv, SearchInv, RetryInv, ContextInv, SmallestPartsSuffice

(* A placeholder is the one message that may exceed the budget, and is counted in over. *)
LEMMA UsePlaceholderKeeps == ASSUME IInv, UsePlaceholder PROVE IInv'
<1>1. /\ used' = used + Placeholder /\ over' = over + 1 /\ task = "fit" /\ stage' = "next"
      /\ withdrawn' \in BOOLEAN
      /\ UNCHANGED <<task, count, seen, result, low, high, best>>
    BY DEF UsePlaceholder, searchVars
<1>2. BudgetTypeOK'
    BY <1>1, BudgetAssumption DEF IInv, BudgetTypeOK
<1>3. over' * Placeholder = over * Placeholder + Placeholder /\ over * Placeholder \in Nat
    BY <1>1, PlaceholdersAdd DEF IInv, BudgetTypeOK
<1>4. used' <= Budget + over' * Placeholder
    BY <1>1, <1>3, BudgetAssumption DEF IInv, BudgetTypeOK, ContextInv
<1> QED
    BY <1>1, <1>2, <1>4 DEF IInv, SearchInv, RetryInv, ContextInv, SmallestPartsSuffice

(* The search is over and not even the empty prefix fits. *)
LEMMA NothingFits == ASSUME IInv, SearchOver, best = -1 PROVE ~Fits(result.cut[0])
<1>1. low = 0 /\ high = -1
    BY ResultTypes DEF IInv, SearchInv, SearchOver
<1> QED
    BY <1>1, ResultTypes DEF IInv, SearchInv, SearchOver

(* If every result could be shortened to an equal part, the share of this message holds
   that part beyond what was used before. *)
LEMMA RetryFailsKeeps == ASSUME IInv, RetryFails PROVE IInv'
<1>1. /\ task = "retry" /\ stage = "search" /\ low > high /\ best = -1 /\ stage' = "failed"
      /\ UNCHANGED <<task, count, seen, result, low, high, best, used, over, withdrawn>>
    BY DEF RetryFails, searchVars
<1>2. ~Fits(result.cut[0])
    BY <1>1, NothingFits DEF SearchOver
<1>3. ~(\A r \in Results : r.cut[0] * count <= RetryBudget)
    <2> SUFFICES ASSUME result.cut[0] * count <= RetryBudget PROVE FALSE
        BY DEF IInv, BudgetTypeOK
    <2>1. seen \in 1 .. count /\ used <= Share(seen - 1) /\ used \in Nat /\ count \in Nat \ {0}
        BY <1>1, BudgetAssumption DEF IInv, BudgetTypeOK, RetryInv
    <2>2. result.cut[0] \in Nat
        BY ResultTypes DEF IInv
    <2>3. Share(seen - 1) + result.cut[0] <= Share(seen)
        BY <2>1, <2>2, ShareGrows
    <2>4. Share(seen - 1) \in Nat /\ Share(seen) \in Nat
        BY <2>1, ShareBounds
    <2> QED
        BY <1>1, <1>2, <2>1, <2>2, <2>3, <2>4 DEF Fits
<1>4. Share(seen - 1)' = Share(seen - 1)
    BY <1>1 DEF Share
<1> QED
    BY <1>1, <1>3, <1>4
    DEF IInv, BudgetTypeOK, SearchInv, RetryInv, ContextInv, SmallestPartsSuffice

(* A counter that fails changes nothing but the stage. *)
LEMMA CountFailsKeeps == ASSUME IInv, CountFails PROVE IInv'
<1>1. /\ stage # "next" /\ stage' = "error"
      /\ UNCHANGED <<task, count, seen, result, low, high, best, used, over, withdrawn>>
    BY DEF CountFails, searchVars
<1>2. Share(seen - 1)' = Share(seen - 1)
    BY <1>1 DEF Share
<1> QED
    BY <1>1, <1>2 DEF IInv, BudgetTypeOK, SearchInv, RetryInv, ContextInv, SmallestPartsSuffice

(* The invariant holds after a step that changes nothing. *)
LEMMA StutterKeeps == ASSUME IInv, UNCHANGED budgetVars PROVE IInv'
BY DEF budgetVars, IInv, BudgetTypeOK, SearchInv, RetryInv, ContextInv, SmallestPartsSuffice,
       Share, Fits

(* Together: the invariant holds in every state. *)
LEMMA Inductive == BudgetSpec => []IInv
<1>1. IInv /\ [BudgetNext]_budgetVars => IInv'
    BY TakeKeeps, KeepWholeKeeps, BeginSearchKeeps, ProbeKeeps, KeepPrefixKeeps,
       UsePlaceholderKeeps, RetryFailsKeeps, CountFailsKeeps, StutterKeeps DEF BudgetNext
<1> QED
    BY <1>1, InitIInv, PTL DEF BudgetSpec

-----------------------------------------------------------------------------
(* Type correctness, for all budgets and results. *)
THEOREM TypeCorrect == BudgetSpec => []BudgetTypeOK
BY Inductive, PTL DEF IInv

(* The context is exceeded by placeholders only, and a retry keeps to its shares
   (tool_budget.go 205 to 232, tool_loop.go 306 to 322). *)
THEOREM BudgetIsKept == BudgetSpec => []ContextWithinBudget
<1>1. IInv => ContextWithinBudget
    <2> SUFFICES ASSUME IInv PROVE ContextWithinBudget
        OBVIOUS
    <2>1. \A i \in 0 .. count : Share(i) \in Nat /\ Share(i) <= RetryBudget
        BY ShareBounds, ResultTypes DEF IInv
    <2>2. task = "retry" => \E i \in 0 .. count : used <= Share(i)
        BY DEF IInv, BudgetTypeOK, RetryInv
    <2>3. task = "retry" => used <= RetryBudget
        BY <2>1, <2>2, BudgetAssumption DEF IInv, BudgetTypeOK
    <2> QED
        BY <2>3 DEF IInv, BudgetTypeOK, RetryInv, ContextInv, ContextWithinBudget
<1> QED
    BY <1>1, Inductive, PTL

(* The search gives up only on a result that does not fit at all, whatever the counts of
   its prefixes (tool_budget.go 130). *)
THEOREM NothingDroppedInVain == BudgetSpec => []DroppedOnlyIfNothingFits
<1>1. IInv => DroppedOnlyIfNothingFits
    BY NothingFits DEF DroppedOnlyIfNothingFits
<1> QED
    BY <1>1, Inductive, PTL

(* With counts that grow with the prefix the search finds the longest one that fits. *)
THEOREM SearchIsExact == BudgetSpec => []LongestPrefixKept
<1>1. IInv => LongestPrefixKept
    <2> SUFFICES ASSUME IInv, SearchOver, Monotone(result),
                        NEW k \in best + 1 .. result.len
                 PROVE  ~Fits(result.cut[k])
        BY DEF LongestPrefixKept
    <2>1. high + 1 = best + 1 /\ high + 1 \in 0 .. result.len /\ k \in 0 .. result.len
        BY ResultTypes DEF IInv, SearchInv, SearchOver
    <2>2. ~Fits(result.cut[high + 1])
        BY <2>1, ResultTypes DEF IInv, SearchInv, SearchOver
    <2>3. result.cut[high + 1] <= result.cut[k]
        BY <2>1 DEF Monotone
    <2>4. result.cut[high + 1] \in Nat /\ result.cut[k] \in Nat
        BY <2>1, ResultTypes DEF IInv
    <2> QED
        BY <2>2, <2>3, <2>4, FewerFit DEF IInv
<1> QED
    BY <1>1, Inductive, PTL

(* The retry fails only if some result has no prefix of an equal part of the budget
   (tool_budget.go 216). *)
THEOREM EqualPartsSuffice == BudgetSpec => []SmallestPartsSuffice
BY Inductive, PTL DEF IInv

(* The fitting of results gives nothing up without need (tool_budget.go 130 and 216). *)
THEOREM GivesUpRightly == BudgetSpec => []NothingGivenUpInVain
<1>1. /\ DroppedOnlyIfNothingFits /\ LongestPrefixKept /\ SmallestPartsSuffice
      => NothingGivenUpInVain
    BY DEF NothingGivenUpInVain
<1> QED
    BY <1>1, NothingDroppedInVain, SearchIsExact, EqualPartsSuffice, PTL
=============================================================================
