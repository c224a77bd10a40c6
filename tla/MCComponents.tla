---------------------------- MODULE MCComponents ----------------------------
(* Components that share no state, each by itself: one of them is chosen in the initial
   state and runs, the others rest. *)
EXTENDS SplitMessage, ToolBudget, OutboundCalls, EvalRun, Admission, Lifecycle

CONSTANTS j1, j2, j3, k1, k2    \* model values

VARIABLE machine

partVars == <<machine, splitVars, budgetVars, callVars, evalVars, admissionVars, vars>>

-----------------------------------------------------------------------------
(* Up to four lines of an answer, its first and last not blank: text with a sentence,
   code fences of two lengths and kinds, a fence with a language, an indented one. *)
Lines == { <<>>, <<"x">>, <<"x", "x", "x", "x", ".", " ", "x", "x">>, <<"b", "b", "b">>,
           <<"b", "b", "b", "b">>, <<"b", "b", "b", "x">>, <<"t", "t", "t">>,
           <<TAB, "t", "t", "t">> }

Join(lines) == FoldLeft(LAMBDA s, line : s \o <<NL>> \o line, Head(lines), Tail(lines))

MCTexts == {Join(lines) : lines \in {ls \in UNION {[1 .. n -> Lines] : n \in 1 .. 4} :
                                        /\ ls[1] # <<>> /\ ls[1][1] \notin Blank
                                        /\ ls[Len(ls)] # <<>>}}

(* Token counts that grow with the prefix, stay equal, and do neither. *)
Cuts == { <<1,2,3,4>>, <<2,3,5,9>>, <<1,1,4,4>>, <<2,2,2,2>>, <<2,1,3,1>>, <<1,3,2,5>>,
          <<3,3,4,5>> }

ResultOf(tokens, whole, page, forced) ==
    [len |-> 3, whole |-> whole, cut |-> [k \in 0 .. 3 |-> tokens[k + 1]], page |-> page,
     forced |-> forced]

MCResults == UNION { {ResultOf(c, 3, FALSE, FALSE), ResultOf(c, 7, TRUE, FALSE),
                      ResultOf(c, 2, FALSE, TRUE)} : c \in Cuts }

(* Suites with a case for every mode and one for live runs only. *)
Fact == [id |-> "fact", category |-> "plain", modes |-> {"fixture", "live"}]
News == [id |-> "news", category |-> "search", modes |-> {"live"}]

Called(suite, mode, runs, warmup, strict, id, category) ==
    [suite |-> suite, mode |-> mode, runs |-> runs, warmup |-> warmup, strict |-> strict,
     id |-> id, category |-> category]

MCOptions == { Called(<<Fact, News>>, "fixture", 2, 0, TRUE, "", ""),
               Called(<<Fact, News>>, "fixture", 1, 1, TRUE, "", ""),
               Called(<<Fact, News>>, "live", 1, 0, FALSE, "", ""),
               Called(<<Fact, News>>, "fixture", 1, 0, FALSE, "", ""),
               Called(<<Fact, News>>, "fixture", 1, 0, FALSE, "", "plain"),
               Called(<<Fact, News>>, "live", 1, 0, FALSE, "news", ""),
               Called(<<Fact, News>>, "live", 1, 0, FALSE, "news", "plain"),
               Called(<<News>>, "fixture", 1, 0, TRUE, "", "") }

(* Three messages, two of them of one conversation. *)
MCJobs == {j1, j2, j3}
MCKeyOf == [j \in MCJobs |-> IF j = j3 THEN k2 ELSE k1]

-----------------------------------------------------------------------------
(* A component at rest: one that may step is before its first step, one that must is
   after its last. *)
SplitAtRest == text = <<"x">> /\ limit = Max(Limits) /\ SplitInit

BudgetAtRest ==
    /\ task = "fit" /\ count = 1
    /\ result = ResultOf(<<1,2,3,4>>, 3, FALSE, FALSE)
    /\ BudgetInit

CallsAtRest ==
    /\ caller = "llm" /\ parts = 1 /\ part = 1 /\ attempt = 0
    /\ place = "failed" /\ delay = "backoff" /\ ended = FALSE /\ receipt = "processing"
    /\ times = [p \in 1 .. MaxParts |-> 0] /\ late = [p \in 0 .. MaxParts |-> 0]
    /\ lost = {} /\ stay = FALSE

(* two runs whose reports could not be written *)
EvalAtRest ==
    /\ side = "compared" /\ step = "exit" /\ at = 1 /\ samples = <<>> /\ journal = <<>>
    /\ torn = FALSE
    /\ options = Called(<<News>>, "fixture", 1, 0, TRUE, "", "")
    /\ interrupted = FALSE /\ journalErr = FALSE /\ runErr = TRUE /\ complete = FALSE
    /\ exits = <<2, 2>> /\ reports = [s \in Sides |-> NoReport] /\ verdict = "unreadable"

(* a process that has ended without a message *)
LifecycleAtRest ==
    /\ phase = [j \in Jobs |-> "new"] /\ owed = [j \in Jobs |-> {}] /\ open = FALSE
    /\ main = "exited" /\ grace = "over" /\ held = <<>>
    /\ handler = [j \in Jobs |-> "idle"] /\ outcome = [j \in Jobs |-> "none"] /\ cut = Jobs

PartsInit ==
    /\ machine \in {"split", "budget", "calls", "eval", "admission", "lifecycle"}
    /\ IF machine = "split" THEN SplitInit ELSE SplitAtRest
    /\ IF machine = "budget" THEN BudgetInit ELSE BudgetAtRest
    /\ IF machine = "calls" THEN CallsInit ELSE CallsAtRest
    /\ IF machine = "eval" THEN EvalInit ELSE EvalAtRest
    /\ IF machine = "lifecycle" THEN Init ELSE LifecycleAtRest
    /\ AdmissionInit

PartsNext ==
    \/ /\ machine = "split" /\ SplitNext
       /\ UNCHANGED <<machine, budgetVars, callVars, evalVars, admissionVars, vars>>
    \/ /\ machine = "budget" /\ BudgetNext
       /\ UNCHANGED <<machine, splitVars, callVars, evalVars, admissionVars, vars>>
    \/ /\ machine = "calls" /\ CallsNext
       /\ UNCHANGED <<machine, splitVars, budgetVars, evalVars, admissionVars, vars>>
    \/ /\ machine = "eval" /\ EvalNext
       /\ UNCHANGED <<machine, splitVars, budgetVars, callVars, admissionVars, vars>>
    \/ /\ machine = "admission" /\ AdmissionNext
       /\ UNCHANGED <<machine, splitVars, budgetVars, callVars, evalVars, vars>>
    \/ /\ machine = "lifecycle" /\ Next
       /\ UNCHANGED <<machine, splitVars, budgetVars, callVars, evalVars, admissionVars>>

PartsSpec ==
    PartsInit /\ [][PartsNext]_partVars /\ CallsFairness /\ EvalFairness /\ LifecycleFairness

-----------------------------------------------------------------------------
(* The type invariants of the components. *)
PartsTypeOK == BudgetTypeOK /\ CallsTypeOK /\ EvalTypeOK /\ AdmissionTypeOK /\ TypeOK

(* What was begun comes to its end: the cutting of an answer, as every cut takes some of
   it, a call with its repetitions, an evaluation, and the process after the signal. *)
PartsEnd == CutsProgress /\ CallEnds /\ EvalEnds /\ ShutdownEnds
=============================================================================
