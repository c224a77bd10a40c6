# zii: TLA+ models and proofs

This directory models the Discord bot `zii` (`src/cmd/zii`, `src/internal`) in TLA+,
model-checks it with TLC on small instances, and proves its main safety properties
for all instances with TLAPS. Every definition is translated from the Go source;
`PROJECT.json` ("map") names the lines that each one stands for.

## 1. The system

A user mentions the bot in Discord. The gateway starts a goroutine per message, which
runs `Adapter.Handle`; that submits a *work* to the request queue and blocks. The queue
runs at most one work per conversation key (guild, scope, user) and at most ten
altogether. A work (`Service.processWithAccepted`) registers the question in SQLite,
sends a receipt ("processing reply"), loads the history, runs the tool loop against the
LLM and Search MCP, edits the answer into the receipt, posts further chunks, and stores
the answer.

| Component | State | Operations | Talks to | Hard behaviour | What makes it correct |
|---|---|---|---|---|---|
| Request queue (`orchestrator/queue.go`) | `queue`, `active`, `closed`, `wake`, WaitGroup, dispatcher-local `running`; per job: `ready`, result channel, `started`, contexts | `SubmitWithAccepted`, dispatcher pass, job goroutine, `Shutdown` | adapter (caller), service (work) | callers, timers, dispatcher, workers and Shutdown race; sends with the mutex held; wake-up before the counter | one work per key, capacities, FIFO per key, honest outcomes, no blocked send, every call returns, quiescent after Shutdown |
| Adapter (`discordbot/adapter.go`) | in-flight messages, limiters, `closed`, WaitGroup; per message `processingReply` | `Handle`, `StopAccepting`, `Wait`, `retryDiscord`, `splitMessage` | queue, service, Discord | handler and worker share `processingReply`; Discord calls fail; redelivery | one receipt per question, failures edited into it, answers saved only when shown |
| Service (`orchestrator/service.go`) | none | `ProcessQueuedWithAccepted`, `RecordSuccessfulReply` | storage, context builder, tool loop | order of registration, receipt, answer, save | deliveries of one conversation do not interleave |
| Storage (`storage/*.go`) | tables `conversations`, `messages` | `RecordUserMessage`, `LoadMessagesBefore`, save of an answer | SQLite | TTL boundary, clocks, order by two keys, BUSY | conversations are runs of activity of one participant |
| Context builder (`orchestrator/context_builder.go`) | none | `Build`, `completeTurns` | storage's rows | rows of unfinished requests | history is past, one's own, and made of whole turns |
| Tool loop (`orchestrator/tool_loop.go`) | per request: turn, counts, seen calls, flags; shared LLM slots | `Run`, `invoke`, final retry | LLM client, search client | a model that may answer anything, limits that withdraw tools in the middle of a batch | bounded searches, tools stay withdrawn, obedient models get to answer, slots are returned |
| Tool result budget (`orchestrator/tool_budget.go`) | tool messages so far | `fit`, `compactToolResults` | LLM token counting | binary search on counts that need not grow, cumulative shares, placeholders | contexts within the budget, no result dropped that could be kept |
| Search client and registry (`searchmcp/*.go`) | session, tool cache under an RWMutex; registry; MCP slots | `Call`, `Reconnect`, `Close` | Search MCP server | reconnection while others call, half-made sessions | calls use open sessions, none leaks, a lost session is all that a crash leaves behind |
| LLM client (`llm/*.go`) | connection | `ChatWithOptions`, token counting, `postJSON` | LLM server | truncated and malformed completions; repetition of a call that may have been executed | what the loop sees; repetition only after a loss |
| Process (`cmd/zii/main.go`) | the components | start, signal, shutdown | all | one grace period for handlers and works | nothing is closed under a work, the process ends |
| Evaluation (`eval/*.go`, `cmd/zii-eval`) | report, journal | `run`, `compare` | tool loop, LLM and search clients | interrupts, a failing journal, comparability of two runs | a green run is a complete one, the journal is a beginning of the report, the protocol decides the samples, every run ends |

Output guard, prompts, identity, configuration, logging and the fixtures and metrics of
the evaluation keep no state that these behaviours depend on; `PROJECT.json` lists them with the reason for
which they are left out.

## 2. Modules

    SerialExecutor              what the queue promises
      ^ implemented by          ^ extended by
    RequestQueue                Delivery      adapter + service on top of the queue
      RequestQueueProofs          DeliveryProofs
                                Lifecycle     main + adapter + queue at shutdown
                                  LifecycleProofs
    Conversations               storage + context builder
      ConversationsProofs
    ToolLoop                    Run for several requests
      ToolLoopProofs
    SearchClient                invoke + session + RWMutex + server
      SearchClientProofs
    ToolBudget                  the tokens of tool results
      ToolBudgetProofs
    OutboundCalls               retryDiscord, postJSON and those who call them
    Admission                   the rate limiter
    SplitMessage                the chunks of an answer
    EvalRun                     zii-eval run, twice, and compare
      ComponentProofs           the proofs about the last four
    MCComponents                these four, ToolBudget and Lifecycle, one at a time

`Delivery` and `Lifecycle` do not repeat the queue. They extend `SerialExecutor`, whose
actions stand for the queue's, and `RequestQueueProofs` proves that `RequestQueue`
implements it: what the two modules assume of the queue is a theorem about its code. In
return `DeliveryProofs` and `LifecycleProofs` prove that handlers, works and the shutdown use
the executor as it may be used (`UsesExecutor`, `ShutdownUsesExecutor`), and the former that
two works of one key are never busy at a time (`OneWorkerPerKey`), which is what
`Conversations` relies on when it gives a participant one work at a time. `ToolLoop` and `SearchClient` divide the tool loop at `invoke`.
`OutboundCalls`, `SplitMessage` and `Admission` lie below `Delivery`, which uses their
outcomes (a call succeeds or fails, there are further chunks, a message is ignored), and
`ToolBudget` lies below `ToolLoop` (a result fits, uses the budget up, or fails).

**RequestQueue.** One action per section under `q.mu`, per branch of a `select`, and per
step of a job's goroutine. `sub[j]` is the program counter of a caller (`idle`,
`accepting` between its two sections, `waiting` and `running` in its two selects,
`awaiting` for a result, `timedOut` before the deferred `cancel`), `worker[j]` that of
the goroutine, `dpc` that of the dispatcher, which holds the mutex while `dpc = "start"`.
`queue` is a set; the order of the slice is kept as `ahead[j]`, the jobs queued when `j`
was appended. Time is abstract: `waited` and `ctxDone` say that a limit was reached, and
may be reached at any moment. `owed` is a history variable for `NoOvertaking`.

**SerialExecutor.** `phase[j]` is new, reserved, ready, running, done or dropped. The
mapping (`Phase` in `RequestQueue`) calls a job *running* until its key is released.

**Delivery.** A job is one invocation of `Handle`; `msgOf` gives its message, so that a
redelivery is two jobs with one message. `handler[j]` and `worker[j]` are the two
goroutines. A Discord call, with its retries, is one step with one outcome. `rest` says
which answers have further chunks; `receipt`, `extra` (these chunks) and `errorMsg` are
what the user sees, `questions` and `answers` what the database holds. An answer is shown
whole (`ShownWhole`) if the receipt is its beginning and the chunks that follow, if there
are any, are posted. `known` is `processingReply.ID`, which `Handle` reads without
synchronisation when `Submit` returned by the context: `ReadReply` may then miss a write.
A call that fails, or is cut off by its context, may have been carried out all the same
(`CallFails`, `MayShow`); whether at once or late is the subject of `OutboundCalls`.

**Conversations.** A transaction is a step on `convs` and `rows`. `now` is read in
`Begin` and used in `Commit`, as the code reads it before the transaction and its
retries. `receipt[q]` is the creation time of the processing reply, which dates the
stored answer. `context[q]` is what the builder gave to the model.

**ToolLoop.** `pc[r]` is where a run stands; a completion is any batch of calls, valid
or not. `counts`, `seen`, `disabled`, `retried` and `told` are the loop's variables,
`profile` the capabilities of the model, `profile.strict` whether the client is
`llm.Client`, which refuses unparsable arguments itself. The budget appears by its
outcomes: a result fits, uses the budget up, or fails.

**SearchClient.** The RWMutex is `readers` and `writer` (a waiting writer keeps new
readers out, as in Go). A reconnection is asking for the lock, draining the readers,
connecting, listing, replacing. The server is external: it crashes, forgets its
sessions, comes back, perhaps without a tool, and may be slow. A call ends in one of five
ways: with a result; cut off by its context; with an error of the transport, after which
`invoke` reconnects and calls once more (`TransportFails`); with any other error
(`CallFails`), which `isMCPTransportError` does not accept, so that nobody reconnects and
the model is told `tool_unavailable`; or refused before it is made, as the cached list lacks
its tool (`Reject`). A server that has forgotten the session may show it in either of the
two kinds of errors. `troubled` and `lost` are history variables that tell what a call met:
an ended context or a server that was down, slow, refusing or without its tool; or a session
that the server had forgotten.

**ToolBudget.** A result is the number of tokens of its whole text and of each of its
prefixes in the JSON that marks it as truncated; these numbers are arbitrary. `task` says
whether results of a dialogue are fitted one by one (`fit`) or those of a finished one are
compacted for the final retry; both do the same search (`low`, `high`, `best`), one
iteration per step, against another bound (`Fits`). The tokens of messages add up.

**OutboundCalls.** One caller at a time: the worker that shows an answer (an edit, sends,
or the edit into the error text), `sendChunks` with an error text, or `postJSON`. The
execution of a call is separate from its answer: a call without a proper answer was
executed, was not, or will be (`late`, `LateEffect`), possibly after the caller went on.
`lost` and `stay` are history variables: of which parts such a call was made, and whether
Discord has asked to be left alone.

**SplitMessage.** One step is one iteration of the loop of `splitMessage`. A text is a
sequence of symbols, one per kind of rune that the code tells apart; a tab is one of them,
which indents a line like a space but is no place to cut.

**Admission.** `limiters` is `table`; a bucket is counted in seconds of refill, and time
passes in seconds. `due` is a history variable: the bucket of a user whose entry is never
removed.

**EvalRun.** `zii-eval run` before and after a change, with options that need not agree,
then `compare`. `at` counts through the three nested loops of `Run`; `samples` is the
report, `journal` the whole lines of the file `samples.jsonl`, `torn` whether a part of a line
follows them, `exits` the exit codes. A case is its identifier, its category and the set of
tool modes it supports; the loops run over the cases that `-id` and `-category` select
(`Selected`), and both are in the protocol that `compare` looks at. What a sample measures is
any status. When the journal fails, the line may be in the file, or a part of it, or nothing.

**Lifecycle.** `main` is the program counter of `run()` after the signal (main.go 203 to
225), `held` what it has not closed yet, `grace` the one context that bounds both
`Adapter.Wait` and `queue.Shutdown`.

Definitions whose comment begins with "Mutant of" are plausible bugs. None is part of a
specification: each shows that a property can be broken by a change to the code.

## 3. Runs

| Run | Instance | Shows |
|---|---|---|
| `queue` | 2 calls, 1 key, 1 slot, 2 workers, everything may fail | types, `SendNeverBlocks`, `OutcomeHonest`, `EndsClean` (nobody is stranded when the dispatcher ends, nothing runs after Shutdown), and that the queue implements `SerialExecutor`, which includes `KeyExclusion` and `CapacityRespected` |
| `queue_live` | 2 calls, 1 key, 2 slots, 1 worker, one call disturbed | `NoOvertaking`; `EveryCallReturns` if works return; `ShutdownCompletes` even if they hang until cancelled |
| `conversations` | 3 questions, 1 or 2 participants, TTL 2, clock to 3 | grouping by the TTL, history is past and one's own, wrong pairs only if the turns overlap in Discord |
| `delivery` | 2 handlers, one message or two, Discord may fail, contexts may end, shutdown | one receipt per question, no two replies without a cut context, no forgotten receipt, saved while shown whole, handlers end |
| `toolloop` | 1 run, 3 calls, one tool with a limit of 2, 3 arguments, batches of 2 | limits, withdrawal, final instruction, turns suffice, the run ends |
| `search` | 3 calls, 2 slots, 2 crashes, 2 tool lists | open sessions, no leak, calls return; the tool list is that of the server while the session lives, and a call without trouble of its own fails only on a lost session, before a reconnection |
| `components` | six components, see below | chunks fit and code stays code; results within the budget and none dropped in vain; chunks in order, delivered means shown, repetition only after a loss, `Retry-After` respected, calls end; evaluation runs end, green means good, the journal is a beginning, same protocol means same samples; sweeping gives nothing; nothing closed under a work, the grace period is for everybody, shutdown ends |
| `queue_late` | as `queue_live` | *violated*: a work starts although its caller was told `ErrQueueWaitTimeout` |
| `conversations_turns` | as `conversations` | *violated*: a turn pairs a question with another one's answer |
| `delivery_history` | as `delivery`, Discord never fails | *violated*: a saved answer that Discord no longer shows |
| `lifecycle_waiting` | 3 messages, 2 keys | *violated*: a waiting request starts after the shutdown began |
| `eval_interrupted` | as `components` | *violated*: an evaluation interrupted in its last sample does not exit with 130 |

**One run for six components.** `SplitMessage`, `ToolBudget`, `OutboundCalls`, `EvalRun`,
`Admission` and `Lifecycle` share no state, and a product of them would only multiply
their states. `MCComponents` chooses one of them in the initial state (`machine`), which
then runs alone; the others rest in a state in which nothing is left for them to do, so
that their properties, the liveness ones included, hold of them at rest and say something
where they run. Where several facts of one component make up one claim, the run checks
their conjunction (`NothingGivenUpInVain`, `TextIsShown`, `RepeatsAreExcused`,
`TracesAreHonest`, `PartsEnd`), and each of the facts has a mutant that breaks it. The
instances:

- answers of up to four lines (plain, with a sentence, with fences of two kinds and
  lengths, with a language, with a tab before it) and limits of 5, 9 and 15: a marker that does not fit, that
  fits alone, and that fits with text and another fence line;
- up to three results with seven tables of token counts: growing, constant, and neither;
  budgets that one to three of them exceed; each may be a page, or longer than the byte limit;
- texts of up to two chunks, three repetitions, any sequence of answers, late effects at
  any time;
- eight ways of calling `zii-eval`, both runs with any of them: two cases or one, in either
  mode, one or two repetitions, with and without warm-up, strict or not, with all cases or
  those of an identifier or a category selected, or none;
- three users, a burst of two tokens, a sweep as soon as there are two entries;
- three messages of two conversations and a signal at any time.

**Why the bounds are enough.** Two calls of one key are the smallest instance in which
keys, slots and overtaking matter; the theorems of section 5 cover every other number of
calls, keys, slots and workers. `Disturbed` bounds which calls may fail or time out,
`MayBeCut` whose context may end. Three questions are needed for a wrong pair (one
unanswered, one answered, one that reads both), and the clock must pass the TTL with a
question on either side of its boundary. Three search calls let one call, one reconnect
and one wait for the lock; after two crashes the server may have lost the tool and have it
again, so that a call is refused for a list that has become stale. In `toolloop` the limit of the tool (2) is
below the total (3), and a batch of two lets tools be
withdrawn in the middle of it, with calls to go; longer dialogues, several tools and runs
that compete for LLM slots are the subject of the theorems. Three
messages in `Lifecycle` let one run, one of its key wait, and one of another key be
anywhere. Deadlock is checked in the tool loop and in the search client, where a final
state has an explicit stutter; elsewhere every call may have been made and the process
may have ended.

**Fairness.** Only steps that a goroutine takes by itself are fair. Deadlines, timers,
failures, crashes, messages and the signal are never forced. Fairness is strong for what
waits on the mutex or a semaphore (Go's are starvation-free) and weak otherwise. In
`HangingSpec` a work may hang until its context is done; `EveryCallReturns` assumes in
its own statement that works return, which they do since all they wait for is bounded
by timeouts. That a work whose context was cancelled returns is an assumption everywhere: a
work that ignored its context would keep `Shutdown` waiting after the grace period
(queue.go:300), and no property here rules that out. Where steps happen finitely often (a call is made once), one fairness
condition on all of them says the same as one on each, and is cheaper to check.
`Lifecycle` is fair to main, to time, and to works whose context was cancelled; handlers
may hang. In `OutboundCalls` an attempt ends, by the timeout of its HTTP client at the
latest, and the timer of a wait fires. In `EvalRun` a sample ends by its deadline, and the
rest is sequential code; the interrupt, and the second run, are not forced.

## 4. Where code and documents disagree

Five disagreements are runs of kind "violation" (`findings` quotes the lines):

1. *Expired works start* (queue.go:186). The timer of the caller does not take the job
   out of the queue; `TestRequestQueueWaitTimeoutDoesNotStartExpiredWork` says that an
   expired work is not started.
2. *Wrong pairs in the history* (context_builder.go:96). Rows are paired by position; the
   design says that unfinished turns are not given to the model.
3. *Saved, but not shown* (adapter.go:243). If the request context ends after the answer
   was edited in, the handler may edit the error text over it while the worker saves.
4. *Waiting requests are not cancelled* at shutdown (main.go:209): main waits for the
   handlers first, with the queue open.
5. *An interrupt goes unnoticed* (eval/runner.go:170). The evaluation looks at its context
   before each case, not after the last one: an interrupt in the last sample fails that
   sample, but the report is complete, `compare` accepts it, and the exit code is 1, where
   the README of the harness says 130.

Others were met while modelling and are in the models without a run of their own:

- A job whose accepted callback still runs is passed by a later one of its key
  (queue.go:228); the design speaks of FIFO. `NoOvertaking` states the order that holds.
- A request that fails by its context while the worker sends the receipt leaves the
  receipt as it is and posts a separate error (adapter.go:246); the design wants the
  receipt edited. `TwoRepliesOnlyIfCut` and `StuckReceiptExplained` bound when.
- A redelivered message that finds the queue full, or waits too long, is answered with an
  error although it was answered before (adapter.go:246, against service.go:182).
- Arguments that do not parse end the request (`llm/client.go:313`, `RejectGarbled`)
  rather than going back to the model (design, OR-07).
- `splitMessage` (adapter.go:444) keeps code in fences only if a message has room for a
  reopened fence, a newline left over from the chunk before (a cut just before a newline
  leaves it to the next chunk), one more fence line and a closing marker. Where fence lines
  are so long that it has not, a fence line may be cut and code is shown as text;
  `OrdinaryFences` is this bound, which Discord's limit leaves far away.
- The registry is made once (main.go:77) and does not follow a reconnection, which
  refreshes the client's own list only. Nor does a call that the client refuses for
  its list cause a reconnection (client.go:134), so that a list that has become stale is
  refreshed only by the transport error of a call to another tool.

## 5. Proofs

`RequestQueueProofs` proves, for every finite set of jobs, every key function and every
positive capacity (`QueueAssumption`): `TypeOK`, `KeyExclusion`, `CapacityRespected`,
`SendNeverBlocks`, `OutcomeHonest`, `NoOvertaking`, `QuiescentAfterShutdown`,
`NobodyStranded`, and that the queue implements `SerialExecutor`. None of these is
inductive. The invariant `IInv` adds

- `JobInv`: what the caller's place, the flags, the channel and the goroutine of one job
  know of each other (a queued job has an empty channel; a started job's result is the
  work's; whoever waits has an answer, a place in the queue, or a goroutine);
- `KeyInv`: the key of a goroutine that has not released it is in `active`. Exclusion
  follows only with this, since the release happens in another section;
- `CountInv`: `running` is the number of goroutines that have not decremented it. The
  bound on works follows, since they are among these;
- `OrderInv`: jobs owed precedence were ahead and dispatchable, so that starting the
  first dispatchable job never starts one that owes;
- `ShutInv`: a closed queue is empty, and Shutdown returns with nothing in flight.

`StepRefines` maps each action to an action of `SerialExecutor` or to a stutter, using
`IInv` before the step. The capacity test maps because `Phase` counts the same jobs.

`ToolLoopProofs` proves `TypeOK` (with the count of the LLM slots), `SearchesBounded`,
`LimitIsTold`, `ObedienceIsEnough` and `WithdrawnForGood` for every finite set of runs and
any tools, arguments and positive limits (`ToolLoopAssumption`). Its `IInv` numbers the
searches of a run and of a tool (`ExecInv`), so that their number is bounded by the
largest number; and it relates turns to counted calls and to the retry (`TurnInv`),
which is why `MaxCalls + 2` turns are enough for an obedient model.

`LifecycleProofs` proves `TypeOK`, `NothingClosedUnderWork` and `GraceIsForEverybody` for any
messages, keys, slots and workers. Its `IInv` relates how far main is to the queue: the
queue is open until main closes it, a closed queue holds nobody who waits, and main closes
the rest only after the last work (`ClosedInv`); what it holds is the rest of its list
(`HeldInv`, for `TypeOK`); and as long as the grace period lasts,
main gets past its wait for the handlers only when no handler is left, and none begins
after the signal (`GraceInv`). `ShutdownUsesExecutor` says that handlers, workers and main
use the queue as `SerialExecutor` allows, as `UsesExecutor` does for `Delivery`.

`ToolBudgetProofs` proves all five properties of `ToolBudget` for any budgets, any number
of results and any token counts (`BudgetAssumption`). The invariant of the search is the
usual one, `best = low - 1`, the prefix `best` fits and the prefix `high + 1` does not;
without the assumption that counts grow it still says that prefix 0 was probed before a
result is given up. For the retry, `RetryInv` keeps the tokens used within the share of
the messages seen; that equal parts suffice needs that a share grows by at least such a
part with every message (`ShareGrows`, about the division).

`DeliveryProofs` proves all properties of `Delivery` for any messages, deliveries and
conversations. `JobInv` relates the five things known of a job: the executor's phase, the
worker, the result, the handler and the receipt (`PhaseInv`, `HandlerInv`, `ReceiptInv`),
with the chunks still to be posted, what a separate error reply excludes (`ErrorInv`), and who still has to edit a receipt that
says "processing" (`StuckInv`). `QuestionInv` says that a job past its registration has a
stored question and shares it with no other job; that two deliveries of one message never
both get a receipt follows from it, not from the queue.

`ConversationsProofs` proves all properties of `Conversations` for any participants,
questions, TTL and bounds of the history. `TableInv` and `RowInv` are what the tables keep
(ids, one row per question and role, an answer behind its question); `ConvInv` keeps the
conversations of one participant a TTL apart, also while a registration holds a `now` it
read earlier; `ActivityInv` relates neighbouring questions and the last one of a
conversation to its `lastActive`; `ContextInv` says of a turn that both of its rows stood
before the question and that nothing of the conversation stood between them, from which
`MispairedOnlyIfOverlapping` follows.

`SearchClientProofs` proves `TypeOK`, `SessionsMatchUse` and `HealedCallsSucceed` for any
finite set of calls and any number of slots, crashes and tool lists. `LockInv` is the
RWMutex (a writer past the draining has no readers), `SlotInv` counts the slots,
`SessionInv` says which sessions are open, to the last one, `ServerInv` that the server knows
only sessions that were made, and the client the list of its session, and `HealInv` that a
call on its second attempt has a live session unless it was in trouble, whoever replaced it
since. So the only failure without trouble is that of a first attempt on a lost session.

`ComponentProofs` holds the proofs of four components.

- `OutboundCalls`: its five safety properties, for any number of chunks and repetitions.
  `OrderInv` says that nothing was ever asked of a part beyond the current one, not even
  late, that the parts before it are shown, and that the error text is asked for only when
  no part follows; `LossInv` that a part of which nothing was lost was executed at most
  once, and not at all while it is still tried.
- `Admission`: both properties, for any users, rate, table size and age, if a bucket is full
  again before its entry may be swept (`AdmissionAssumption`: 24 seconds against 60). The
  invariant says of an entry that its bucket is what is due, and holds at least what came
  back since it was last seen.
- `EvalRun`: type correctness, `TracesAreHonest` and `SameProtocolSameSamples`, for any
  options and any number of runs. `at` numbers the turns of three nested loops; `SampleInv`
  says that the samples are those of the numbers passed that are no warm-up, in their
  order. The cases a call selects are different cases of its suite (`SelectedIs`, by induction
  along the suite), and that no two numbers give the same sample is a fact about division
  (`NumbersDiffer`). So complete reports of one suite and protocol have the same samples, as
  the protocol holds the mode, the numbers of runs and the selection, on which alone
  `Expected` depends.
- `SplitMessage`: `ChunksFit`, `CutsProgress` and `CodeStaysCode`, for any answers that are
  not empty and any positive limits.
  The cut of `splitMessage` is shortened by the marker of the fence open at the *first*
  cut (`a`), while the marker that is added is that of the fence open at the second (`b`).
  If they differ, the one at `b` is closed on a line between the two, and the one at `a`
  opened on a later line that is at least as long as its marker. So a newline lies within
  the shortened capacity, the second cut is therefore at a newline (`CutIs`), and the line
  that closes the fence of `b` begins behind `b` and is at least as long as its marker,
  which has room (`ClosingFits`). The fences of a text are a recursive function; facts about
  them are proved by the set of the positions that have them, which contains 0 and with
  each its successor and hence all of them (`SetInduction`, from the library's theorem that
  `<` is well founded).
  `CodeStaysCode` is not inductive. `CodeInv` adds that the prefix of the next chunk reopens
  exactly the fence that is open in the answer at `offset`, and that `offset` is not within
  a fence line (`CutOK`): it is the start of the answer, behind a newline, or in a line
  without fence characters. That the next cut is no such place either needs both cuts
  of an iteration (`FirstCutOK`, `SecondCutOK`): a cut inside a fence line has no newline
  in its window, but for one left over at the start, so that the line would be longer than
  the room that `OrdinaryFences` leaves it (`CutInFenceLine`, `RoomForLine`). A chunk then
  has, line by line, the fences of the answer behind its prefix (`FencesCopied`): its lines
  are those of the answer, but for the first and the last, which may be parts of a line
  without fence characters, and such a part leaves every fence as it is (`SameLine`). Its
  suffix closes what is then open (`ClosedChunk`).

The proofs assume nothing but the named assumptions of the modules, which TLC evaluates
in each run.

**Only model-checked.** All liveness (`EveryCallReturns`, `ShutdownCompletes` and the like:
TLAPS does not prove properties under fairness here). `PartsTypeOK` is the conjunction of
the type invariants of the components of `MCComponents`, each of which is proved of its own
specification.

## 6. Not modelled, and why

- The repetitions and rate limits of discordgo itself, below `retryDiscord`: external. A
  call of `OutboundCalls` is one call of the library.
- The composition of late effects with the two goroutines of `Handle`. `Delivery` lets a
  failed call take effect at once or never, `OutboundCalls` lets it be late but has the
  worker alone. An answer edit that is late and follows the handler's error edit is
  therefore in neither.
- `StaysAway` is about the repetition of one call. After a last 429 the edit into the error
  text is another call and may come at once.
- That tokens of messages do not quite add up in a tokenizer: `ToolBudget` has them add
  up, as the sums of the code do after taking the marker's tokens off.
- Token counting, encoding and decoding of the LLM client; its configuration and profiles:
  functions of one input that keep no state.
- Prompts, output guard, logging; fixtures, metrics, configuration and the validation of a
  single sample in the evaluation: no state, or text only.
- SQL, HTTP, JSON and the Discord session: external; modelled by how the code uses them.

## 7. Plan

What would come next, in this order:

1. The composition of `Delivery` with `OutboundCalls`, so that late effects meet the
   handler, and its safety on top of `DeliveryProofs`.
2. The validation of a sample (`eval/validator.go`) as a function of its trace.

The queue and the tool loop came first because everything else relies on them.
