------------------------------ MODULE EvalRun ------------------------------
(***************************************************************************)
(* The evaluation harness: zii-eval run (execute in cmd/zii-eval/main.go   *)
(* with Run in internal/eval/runner.go), executed once before and once     *)
(* after a change, and zii-eval compare on the two reports.                *)
(*                                                                         *)
(* A suite is a sequence of cases; a case has its identifier, its category *)
(* and the tool modes it can be run in.  A call may select the cases of an *)
(* identifier or a category ("" if it does not).  What a sample measures   *)
(* is its status only.                                                     *)
(***************************************************************************)
EXTENDS Integers, SequencesExt

CONSTANTS Options       \* bound: the ways in which the program is called

Cases == [id : STRING, category : STRING, modes : SUBSET STRING]

ASSUME EvalAssumption ==
    \A o \in Options : /\ o.runs \in Nat \ {0} /\ o.warmup \in Nat /\ o.strict \in BOOLEAN
                       /\ o.suite \in Seq(Cases) /\ o.suite # <<>>
                       /\ \A i, j \in DOMAIN o.suite : o.suite[i].id = o.suite[j].id => i = j

VARIABLES
    side,       \* the program being run: "before", "after", "compared"
    options,    \* of the current run
    step,       \* where it is
    at,         \* number of the next sample in the loops over phase, rep and case
    samples,    \* Report.Samples
    journal,    \* the whole lines of samples.jsonl
    torn,       \* a part of a line follows them
    interrupted,    \* ctx of main has ended
    journalErr,     \* which also cancels the context of Run
    runErr,         \* Run returned an error
    complete,       \* Report.Complete
    exits,      \* the exit codes so far
    reports,    \* what Compare reads in the files that were written
    verdict     \* of Compare

evalVars == <<side, options, step, at, samples, journal, torn, interrupted, journalErr,
              runErr, complete, exits, reports, verdict>>
fileVars == <<journal, torn, journalErr>>
outcomeVars == <<exits, reports, verdict>>

Sides == {"before", "after"}
NoReport == [readable |-> FALSE]

-----------------------------------------------------------------------------
(* The cases that a call asks for, in the order of the suite. *)
Selected(suite, id, category) ==
    LET Wanted(case) == id \in {"", case.id} /\ category \in {"", case.category}
        from[n \in 0 .. Len(suite)] ==     \* among the first n
          IF n = 0 THEN <<>>
          ELSE IF Wanted(suite[n]) THEN Append(from[n - 1], suite[n]) ELSE from[n - 1]
    IN  from[Len(suite)]

Chosen == Selected(options.suite, options.id, options.category)

(* The loops of Run, laid out in a row: the warm-up repetitions of all selected cases, then
   the measured ones. *)
Position(n) == 1 + ((n - 1) % Len(Chosen))
Case(n) == Chosen[Position(n)]
Warmup(n) == n <= options.warmup * Len(Chosen)
Repetition(n) ==
    LET rep == 1 + ((n - 1) \div Len(Chosen))
    IN  IF Warmup(n) THEN rep ELSE rep - options.warmup
Planned == (options.warmup + options.runs) * Len(Chosen)

Supports(case) == options.mode \in case.modes
Eligible == \E i \in DOMAIN Chosen : Supports(Chosen[i])

Cancelled == interrupted \/ journalErr

Sample(status, wasCut) ==
    [id |-> Case(at).id, rep |-> Repetition(at), warmup |-> Warmup(at), status |-> status,
     cut |-> wasCut]    \* cut: the context ended during the sample (ghost)

(* what the summary counts; the exit code asks whether there is any *)
Measured == {i \in DOMAIN samples : ~samples[i].warmup}
Counted(status) == \E i \in Measured : samples[i].status = status

-----------------------------------------------------------------------------
EvalInit ==
    /\ side = "before"
    /\ options \in Options
    /\ step = "setup"
    /\ at = 1
    /\ samples = <<>> /\ journal = <<>> /\ torn = FALSE
    /\ interrupted = FALSE /\ journalErr = FALSE /\ runErr = FALSE /\ complete = FALSE
    /\ exits = <<>>
    /\ reports = [s \in Sides |-> NoReport]
    /\ verdict = "none"

(* no API key, no eligible case, no Search MCP *)
SetupFails ==
    /\ step = "setup"
    /\ runErr' = TRUE /\ step' = "save"
    /\ UNCHANGED <<side, options, at, samples, fileVars, interrupted, complete>>
    /\ UNCHANGED outcomeVars

SetupDone ==
    /\ step = "setup" /\ Eligible
    /\ step' = "loop"
    /\ UNCHANGED <<side, options, at, samples, fileVars, interrupted, runErr, complete>>
    /\ UNCHANGED outcomeVars

(* The context is looked at before a case, not after the last one. *)
StopLoop ==
    /\ step = "loop" /\ at <= Planned /\ Cancelled
    /\ runErr' = TRUE /\ step' = "save"
    /\ UNCHANGED <<side, options, at, samples, fileVars, interrupted, complete>>
    /\ UNCHANGED outcomeVars

EndLoop ==
    /\ step = "loop" /\ at > Planned
    /\ complete' = TRUE /\ step' = "save"
    /\ UNCHANGED <<side, options, at, samples, fileVars, interrupted, runErr>>
    /\ UNCHANGED outcomeVars

(* Mutant of Skip: the loop does not go on in the warm-up. *)
SkipForever ==
    /\ step = "loop" /\ at <= Planned /\ ~Cancelled /\ ~Supports(Case(at)) /\ ~Warmup(at)
    /\ samples' = Append(samples, Sample("SKIP", FALSE)) /\ step' = "journal"
    /\ UNCHANGED <<side, options, at, fileVars, interrupted, runErr, complete>>
    /\ UNCHANGED outcomeVars

Skip ==
    /\ step = "loop" /\ at <= Planned /\ ~Cancelled /\ ~Supports(Case(at))
    /\ IF Warmup(at)
       THEN at' = at + 1 /\ UNCHANGED <<step, samples>>
       ELSE samples' = Append(samples, Sample("SKIP", FALSE)) /\ step' = "journal" /\ UNCHANGED at
    /\ UNCHANGED <<side, options, fileVars, interrupted, runErr, complete>>
    /\ UNCHANGED outcomeVars

(* Mutant of StartSample: nobody looks at the context. *)
StartSampleAnyway ==
    /\ step = "loop" /\ at <= Planned /\ Supports(Case(at))
    /\ step' = "sample"
    /\ UNCHANGED <<side, options, at, samples, fileVars, interrupted, runErr, complete>>
    /\ UNCHANGED outcomeVars

(* Mutant of StartSample: one sample too many. *)
StartSampleBeyond ==
    /\ step = "loop" /\ at <= Planned + 1 /\ ~Cancelled /\ Supports(Case(at))
    /\ step' = "sample"
    /\ UNCHANGED <<side, options, at, samples, fileVars, interrupted, runErr, complete>>
    /\ UNCHANGED outcomeVars

StartSample ==
    /\ step = "loop" /\ at <= Planned /\ ~Cancelled /\ Supports(Case(at))
    /\ step' = "sample"
    /\ UNCHANGED <<side, options, at, samples, fileVars, interrupted, runErr, complete>>
    /\ UNCHANGED outcomeVars

(* runSample: any status; what the end of the context cuts off fails *)
FinishSample ==
    /\ step = "sample"
    /\ \E status \in {"PASS", "WARN", "FAIL"}, wasCut \in BOOLEAN :
         /\ wasCut => interrupted /\ status = "FAIL"
         /\ samples' = Append(samples, Sample(status, wasCut))
    /\ step' = "journal"
    /\ UNCHANGED <<side, options, at, fileVars, interrupted, runErr, complete>>
    /\ UNCHANGED outcomeVars

(* Mutant of Journal: an error of the journal does not end the run. *)
JournalIgnored ==
    /\ step = "journal"
    /\ journal' \in {journal, Append(journal, samples[Len(samples)])}
    /\ torn' \in {FALSE, journal' = journal}
    /\ UNCHANGED journalErr
    /\ at' = at + 1 /\ step' = "loop"
    /\ UNCHANGED <<side, options, samples, interrupted, runErr, complete>>
    /\ UNCHANGED outcomeVars

(* The progress callback.  If Encode or Sync fails, the line is in the file, or a part of
   it, or nothing; the file is not used again. *)
Journal ==
    /\ step = "journal" /\ ~journalErr
    /\ \/ /\ journal' = Append(journal, samples[Len(samples)])
          /\ UNCHANGED torn
          /\ journalErr' \in BOOLEAN
       \/ /\ journalErr' = TRUE
          /\ torn' \in BOOLEAN
          /\ UNCHANGED journal
    /\ at' = at + 1 /\ step' = "loop"
    /\ UNCHANGED <<side, options, samples, interrupted, runErr, complete>>
    /\ UNCHANGED outcomeVars

-----------------------------------------------------------------------------
(* Mutant of ExitCode: only failures count. *)
ExitCodeLax ==
    IF journalErr THEN 2
    ELSE IF runErr THEN IF interrupted THEN 130 ELSE 2
    ELSE IF Counted("FAIL") THEN 1
    ELSE 0

ExitCode ==
    IF journalErr THEN 2
    ELSE IF runErr THEN IF interrupted THEN 130 ELSE 2
    ELSE IF Counted("FAIL") \/ (options.strict /\ Counted("WARN")) THEN 1
    ELSE 0

(* Mutants of Protocol: the mode, or what selects the cases, is not part of it. *)
ProtocolWithoutMode == <<options.runs, options.warmup, options.category, options.id>>
ProtocolWithoutSelection == <<options.mode, options.runs, options.warmup>>

(* what the hash is made of, as far as two calls for one suite can differ in it here *)
Protocol == <<options.mode, options.runs, options.warmup, options.category, options.id>>

(* what Compare reads of a report: sampleIndex, and what has to agree *)
Report ==
    [readable |-> TRUE, complete |-> complete, suite |-> options.suite, protocol |-> Protocol,
     index  |-> {[id |-> samples[i].id, rep |-> samples[i].rep,
                  skip |-> samples[i].status = "SKIP"] : i \in Measured},
     unique |-> \A i, j \in Measured :
                  samples[i].id = samples[j].id /\ samples[i].rep = samples[j].rep => i = j]

(* WriteReport, and the exit; a file that cannot be written may be report.json or one of
   those that come after it *)
Save ==
    /\ step = "save"
    /\ \/ /\ exits' = Append(exits, ExitCode)
          /\ reports' = [reports EXCEPT ![side] = Report]
       \/ /\ exits' = Append(exits, 2)
          /\ \E r \in {NoReport, Report} : reports' = [reports EXCEPT ![side] = r]
    /\ step' = "exit"
    /\ UNCHANGED <<side, options, at, samples, fileVars, interrupted, runErr, complete,
                   verdict>>

(* external: the developer changes something and runs the program again *)
RunAgain ==
    /\ side = "before" /\ step = "exit"
    /\ side' = "after"
    /\ options' \in Options
    /\ step' = "setup"
    /\ at' = 1
    /\ samples' = <<>> /\ journal' = <<>> /\ torn' = FALSE
    /\ interrupted' = FALSE /\ journalErr' = FALSE /\ runErr' = FALSE /\ complete' = FALSE
    /\ UNCHANGED outcomeVars

(* Ctrl-C or SIGTERM *)
Interrupt ==
    /\ step \in {"setup", "loop", "sample", "journal", "save"} /\ ~interrupted
    /\ interrupted' = TRUE
    /\ UNCHANGED <<side, options, step, at, samples, fileVars, runErr, complete>>
    /\ UNCHANGED outcomeVars

CompareReports ==
    /\ side = "after" /\ step = "exit"
    /\ side' = "compared"
    /\ LET b == reports["before"]
           a == reports["after"]
           Keys(r) == {<<k.id, k.rep>> : k \in r.index}
       IN  verdict' = IF ~b.readable \/ ~a.readable THEN "unreadable"
                      ELSE IF ~b.complete \/ ~a.complete THEN "incomplete"
                      ELSE IF b.suite # a.suite THEN "suites differ"
                      ELSE IF b.protocol # a.protocol THEN "protocol differs"
                      ELSE IF ~b.unique \/ ~a.unique THEN "duplicate sample"
                      ELSE IF Keys(b) # Keys(a) \/ b.index = {} THEN "sample sets differ"
                      ELSE IF b.index # a.index THEN "skip populations differ"
                      ELSE "compared"
    /\ UNCHANGED <<options, step, at, samples, fileVars, interrupted, runErr, complete>>
    /\ UNCHANGED <<exits, reports>>

Progress ==
    \/ SetupFails \/ SetupDone \/ StopLoop \/ EndLoop \/ Skip \/ StartSample
    \/ FinishSample \/ Journal \/ Save

EvalNext == Progress \/ RunAgain \/ Interrupt \/ CompareReports

(* A sample ends by its deadline (timeout of the profile or of the case) at the latest,
   and everything else is sequential code. *)
EvalFairness == WF_evalVars(Progress)

EvalSpec == EvalInit /\ [][EvalNext]_evalVars /\ EvalFairness

-----------------------------------------------------------------------------
EvalTypeOK ==
    /\ side \in Sides \cup {"compared"} /\ options \in Options
    /\ step \in {"setup", "loop", "sample", "journal", "save", "exit"}
    /\ at \in 1 .. Planned + 1
    /\ \A i \in DOMAIN samples : samples[i].status \in {"PASS", "WARN", "FAIL", "SKIP"}
    /\ {interrupted, journalErr, torn, runErr, complete} \subseteq BOOLEAN
    /\ DOMAIN reports = Sides

Exited(code) == step = "exit" /\ exits[Len(exits)] = code

(* A green run is one whose every measured sample is there, on disk, and good. *)
GreenMeansGood ==
    Exited(0) =>
        /\ complete /\ journal = samples /\ ~torn
        /\ \A n \in 1 .. Planned : ~Warmup(n) =>
             \E i \in DOMAIN samples :
                /\ samples[i].id = Case(n).id /\ samples[i].rep = Repetition(n)
                /\ ~samples[i].warmup /\ ~samples[i].cut
                /\ samples[i].status \in {"PASS", "SKIP"} \cup (IF options.strict THEN {} ELSE {"WARN"})
                /\ samples[i].status = "SKIP" <=> ~Supports(Case(n))

(* The lines of the journal are a beginning of the samples; they are all of them, and the
   last is whole, unless the run ends with exit code 2 or is not over. *)
JournalIsPrefix ==
    /\ IsPrefix(journal, samples)
    /\ step = "exit" /\ ~Exited(2) => journal = samples /\ ~torn

(* An interrupt costs one sample: nothing is run after the sample it hit. *)
OnlyLastCut ==
    \A i \in DOMAIN samples : samples[i].cut => i = Len(samples)

(* Together: what a run leaves behind tells what happened in it. *)
TracesAreHonest == GreenMeansGood /\ JournalIsPrefix /\ OnlyLastCut

(* Two reports of the same suite and protocol are never refused for their samples: the
   protocol says everything that decides which samples there are, what selects the cases
   included. *)
SameProtocolSameSamples ==
    verdict \notin {"duplicate sample", "sample sets differ", "skip populations differ"}

(* Every run of the program ends, whatever fails and whenever it is interrupted. *)
EvalEnds == []<>(step = "exit")

(* eval/README.md: 130 after an interrupt, with the sample that was cut. *)
InterruptIsToldSo ==
    step = "exit" /\ (\E i \in DOMAIN samples : samples[i].cut) => Exited(130) \/ Exited(2)
=============================================================================
