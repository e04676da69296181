----------------------------- MODULE SelfRepair -----------------------------
(***************************************************************************)
(* The self-repair command (scripts/lib/self-repair.mjs): for each skill   *)
(* candidate that may be drafted it opens a run directory, runs the        *)
(* allowlisted commands one after the other until one fails or is killed   *)
(* at its timeout, writes the skill draft and the repair plan, the final   *)
(* report and a line of the index.  Several commands may run at once and   *)
(* any may die between two writes.                                         *)
(*                                                                         *)
(* The candidates are read from the fixtures when a command starts; their  *)
(* contents may change meanwhile (Edit).  A run directory is named by the  *)
(* second the command started and the candidate.                           *)
(*                                                                         *)
(* Bounds: MaxSecond, MaxEdits, MaxStarts (runs of the command).  Left     *)
(* out: the manifest and the copy of the candidate in the run directory,   *)
(* the redacted outputs, patch.diff, the output roots, the pipes a killed  *)
(* command's children may hold open.                                       *)
(***************************************************************************)
EXTENDS Naturals, Sequences, FiniteSets

CONSTANTS Runners, Candidates, Commands, MaxSecond, MaxEdits, MaxStarts

ASSUME SelfRepairAssumption ==
  /\ Commands \in Nat \ {0}     \* VERIFY_COMMANDS, by their position
  /\ Candidates # {} /\ IsFiniteSet(Candidates)   \* a run without any does nothing
  /\ MaxSecond \in Nat /\ MaxEdits \in Nat /\ MaxStarts \in Nat

VARIABLES
  second,    \* the clock, at the resolution of a run's name
  content,   \* what each candidate says now
  draft,     \* the draft file of each candidate: [content, status]
  runDir,    \* the run directories: [log, repairPlan, report, failure]
  index,     \* runs/self-repair/index.jsonl: [run, status]
  runner,    \* the commands
  starts     \* how many were started

vars == <<second, content, draft, runDir, index, runner, starts>>

NoFile == "none"   \* and 0 where a file is its content
Idle == [pc |-> "idle"]
RunIds == (0..MaxSecond) \X Candidates
EmptyDir == [log |-> <<>>, repairPlan |-> NoFile, report |-> NoFile, failure |-> FALSE]

RunId(r) == <<runner[r].now, Head(runner[r].todo)>>
Dir(r) == runDir[RunId(r)]

Init ==
  /\ second = 0 /\ content = [c \in Candidates |-> 1]
  /\ draft = [c \in Candidates |-> [content |-> 0, status |-> NoFile]]
  /\ runDir = [id \in {} |-> EmptyDir] /\ index = {}
  /\ runner = [r \in Runners |-> Idle] /\ starts = 0

-----------------------------------------------------------------------------
(* One candidate.                                                          *)

Opened(dirs, id) == [d \in DOMAIN dirs \cup {id} |-> IF d \in DOMAIN dirs THEN dirs[d] ELSE EmptyDir]

\* crystallizeMisaSkills and the filter of candidateId; a run directory of the
\* same second and candidate is reused.
RunMisaSelfRepair(r, todo, verify) ==
  /\ runner[r] = Idle /\ starts < MaxStarts /\ starts' = starts + 1
  /\ runner' = [runner EXCEPT ![r] =
       [pc |-> IF verify THEN "verify" ELSE "plan", todo |-> todo, now |-> second,
        verify |-> verify, passed |-> 0, failed |-> FALSE,
        before |-> draft[Head(todo)].content, read |-> content]]
  /\ runDir' = Opened(runDir, <<second, Head(todo)>>)
  /\ UNCHANGED <<second, content, draft, index>>

Outcomes == {"ok", "failed", "timed_out"}

\* Mutant: no timer, a command that hangs is waited for.
RunAllowedCommandHangs(r, outcome) ==
  /\ runner[r].pc = "verify"
  /\ UNCHANGED <<second, content, draft, index, starts, runDir>>
  /\ runner' = [runner EXCEPT
       ![r].passed = @ + 1, ![r].failed = (outcome = "failed"),
       ![r].pc = CASE outcome = "timed_out" -> "waiting"
                   [] outcome = "ok" /\ runner[r].passed + 1 < Commands -> "verify"
                   [] OTHER -> "plan"]

\* One command and its line of the log; the first failure ends the loop.  A
\* command that hangs is killed and counts as failed.
RunAllowedCommand(r, outcome) ==
  /\ runner[r].pc = "verify"
  /\ runDir' = [runDir EXCEPT ![RunId(r)].log =
                  Append(@, [command |-> runner[r].passed + 1, ok |-> outcome = "ok"])]
  /\ LET done == runner[r].passed + 1 IN
       runner' = [runner EXCEPT
         ![r].passed = IF outcome = "ok" THEN done ELSE @,
         ![r].failed = (outcome # "ok"),
         ![r].pc = IF outcome = "ok" /\ done < Commands THEN "verify" ELSE "plan"]
  /\ UNCHANGED <<second, content, draft, index, starts>>

\* Mutant: without verification a draft is called validated too.
StatusMutant(r) == IF runner[r].failed THEN "needs_human_review" ELSE "validated_draft"

Status(r) == IF runner[r].failed THEN "needs_human_review"
             ELSE IF runner[r].verify THEN "validated_draft" ELSE "draft_generated"

WriteRepairPlan(r) ==
  /\ runner[r].pc = "plan"
  /\ runDir' = [runDir EXCEPT ![RunId(r)].repairPlan = Status(r)]
  /\ runner' = [runner EXCEPT ![r].pc = "draft"]
  /\ UNCHANGED <<second, content, draft, index, starts>>

WriteDraft(r) ==
  /\ runner[r].pc = "draft"
  /\ LET c == Head(runner[r].todo) IN
       draft' = [draft EXCEPT ![c] = [content |-> runner[r].read[c], status |-> Status(r)]]
  /\ runner' = [runner EXCEPT ![r].pc = "report"]
  /\ UNCHANGED <<second, content, runDir, index, starts>>

\* Mutant: the line of the index is appended before the report is written.
WriteReportsMutant(r) ==
  /\ runner[r].pc = "report"
  /\ index' = index \cup {[run |-> RunId(r), status |-> Status(r)]}
  /\ runner' = [runner EXCEPT ![r].pc = "index"]
  /\ UNCHANGED <<second, content, draft, runDir, starts>>

\* failure-report.json, then final-report.json.
WriteReports(r) ==
  /\ runner[r].pc = "report"
  /\ runDir' = [runDir EXCEPT ![RunId(r)].failure = @ \/ runner[r].failed,
                              ![RunId(r)].report = Status(r)]
  /\ runner' = [runner EXCEPT ![r].pc = "index"]
  /\ UNCHANGED <<second, content, draft, index, starts>>

\* The line of the index; then the next candidate, or the end.
AppendIndex(r) ==
  /\ runner[r].pc = "index"
  /\ index' = index \cup {[run |-> RunId(r), status |-> Status(r)]}
  /\ LET rest == Tail(runner[r].todo) IN
       IF rest = <<>>
       THEN runner' = [runner EXCEPT ![r] = Idle] /\ UNCHANGED runDir
       ELSE /\ runner' = [runner EXCEPT ![r] =
                 [@ EXCEPT !.pc = IF runner[r].verify THEN "verify" ELSE "plan", !.todo = rest,
                           !.passed = 0, !.failed = FALSE, !.before = draft[Head(rest)].content]]
            /\ runDir' = Opened(runDir, <<runner[r].now, Head(rest)>>)
  /\ UNCHANGED <<second, content, draft, starts>>

-----------------------------------------------------------------------------
(* The surroundings.                                                       *)

Die(r) ==
  /\ runner[r] # Idle
  /\ runner' = [runner EXCEPT ![r] = Idle]
  /\ UNCHANGED <<second, content, draft, runDir, index, starts>>

Tick == /\ second < MaxSecond /\ second' = second + 1
        /\ UNCHANGED <<content, draft, runDir, index, runner, starts>>

Edit(c) == /\ content[c] <= MaxEdits /\ content' = [content EXCEPT ![c] = @ + 1]
           /\ UNCHANGED <<second, draft, runDir, index, runner, starts>>

\* All candidates in order, or the one of --candidate-id.
Queues == {<<c>> : c \in Candidates}
          \cup {q \in [1..Cardinality(Candidates) -> Candidates] :
                  \A i, j \in DOMAIN q : q[i] = q[j] => i = j}

RunnerStep(r) ==
  \/ \E o \in Outcomes : RunAllowedCommand(r, o)
  \/ WriteRepairPlan(r) \/ WriteDraft(r) \/ WriteReports(r) \/ AppendIndex(r)

Next ==
  \/ \E r \in Runners :
       \/ \E q \in Queues, verify \in BOOLEAN : RunMisaSelfRepair(r, q, verify)
       \/ RunnerStep(r) \/ Die(r)
  \/ Tick \/ \E c \in Candidates : Edit(c)

Spec == Init /\ [][Next]_vars /\ \A r \in Runners : WF_vars(RunnerStep(r))

-----------------------------------------------------------------------------
(* Properties.                                                             *)

TypeOK ==
  /\ second \in 0..MaxSecond /\ DOMAIN runDir \subseteq RunIds
  /\ \A r \in Runners : runner[r] = Idle \/
       /\ runner[r].passed \in 0..Commands
       /\ (runner[r].pc = "verify" => runner[r].passed < Commands /\ ~runner[r].failed)
       /\ RunId(r) \in DOMAIN runDir
  /\ \A e \in index : e.run \in DOMAIN runDir

\* A draft on disk that calls itself validated is one for whose candidate, in one
\* run, every command was logged as passed, whatever other commands ran at the
\* time and wherever they died.
ValidatedWasVerified ==
  \A c \in Candidates : draft[c].status = "validated_draft" =>
    \E id \in DOMAIN runDir : id[2] = c /\
      \A k \in 1..Commands : \E i \in DOMAIN runDir[id].log :
        runDir[id].log[i] = [command |-> k, ok |-> TRUE]

\* Whoever follows the index finds a final report in the run directory, and the
\* repair plan that was written before the draft.
IndexedRunsAreReported ==
  \A e \in index : runDir[e.run].report # NoFile /\ runDir[e.run].repairPlan # NoFile

\* The commands have timeouts, so every run ends (or dies).
RunsEnd == \A r \in Runners : (runner[r] # Idle) ~> (runner[r] = Idle)
=============================================================================
