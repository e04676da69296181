--------------------------- MODULE SelfRepairProofs ---------------------------
(***************************************************************************)
(* Proofs about SelfRepair, for any number of commands at once, of         *)
(* candidates and of steps: a draft that calls itself validated has the    *)
(* log of a run that passed every command, and the index points at final   *)
(* reports only, wherever the processes die.                               *)
(*                                                                         *)
(* Both rest on one fact: what is in a run directory never becomes less    *)
(* (Grows), although commands of the same second and candidate share one.  *)
(* The inductive invariant says what the directory of a running command    *)
(* holds already: the commands it passed (Verified) and the files it has   *)
(* written (Written).                                                      *)
(***************************************************************************)
EXTENDS SelfRepair, TLAPS, FiniteSetTheorems, SequenceTheorems

Statuses == {"needs_human_review", "validated_draft", "draft_generated"}
Places == {"verify", "plan", "draft", "report", "index"}

Running ==
  [pc : Places, todo : Seq(Candidates), now : 0..MaxSecond, verify : BOOLEAN,
   passed : 0..Commands, failed : BOOLEAN, before : Nat, read : [Candidates -> Nat]]
Lines == [command : Nat, ok : BOOLEAN]
Dirs == [log : Seq(Lines), repairPlan : Statuses \cup {NoFile}, report : Statuses \cup {NoFile},
         failure : BOOLEAN]
Drafts == [content : Nat, status : Statuses \cup {NoFile}]

Typed ==
  /\ second \in 0..MaxSecond /\ content \in [Candidates -> Nat]
  /\ draft \in [Candidates -> Drafts]
  /\ DOMAIN runDir \subseteq RunIds /\ runDir \in [DOMAIN runDir -> Dirs]
  /\ index \subseteq [run : DOMAIN runDir, status : Statuses]
  /\ runner \in [Runners -> {Idle} \cup Running]
  /\ \A r \in Runners : runner[r] # Idle => runner[r].todo # <<>> /\ RunId(r) \in DOMAIN runDir

Passed(dir, k) == \E i \in DOMAIN dir.log : dir.log[i] = [command |-> k, ok |-> TRUE]

\* A run that has left the loop without a failure has passed every command.
Verified(r) ==
  runner[r] # Idle =>
    /\ runner[r].pc = "verify" => /\ runner[r].verify /\ ~runner[r].failed
                                  /\ runner[r].passed < Commands
    /\ runner[r].pc # "verify" /\ runner[r].verify /\ ~runner[r].failed
         => runner[r].passed = Commands
    /\ \A k \in 1..runner[r].passed : Passed(Dir(r), k)

Written(r) ==
  runner[r] # Idle =>
    /\ runner[r].pc \in {"draft", "report", "index"} => Dir(r).repairPlan # NoFile
    /\ runner[r].pc = "index" => Dir(r).report # NoFile

IInv ==
  /\ Typed /\ \A r \in Runners : Verified(r) /\ Written(r)
  /\ ValidatedWasVerified /\ IndexedRunsAreReported

USE SelfRepairAssumption

-----------------------------------------------------------------------------
(* Run directories only gain.                                              *)

Gains(a, b) ==
  /\ \A k \in Nat : Passed(a, k) => Passed(b, k)
  /\ a.repairPlan # NoFile => b.repairPlan # NoFile
  /\ a.report # NoFile => b.report # NoFile

Grows ==
  /\ DOMAIN runDir \subseteq DOMAIN runDir'
  /\ \A id \in DOMAIN runDir : Gains(runDir[id], runDir'[id])

LEMMA IdleIsNotRunning == Idle \notin Running
BY DEF Idle, Running, Places

LEMMA RunnerFacts ==
  ASSUME Typed, NEW r \in Runners, runner[r] # Idle
  PROVE  /\ runner[r] \in Running /\ RunId(r) \in DOMAIN runDir /\ Dir(r) \in Dirs
         /\ RunId(r) = <<runner[r].now, Head(runner[r].todo)>>
         /\ Head(runner[r].todo) \in Candidates
<1>1. runner[r] \in Running /\ RunId(r) \in DOMAIN runDir /\ runner[r].todo # <<>>
  BY DEF Typed
<1>2. Dir(r) \in Dirs
  BY <1>1 DEF Typed, Dir
<1>3. runner[r].todo \in Seq(Candidates)
  BY <1>1 DEF Running
<1>4. Head(runner[r].todo) \in Candidates
  BY <1>1, <1>3, HeadTailProperties
<1> QED
  BY <1>1, <1>2, <1>4 DEF RunId

\* A write into one directory that gains.
LEMMA WriteGrows ==
  ASSUME Typed, NEW id \in DOMAIN runDir, NEW dir \in Dirs, Gains(runDir[id], dir),
         runDir' = [runDir EXCEPT ![id] = dir]
  PROVE  /\ Grows /\ DOMAIN runDir' = DOMAIN runDir /\ runDir' \in [DOMAIN runDir -> Dirs]
         /\ runDir'[id] = dir
<1>1. DOMAIN runDir' = DOMAIN runDir /\ runDir' \in [DOMAIN runDir -> Dirs] /\ runDir'[id] = dir
  BY DEF Typed
<1>2. ASSUME NEW d \in DOMAIN runDir PROVE Gains(runDir[d], runDir'[d])
  <2>1. CASE d = id
    BY <1>1, <2>1
  <2>2. CASE d # id
    BY <2>2 DEF Gains, Typed
  <2> QED
    BY <2>1, <2>2
<1> QED
  BY <1>1, <1>2 DEF Grows

LEMMA OpenGrows ==
  ASSUME Typed, NEW id \in RunIds, runDir' = Opened(runDir, id)
  PROVE  /\ Grows /\ DOMAIN runDir' = DOMAIN runDir \cup {id}
         /\ runDir' \in [DOMAIN runDir' -> Dirs] /\ DOMAIN runDir' \subseteq RunIds
<1>1. EmptyDir \in Dirs
  BY DEF EmptyDir, Dirs, Lines
<1>2. /\ DOMAIN runDir' = DOMAIN runDir \cup {id} /\ DOMAIN runDir' \subseteq RunIds
      /\ \A d \in DOMAIN runDir : runDir'[d] = runDir[d]
  BY DEF Opened, Typed
<1>3. runDir' \in [DOMAIN runDir' -> Dirs]
  BY <1>1 DEF Opened, Typed
<1>4. \A d \in DOMAIN runDir : Gains(runDir[d], runDir'[d])
  BY <1>2 DEF Gains
<1> QED
  BY <1>2, <1>3, <1>4 DEF Grows

LEMMA SameGrows == ASSUME UNCHANGED runDir PROVE Grows
BY DEF Grows, Gains

\* A line more in a log.
LEMMA AppendGains ==
  ASSUME NEW dir \in Dirs, NEW line \in Lines
  PROVE  /\ [dir EXCEPT !.log = Append(@, line)] \in Dirs
         /\ Gains(dir, [dir EXCEPT !.log = Append(@, line)])
         /\ line.ok => Passed([dir EXCEPT !.log = Append(@, line)], line.command)
<1> DEFINE new == [dir EXCEPT !.log = Append(@, line)]
<1>1. dir.log \in Seq(Lines)
  BY DEF Dirs
<1>2. /\ Append(dir.log, line) \in Seq(Lines) /\ DOMAIN dir.log \subseteq DOMAIN Append(dir.log, line)
      /\ \A i \in DOMAIN dir.log : Append(dir.log, line)[i] = dir.log[i]
      /\ Len(dir.log) + 1 \in DOMAIN Append(dir.log, line)
      /\ Append(dir.log, line)[Len(dir.log) + 1] = line
  BY <1>1
<1>3. /\ new \in Dirs /\ new.log = Append(dir.log, line)
      /\ new.repairPlan = dir.repairPlan /\ new.report = dir.report
  BY <1>2 DEF Dirs
<1>4. \A k \in Nat : Passed(dir, k) => Passed(new, k)
  BY <1>2, <1>3 DEF Passed
<1>5. line.ok => line = [command |-> line.command, ok |-> TRUE]
  BY DEF Lines
<1>6. line.ok => Passed(new, line.command)
  BY <1>2, <1>3, <1>5 DEF Passed
<1> QED
  BY <1>3, <1>4, <1>6 DEF Gains

-----------------------------------------------------------------------------
(* The frame of every step: one command moves, the directories gain.       *)

LEMMA OthersKeep ==
  ASSUME IInv, Grows, NEW s \in Runners, runner'[s] = runner[s]
  PROVE  /\ runner'[s] # Idle => runner'[s].todo # <<>> /\ RunId(s)' \in DOMAIN runDir'
         /\ Verified(s)' /\ Written(s)'
<1>1. CASE runner[s] = Idle
  BY <1>1 DEF Verified, Written
<1>2. CASE runner[s] # Idle
  <2>1. /\ RunId(s)' = RunId(s) /\ RunId(s) \in DOMAIN runDir /\ runner[s].todo # <<>>
        /\ runner[s].passed \in Nat
    BY <1>2, RunnerFacts DEF IInv, RunId, Typed, Running
  <2>2. Gains(Dir(s), Dir(s)') /\ RunId(s)' \in DOMAIN runDir'
    BY <2>1 DEF Grows, Dir
  <2>3. Verified(s)'
    BY <1>2, <2>1, <2>2 DEF IInv, Verified, Gains
  <2>4. Written(s)'
    BY <1>2, <2>2 DEF IInv, Written, Gains
  <2> QED
    BY <2>1, <2>2, <2>3, <2>4
<1> QED
  BY <1>1, <1>2

LEMMA ValidatedKeeps ==
  ASSUME IInv, Grows, UNCHANGED draft
  PROVE  ValidatedWasVerified'
<1>1. ASSUME NEW c \in Candidates, draft[c].status = "validated_draft"
      PROVE  \E id \in DOMAIN runDir' : id[2] = c /\ \A k \in 1..Commands : Passed(runDir'[id], k)
  <2>1. PICK id \in DOMAIN runDir : id[2] = c /\ \A k \in 1..Commands : Passed(runDir[id], k)
    BY <1>1 DEF IInv, ValidatedWasVerified, Passed
  <2>2. id \in DOMAIN runDir' /\ \A k \in Nat : Passed(runDir[id], k) => Passed(runDir'[id], k)
    BY DEF Grows, Gains
  <2> QED
    BY <2>1, <2>2
<1> QED
  BY <1>1 DEF ValidatedWasVerified, Passed

LEMMA IndexedKeeps ==
  ASSUME IInv, Grows, UNCHANGED index
  PROVE  IndexedRunsAreReported'
<1>1. \A e \in index : e.run \in DOMAIN runDir
  BY DEF IInv, Typed
<1> QED
  BY <1>1 DEF IInv, IndexedRunsAreReported, Grows, Gains

\* A command that is idle afterwards owes nothing.
LEMMA FrameIndexStep ==
  ASSUME IInv, Grows, NEW r \in Runners, \A s \in Runners \ {r} : runner'[s] = runner[s],
         index' \subseteq [run : DOMAIN runDir', status : Statuses], IndexedRunsAreReported',
         ValidatedWasVerified',
         second' \in 0..MaxSecond, content' \in [Candidates -> Nat],
         draft' \in [Candidates -> Drafts],
         DOMAIN runDir' \subseteq RunIds, runDir' \in [DOMAIN runDir' -> Dirs],
         runner' \in [Runners -> {Idle} \cup Running],
         runner'[r] # Idle => runner'[r].todo # <<>> /\ RunId(r)' \in DOMAIN runDir',
         Verified(r)', Written(r)'
  PROVE  IInv'
<1>1. \A s \in Runners : runner'[s] # Idle
          => runner'[s].todo # <<>> /\ RunId(s)' \in DOMAIN runDir'
  BY OthersKeep
<1>2. \A s \in Runners : Verified(s)' /\ Written(s)'
  BY OthersKeep
<1>3. Typed'
  BY <1>1 DEF Typed
<1> QED
  BY <1>2, <1>3 DEF IInv

LEMMA FrameStep ==
  ASSUME IInv, Grows, NEW r \in Runners, \A s \in Runners \ {r} : runner'[s] = runner[s],
         UNCHANGED index, ValidatedWasVerified',
         second' \in 0..MaxSecond, content' \in [Candidates -> Nat],
         draft' \in [Candidates -> Drafts],
         DOMAIN runDir' \subseteq RunIds, runDir' \in [DOMAIN runDir' -> Dirs],
         runner' \in [Runners -> {Idle} \cup Running],
         runner'[r] # Idle => runner'[r].todo # <<>> /\ RunId(r)' \in DOMAIN runDir',
         Verified(r)', Written(r)'
  PROVE  IInv'
<1>1. index' \subseteq [run : DOMAIN runDir', status : Statuses]
  BY DEF IInv, Typed, Grows
<1> QED
  BY <1>1, IndexedKeeps, FrameIndexStep

LEMMA QueueFacts ==
  ASSUME NEW q \in Queues
  PROVE  q \in Seq(Candidates) /\ q # <<>> /\ Head(q) \in Candidates
<1>1. Cardinality(Candidates) \in Nat /\ Cardinality(Candidates) # 0
  BY FS_CardinalityType, FS_EmptySet
<1>2. q \in Seq(Candidates) /\ q # <<>>
  <2>1. CASE \E c \in Candidates : q = <<c>>
    BY <2>1
  <2>2. CASE q \in [1..Cardinality(Candidates) -> Candidates]
    <3>1. q \in Seq(Candidates)
      BY <1>1, <2>2, SeqDef
    <3>2. 1 \in DOMAIN q
      BY <1>1, <2>2
    <3> QED
      BY <3>1, <3>2
  <2> QED
    BY <2>1, <2>2 DEF Queues
<1> QED
  BY <1>2, HeadTailProperties

LEMMA InitIInv == Init => IInv
<1> SUFFICES ASSUME Init PROVE IInv
  OBVIOUS
<1>1. /\ DOMAIN runDir = {} /\ index = {} /\ \A r \in Runners : runner[r] = Idle
      /\ \A c \in Candidates : draft[c].status = NoFile
  BY DEF Init
<1>2. Typed
  <2>1. second \in 0..MaxSecond /\ content \in [Candidates -> Nat]
    BY DEF Init
  <2>2. draft \in [Candidates -> Drafts]
    BY DEF Init, Drafts
  <2>3. runDir \in [DOMAIN runDir -> Dirs]
    BY DEF Init
  <2>4. runner \in [Runners -> {Idle} \cup Running]
    BY DEF Init
  <2> QED
    BY <1>1, <2>1, <2>2, <2>3, <2>4 DEF Typed
<1>3. \A r \in Runners : Verified(r) /\ Written(r)
  BY <1>1 DEF Verified, Written
<1>4. ValidatedWasVerified /\ IndexedRunsAreReported
  BY <1>1 DEF ValidatedWasVerified, IndexedRunsAreReported, NoFile
<1> QED
  BY <1>2, <1>3, <1>4 DEF IInv

LEMMA StartStep ==
  ASSUME IInv, NEW r \in Runners, NEW q \in Queues, NEW verify \in BOOLEAN,
         RunMisaSelfRepair(r, q, verify)
  PROVE  IInv'
<1> DEFINE pc == IF verify THEN "verify" ELSE "plan"
           new == [pc |-> pc, todo |-> q, now |-> second, verify |-> verify, passed |-> 0,
                   failed |-> FALSE, before |-> draft[Head(q)].content, read |-> content]
<1>1. Typed /\ q \in Seq(Candidates) /\ q # <<>> /\ Head(q) \in Candidates
  BY QueueFacts DEF IInv
<1>2. new \in Running /\ new # Idle
  <2>1. draft[Head(q)].content \in Nat /\ content \in [Candidates -> Nat] /\ second \in 0..MaxSecond
    BY <1>1 DEF Typed, Drafts
  <2>2. pc \in Places
    BY DEF Places
  <2>3. new \in Running
    BY <1>1, <2>1, <2>2 DEF Running
  <2> QED
    BY <2>3, IdleIsNotRunning
<1>3. /\ runner' = [runner EXCEPT ![r] = new]
      /\ runDir' = Opened(runDir, <<second, Head(q)>>)
      /\ UNCHANGED <<second, content, draft, index>>
  BY Zenon DEF RunMisaSelfRepair
<1>4. /\ Grows /\ DOMAIN runDir' = DOMAIN runDir \cup {<<second, Head(q)>>}
      /\ runDir' \in [DOMAIN runDir' -> Dirs] /\ DOMAIN runDir' \subseteq RunIds
  <2>1. <<second, Head(q)>> \in RunIds
    BY <1>1 DEF RunIds, Typed
  <2> QED
    BY <1>1, <1>3, <2>1, OpenGrows
<1>5. /\ runner'[r] = new /\ \A s \in Runners \ {r} : runner'[s] = runner[s]
      /\ runner' \in [Runners -> {Idle} \cup Running]
  BY <1>1, <1>2, <1>3, Zenon DEF Typed
<1>6. runner'[r].todo # <<>> /\ RunId(r)' \in DOMAIN runDir'
  BY <1>1, <1>4, <1>5 DEF RunId
<1>7. Verified(r)' /\ Written(r)'
  <2>1. /\ runner'[r].pc = pc /\ runner'[r].verify = verify /\ runner'[r].passed = 0
        /\ runner'[r].failed = FALSE
    BY <1>5
  <2> QED
    BY <2>1 DEF Verified, Written
<1> QED
  BY <1>1, <1>3, <1>4, <1>5, <1>6, <1>7, ValidatedKeeps, FrameStep DEF Typed

\* A command that moves from one place to another.
LEMMA MoveFacts ==
  ASSUME Typed, NEW r \in Runners, runner[r] # Idle, NEW new \in Running,
         new.now = runner[r].now, new.todo = runner[r].todo,
         runner' = [runner EXCEPT ![r] = new]
  PROVE  /\ runner'[r] = new /\ \A s \in Runners \ {r} : runner'[s] = runner[s]
         /\ runner' \in [Runners -> {Idle} \cup Running]
         /\ RunId(r)' = RunId(r) /\ runner'[r].todo # <<>>
<1>1. /\ runner'[r] = new /\ \A s \in Runners \ {r} : runner'[s] = runner[s]
      /\ runner' \in [Runners -> {Idle} \cup Running]
  BY Zenon DEF Typed
<1>2. runner[r].todo # <<>>
  BY DEF Typed
<1> QED
  BY <1>1, <1>2 DEF RunId

LEMMA CommandStep ==
  ASSUME IInv, NEW r \in Runners, NEW outcome \in Outcomes, RunAllowedCommand(r, outcome)
  PROVE  IInv'
<1> DEFINE done == runner[r].passed + 1
           line == [command |-> done, ok |-> outcome = "ok"]
           dir == [Dir(r) EXCEPT !.log = Append(@, line)]
           passed == IF outcome = "ok" THEN done ELSE runner[r].passed
           pc == IF outcome = "ok" /\ done < Commands THEN "verify" ELSE "plan"
           new == [runner[r] EXCEPT !.passed = passed, !.failed = (outcome # "ok"), !.pc = pc]
<1>1. Typed /\ runner[r].pc = "verify" /\ runner[r] # Idle
  BY DEF IInv, RunAllowedCommand, Idle
<1>2. /\ runner[r] \in Running /\ RunId(r) \in DOMAIN runDir /\ Dir(r) \in Dirs
      /\ Dir(r) = runDir[RunId(r)]
  BY <1>1, RunnerFacts DEF Dir
<1>3. /\ runner[r].verify /\ ~runner[r].failed /\ runner[r].passed < Commands
      /\ runner[r].passed \in Nat /\ \A k \in 1..runner[r].passed : Passed(Dir(r), k)
  BY <1>1, <1>2 DEF IInv, Verified, Running
<1>4. done \in 1..Commands /\ line \in Lines
  BY <1>3 DEF Lines
<1>5. dir \in Dirs /\ Gains(Dir(r), dir) /\ (outcome = "ok" => Passed(dir, done))
  BY <1>2, <1>4, AppendGains
<1>6. /\ runDir' = [runDir EXCEPT ![RunId(r)] = dir]
      /\ UNCHANGED <<second, content, draft, index, starts>>
  BY <1>2 DEF RunAllowedCommand
<1>7. runner' = [runner EXCEPT ![r] = new]
  BY <1>1 DEF RunAllowedCommand, Typed
<1>8. /\ new \in Running /\ new.now = runner[r].now /\ new.todo = runner[r].todo
      /\ new.verify /\ new.failed = (outcome # "ok")
      /\ new.passed = passed /\ new.pc = pc
  <2>1. passed \in 0..Commands /\ pc \in Places
    BY <1>3, <1>4 DEF Places
  <2> HIDE DEF passed, pc
  <2> QED
    BY <1>2, <1>3, <2>1 DEF Running
<1> HIDE DEF new, dir
<1>9. /\ Grows /\ DOMAIN runDir' = DOMAIN runDir /\ runDir' \in [DOMAIN runDir -> Dirs]
      /\ runDir'[RunId(r)] = dir
  BY <1>1, <1>2, <1>5, <1>6, WriteGrows
<1>10. /\ runner'[r] = new /\ \A s \in Runners \ {r} : runner'[s] = runner[s]
       /\ runner' \in [Runners -> {Idle} \cup Running]
       /\ RunId(r)' = RunId(r) /\ runner'[r].todo # <<>>
  BY <1>1, <1>7, <1>8, MoveFacts
<1>11. Dir(r)' = dir
  BY <1>9, <1>10 DEF Dir
<1>12. Verified(r)'
  <2>1. \A k \in 1..runner[r].passed : Passed(dir, k)
    BY <1>3, <1>5 DEF Gains
  <2>2. \A k \in 1..new.passed : Passed(dir, k)
    BY <1>3, <1>5, <1>8, <2>1
  <2>3. pc = "verify" => ~new.failed /\ new.passed < Commands
    BY <1>4, <1>8
  <2>4. ASSUME pc # "verify", ~new.failed PROVE new.passed = Commands
    <3>1. outcome = "ok"
      BY <1>8, <2>4
    <3>2. ~(done < Commands) /\ new.passed = done
      BY <1>8, <2>4, <3>1
    <3> QED
      BY <1>4, <3>2
  <2> HIDE DEF pc
  <2> QED
    BY <1>8, <1>10, <1>11, <2>2, <2>3, <2>4 DEF Verified
<1>13. Written(r)'
  BY <1>8, <1>10 DEF Written
<1> QED
  BY <1>1, <1>2, <1>6, <1>9, <1>10, <1>12, <1>13, ValidatedKeeps, FrameStep DEF Typed

\* Writing a file into the run's directory, and going to the next place.
LEMMA FileStep ==
  ASSUME IInv, NEW r \in Runners, runner[r] # Idle, NEW dir \in Dirs, Gains(Dir(r), dir),
         runner[r].pc # "verify", NEW pc \in Places, pc # "verify",
         runDir' = [runDir EXCEPT ![RunId(r)] = dir],
         runner' = [runner EXCEPT ![r].pc = pc],
         UNCHANGED <<second, content, draft, index>>,
         pc \in {"draft", "report", "index"} => dir.repairPlan # NoFile,
         pc = "index" => dir.report # NoFile
  PROVE  IInv'
<1> DEFINE new == [runner[r] EXCEPT !.pc = pc]
<1>1. /\ Typed /\ runner[r] \in Running /\ RunId(r) \in DOMAIN runDir /\ Dir(r) = runDir[RunId(r)]
  BY RunnerFacts DEF IInv, Dir
<1>2. runner' = [runner EXCEPT ![r] = new]
  BY <1>1 DEF Typed
<1>3. /\ new \in Running /\ new.now = runner[r].now /\ new.todo = runner[r].todo
      /\ new.pc = pc /\ new.verify = runner[r].verify /\ new.failed = runner[r].failed
      /\ new.passed = runner[r].passed /\ runner[r].passed \in Nat
  <2>1. runner[r].passed \in Nat
    BY <1>1 DEF Running
  <2>2. new \in Running
    BY <1>1 DEF Running
  <2>3. /\ new.now = runner[r].now /\ new.todo = runner[r].todo /\ new.pc = pc
        /\ new.verify = runner[r].verify /\ new.failed = runner[r].failed
        /\ new.passed = runner[r].passed
    BY <1>1 DEF Running
  <2> QED
    BY <2>1, <2>2, <2>3
<1> HIDE DEF new
<1>4. /\ Grows /\ DOMAIN runDir' = DOMAIN runDir /\ runDir' \in [DOMAIN runDir -> Dirs]
      /\ runDir'[RunId(r)] = dir
  BY <1>1, WriteGrows
<1>5. /\ runner'[r] = new /\ \A s \in Runners \ {r} : runner'[s] = runner[s]
      /\ runner' \in [Runners -> {Idle} \cup Running]
      /\ RunId(r)' = RunId(r) /\ runner'[r].todo # <<>>
  BY <1>1, <1>2, <1>3, MoveFacts
<1>6. Dir(r)' = dir
  BY <1>4, <1>5 DEF Dir
<1>7. Verified(r)'
  <2>1. \A k \in 1..new.passed : Passed(dir, k)
    BY <1>3 DEF IInv, Verified, Gains
  <2> QED
    BY <1>3, <1>5, <1>6, <2>1 DEF IInv, Verified
<1>8. Written(r)'
  BY <1>3, <1>5, <1>6 DEF Written
<1> QED
  BY <1>1, <1>4, <1>5, <1>7, <1>8, ValidatedKeeps, FrameStep DEF Typed

LEMMA StatusFacts ==
  ASSUME NEW r \in Runners, runner[r] \in Running
  PROVE  Status(r) \in Statuses /\ Status(r) # NoFile
         /\ (Status(r) = "validated_draft" => runner[r].verify /\ ~runner[r].failed)
BY DEF Status, Statuses, NoFile, Running

LEMMA RepairPlanStep == ASSUME IInv, NEW r \in Runners, WriteRepairPlan(r) PROVE IInv'
<1> DEFINE dir == [Dir(r) EXCEPT !.repairPlan = Status(r)]
<1>1. Typed /\ runner[r].pc = "plan" /\ runner[r] # Idle /\ "draft" \in Places
  BY DEF IInv, WriteRepairPlan, Idle, Places
<1>2. /\ Dir(r) \in Dirs /\ Dir(r) = runDir[RunId(r)] /\ RunId(r) \in DOMAIN runDir
      /\ Status(r) \in Statuses /\ Status(r) # NoFile
  BY <1>1, RunnerFacts, StatusFacts DEF Dir
<1>3. dir \in Dirs /\ Gains(Dir(r), dir) /\ dir.repairPlan # NoFile
  <2>1. dir \in Dirs /\ dir.repairPlan = Status(r) /\ dir.log = Dir(r).log /\ dir.report = Dir(r).report
    BY <1>2 DEF Dirs
  <2> QED
    BY <1>2, <2>1 DEF Gains, Passed
<1>4. /\ runDir' = [runDir EXCEPT ![RunId(r)] = dir]
      /\ runner' = [runner EXCEPT ![r].pc = "draft"]
      /\ UNCHANGED <<second, content, draft, index>>
  BY <1>2 DEF WriteRepairPlan
<1> HIDE DEF dir
<1> QED
  BY <1>1, <1>3, <1>4, FileStep

LEMMA ReportsStep == ASSUME IInv, NEW r \in Runners, WriteReports(r) PROVE IInv'
<1> DEFINE failure == Dir(r).failure \/ runner[r].failed
           dir == [Dir(r) EXCEPT !.failure = failure, !.report = Status(r)]
<1>1. Typed /\ runner[r].pc = "report" /\ runner[r] # Idle /\ "index" \in Places
  BY DEF IInv, WriteReports, Idle, Places
<1>2. /\ Dir(r) \in Dirs /\ Dir(r) = runDir[RunId(r)] /\ RunId(r) \in DOMAIN runDir
      /\ Dir(r).repairPlan # NoFile /\ Status(r) \in Statuses /\ Status(r) # NoFile
  BY <1>1, RunnerFacts, StatusFacts DEF Dir, IInv, Written
<1>3. dir \in Dirs /\ Gains(Dir(r), dir) /\ dir.repairPlan # NoFile /\ dir.report # NoFile
  <2>1. failure \in BOOLEAN
    OBVIOUS
  <2> HIDE DEF failure
  <2>2. /\ dir \in Dirs /\ dir.report = Status(r) /\ dir.log = Dir(r).log
        /\ dir.repairPlan = Dir(r).repairPlan
    BY <1>2, <2>1 DEF Dirs
  <2> QED
    BY <1>2, <2>2 DEF Gains, Passed
<1>4. /\ runDir' = [runDir EXCEPT ![RunId(r)] = dir]
      /\ runner' = [runner EXCEPT ![r].pc = "index"]
      /\ UNCHANGED <<second, content, draft, index>>
  BY <1>2 DEF WriteReports
<1> HIDE DEF dir
<1> QED
  BY <1>1, <1>3, <1>4, FileStep

\* A draft is only called validated by a run whose directory holds the log of
\* every command.
LEMMA DraftStep == ASSUME IInv, NEW r \in Runners, WriteDraft(r) PROVE IInv'
<1> DEFINE c == Head(runner[r].todo)
           new == [runner[r] EXCEPT !.pc = "report"]
           written == [content |-> runner[r].read[c], status |-> Status(r)]
<1>1. Typed /\ runner[r].pc = "draft" /\ runner[r] # Idle /\ "report" \in Places
  BY DEF IInv, WriteDraft, Idle, Places
<1>2. /\ runner[r] \in Running /\ RunId(r) \in DOMAIN runDir /\ Dir(r) = runDir[RunId(r)]
      /\ RunId(r) = <<runner[r].now, c>> /\ c \in Candidates
      /\ Status(r) \in Statuses
      /\ (Status(r) = "validated_draft" => runner[r].verify /\ ~runner[r].failed)
  BY <1>1, RunnerFacts, StatusFacts DEF Dir
<1>3. /\ draft' = [draft EXCEPT ![c] = written]
      /\ runner' = [runner EXCEPT ![r].pc = "report"]
      /\ UNCHANGED <<second, content, runDir, index, starts>>
  BY DEF WriteDraft
<1>4. written \in Drafts /\ written.status = Status(r)
  BY <1>2 DEF Running, Drafts
<1> HIDE DEF written
<1>5. draft' \in [Candidates -> Drafts]
  BY <1>1, <1>2, <1>3, <1>4 DEF Typed
<1>6. /\ new.now = runner[r].now /\ new.todo = runner[r].todo /\ new.pc = "report"
      /\ new.verify = runner[r].verify /\ new.failed = runner[r].failed
      /\ new.passed = runner[r].passed
  BY <1>2 DEF Running
<1>7. new \in Running
  BY <1>1, <1>2 DEF Running
<1>8. runner' = [runner EXCEPT ![r] = new]
  BY <1>1, <1>3 DEF Typed
<1> HIDE DEF new
<1>9. /\ runner'[r] = new /\ \A s \in Runners \ {r} : runner'[s] = runner[s]
      /\ runner' \in [Runners -> {Idle} \cup Running]
      /\ RunId(r)' = RunId(r) /\ runner'[r].todo # <<>>
  BY <1>1, <1>6, <1>7, <1>8, MoveFacts
<1>10. Dir(r)' = Dir(r)
  BY <1>3, <1>9 DEF Dir
<1>11. Verified(r)' /\ Written(r)'
  <2>1. Verified(r)'
    BY <1>1, <1>6, <1>9, <1>10 DEF IInv, Verified
  <2>2. Written(r)'
    BY <1>1, <1>6, <1>9, <1>10 DEF IInv, Written
  <2> QED
    BY <2>1, <2>2
<1>12. ValidatedWasVerified'
  <2> SUFFICES ASSUME NEW d \in Candidates, draft'[d].status = "validated_draft"
               PROVE  \E id \in DOMAIN runDir : id[2] = d
                        /\ \A k \in 1..Commands : Passed(runDir[id], k)
    BY <1>3 DEF ValidatedWasVerified, Passed
  <2>1. CASE d = c
    <3>1. Status(r) = "validated_draft"
      BY <1>1, <1>3, <1>4, <2>1 DEF Typed
    <3>2. runner[r].passed = Commands
      BY <1>1, <1>2, <3>1 DEF IInv, Verified
    <3>3. \A k \in 1..Commands : Passed(runDir[RunId(r)], k)
      BY <1>1, <1>2, <3>2 DEF IInv, Verified
    <3> QED
      BY <1>2, <2>1, <3>3
  <2>2. CASE d # c
    <3>1. draft'[d] = draft[d]
      BY <1>1, <1>3, <2>2 DEF Typed
    <3> QED
      BY <3>1 DEF IInv, ValidatedWasVerified, Passed
  <2> QED
    BY <2>1, <2>2
<1>13. Grows
  BY <1>3, SameGrows
<1> QED
  BY <1>1, <1>2, <1>3, <1>5, <1>9, <1>11, <1>12, <1>13, FrameStep DEF Typed

\* The line of the index comes last: the report it points at is written.
LEMMA IndexedStep ==
  ASSUME IInv, Grows, NEW r \in Runners, runner[r] # Idle, runner[r].pc = "index",
         index' = index \cup {[run |-> RunId(r), status |-> Status(r)]}
  PROVE  /\ index' \subseteq [run : DOMAIN runDir', status : Statuses]
         /\ IndexedRunsAreReported'
<1>1. /\ RunId(r) \in DOMAIN runDir /\ Status(r) \in Statuses
      /\ runDir[RunId(r)].repairPlan # NoFile /\ runDir[RunId(r)].report # NoFile
  BY RunnerFacts, StatusFacts DEF IInv, Written, Dir
<1>2. \A e \in index : e.run \in DOMAIN runDir
  BY DEF IInv, Typed
<1>3. index' \subseteq [run : DOMAIN runDir', status : Statuses]
  BY <1>1 DEF IInv, Typed, Grows
<1>4. \A e \in index' : /\ e.run \in DOMAIN runDir
                        /\ runDir[e.run].repairPlan # NoFile /\ runDir[e.run].report # NoFile
  BY <1>1, <1>2 DEF IInv, IndexedRunsAreReported
<1>5. IndexedRunsAreReported'
  BY <1>4 DEF IndexedRunsAreReported, Grows, Gains
<1> QED
  BY <1>3, <1>5

LEMMA IdleStep ==
  ASSUME IInv, NEW r \in Runners, runner' = [runner EXCEPT ![r] = Idle],
         UNCHANGED <<second, content, draft, runDir>>,
         index' \subseteq [run : DOMAIN runDir, status : Statuses], IndexedRunsAreReported'
  PROVE  IInv'
<1>1. /\ Grows /\ runner'[r] = Idle /\ \A s \in Runners \ {r} : runner'[s] = runner[s]
      /\ runner' \in [Runners -> {Idle} \cup Running]
  BY SameGrows, Zenon DEF IInv, Typed
<1>2. Verified(r)' /\ Written(r)'
  BY <1>1 DEF Verified, Written
<1> QED
  BY <1>1, <1>2, ValidatedKeeps, FrameIndexStep DEF IInv, Typed

LEMMA NextCandidateStep ==
  ASSUME IInv, NEW r \in Runners, AppendIndex(r), Tail(runner[r].todo) # <<>>
  PROVE  IInv'
<1> DEFINE rest == Tail(runner[r].todo)
           pc == IF runner[r].verify THEN "verify" ELSE "plan"
           before == draft[Head(rest)].content
           new == [runner[r] EXCEPT !.pc = pc, !.todo = rest, !.passed = 0, !.failed = FALSE,
                                    !.before = before]
<1>1. Typed /\ runner[r].pc = "index" /\ runner[r] # Idle
  BY DEF IInv, AppendIndex, Idle
<1>2. runner[r] \in Running /\ runner[r].todo # <<>> /\ runner[r].todo \in Seq(Candidates)
  BY <1>1 DEF Typed, Running
<1>3. rest \in Seq(Candidates) /\ rest # <<>> /\ Head(rest) \in Candidates
  <2>1. rest \in Seq(Candidates)
    BY <1>2, HeadTailProperties
  <2> QED
    BY <2>1, HeadTailProperties
<1>4. pc \in Places /\ (pc = "verify" <=> runner[r].verify) /\ before \in Nat
  BY <1>1, <1>2, <1>3 DEF Places, Typed, Drafts, Running
<1>5. /\ index' = index \cup {[run |-> RunId(r), status |-> Status(r)]}
      /\ runner' = [runner EXCEPT ![r] = new]
      /\ runDir' = Opened(runDir, <<runner[r].now, Head(rest)>>)
      /\ UNCHANGED <<second, content, draft, starts>>
  BY <1>1 DEF AppendIndex, Typed
<1> HIDE DEF rest, pc, before
<1>6. /\ new.now = runner[r].now /\ new.todo = rest /\ new.pc = pc /\ new.passed = 0
      /\ new.failed = FALSE /\ new.verify = runner[r].verify
  BY <1>2 DEF Running
<1>7. new \in Running
  <2>1. 0 \in 0..Commands
    OBVIOUS
  <2>2. [runner[r] EXCEPT !.pc = pc, !.todo = rest] \in Running
    BY <1>2, <1>3, <1>4 DEF Running
  <2>3. ASSUME NEW s \in Running PROVE [s EXCEPT !.passed = 0, !.failed = FALSE] \in Running
    BY <2>1 DEF Running
  <2>4. ASSUME NEW s \in Running PROVE [s EXCEPT !.before = before] \in Running
    BY <1>4 DEF Running
  <2>5. new = [[[runner[r] EXCEPT !.pc = pc, !.todo = rest]
                  EXCEPT !.passed = 0, !.failed = FALSE] EXCEPT !.before = before]
    BY <1>2 DEF Running
  <2> QED
    BY <2>2, <2>3, <2>4, <2>5
<1> HIDE DEF new
<1>8. /\ runner'[r] = new /\ \A s \in Runners \ {r} : runner'[s] = runner[s]
      /\ runner' \in [Runners -> {Idle} \cup Running]
  BY <1>1, <1>5, <1>7, Zenon DEF Typed
<1>9. /\ Grows /\ DOMAIN runDir' = DOMAIN runDir \cup {<<runner[r].now, Head(rest)>>}
      /\ runDir' \in [DOMAIN runDir' -> Dirs] /\ DOMAIN runDir' \subseteq RunIds
  <2>1. <<runner[r].now, Head(rest)>> \in RunIds
    BY <1>2, <1>3 DEF RunIds, Running
  <2> QED
    BY <1>1, <1>5, <2>1, OpenGrows
<1>10. runner'[r].todo # <<>> /\ RunId(r)' \in DOMAIN runDir'
  BY <1>3, <1>6, <1>8, <1>9 DEF RunId
<1>11. Verified(r)' /\ Written(r)'
  <2>1. /\ runner'[r].pc = pc /\ runner'[r].passed = 0 /\ runner'[r].failed = FALSE
        /\ runner'[r].verify = runner[r].verify
    BY <1>6, <1>8
  <2>2. Verified(r)'
    BY <1>4, <2>1 DEF Verified
  <2>3. pc \notin {"draft", "report", "index"}
    BY DEF pc
  <2> QED
    BY <2>1, <2>2, <2>3 DEF Written
<1> QED
  BY <1>1, <1>5, <1>8, <1>9, <1>10, <1>11, IndexedStep, ValidatedKeeps, FrameIndexStep DEF Typed

LEMMA IndexStep == ASSUME IInv, NEW r \in Runners, AppendIndex(r) PROVE IInv'
<1>1. CASE Tail(runner[r].todo) # <<>>
  BY <1>1, NextCandidateStep
<1>2. CASE Tail(runner[r].todo) = <<>>
  <2>1. /\ runner[r] # Idle /\ runner[r].pc = "index"
        /\ index' = index \cup {[run |-> RunId(r), status |-> Status(r)]}
        /\ runner' = [runner EXCEPT ![r] = Idle]
        /\ UNCHANGED <<second, content, draft, runDir>>
    BY <1>2 DEF AppendIndex, Idle
  <2> QED
    BY <2>1, SameGrows, IndexedStep, IdleStep
<1> QED
  BY <1>1, <1>2

LEMMA DieStep == ASSUME IInv, NEW r \in Runners, Die(r) PROVE IInv'
<1>1. /\ runner' = [runner EXCEPT ![r] = Idle]
      /\ UNCHANGED <<second, content, draft, runDir, index>>
  BY DEF Die
<1>2. index' \subseteq [run : DOMAIN runDir, status : Statuses] /\ IndexedRunsAreReported'
  BY <1>1, SameGrows, IndexedKeeps DEF IInv, Typed
<1> QED
  BY <1>1, <1>2, IdleStep

\* The clock and the candidates.
LEMMA AroundStep ==
  ASSUME IInv, UNCHANGED <<draft, runDir, index, runner>>,
         second' \in 0..MaxSecond, content' \in [Candidates -> Nat]
  PROVE  IInv'
<1>1. Grows
  BY SameGrows
<1>2. \A s \in Runners : Verified(s)' /\ Written(s)'
  BY <1>1, OthersKeep
<1>3. Typed'
  BY DEF IInv, Typed, RunId
<1> QED
  BY <1>1, <1>2, <1>3, ValidatedKeeps, IndexedKeeps DEF IInv

LEMMA StepIInv == IInv /\ [Next]_vars => IInv'
<1> SUFFICES ASSUME IInv, [Next]_vars PROVE IInv'
  OBVIOUS
<1>1. ASSUME NEW r \in Runners, NEW q \in Queues, NEW verify \in BOOLEAN,
             RunMisaSelfRepair(r, q, verify)
      PROVE  IInv'
  BY <1>1, StartStep
<1>2. ASSUME NEW r \in Runners, RunnerStep(r) PROVE IInv'
  BY <1>2, CommandStep, RepairPlanStep, DraftStep, ReportsStep, IndexStep DEF RunnerStep
<1>3. ASSUME NEW r \in Runners, Die(r) PROVE IInv'
  BY <1>3, DieStep
<1>4. CASE Tick
  BY <1>4, AroundStep DEF Tick, IInv, Typed
<1>5. ASSUME NEW c \in Candidates, Edit(c) PROVE IInv'
  BY <1>5, AroundStep DEF Edit, IInv, Typed
<1>6. CASE UNCHANGED vars
  BY <1>6, AroundStep DEF vars, IInv, Typed
<1> QED
  BY <1>1, <1>2, <1>3, <1>4, <1>5, <1>6 DEF Next

-----------------------------------------------------------------------------
(* The theorems.                                                           *)

\* The inductive invariant holds of every reachable state, whichever commands
\* run at once and wherever they die.
THEOREM Invariance == Spec => []IInv
<1> QED
  BY InitIInv, StepIInv, PTL DEF Spec

\* Directories, runners and the index keep their shape; a command in the loop has
\* seen no failure.
THEOREM TypeCorrect == Spec => []TypeOK
<1>1. IInv => TypeOK
  BY DEF IInv, Typed, TypeOK, Verified, Running
<1> QED
  BY <1>1, Invariance, PTL

\* A draft that calls itself validated has the log of a run that passed every
\* command.
THEOREM DraftVerified == Spec => []ValidatedWasVerified
<1>1. IInv => ValidatedWasVerified
  BY DEF IInv
<1> QED
  BY <1>1, Invariance, PTL

\* Every line of the index points at a final report and a repair plan.
THEOREM IndexReported == Spec => []IndexedRunsAreReported
<1>1. IInv => IndexedRunsAreReported
  BY DEF IInv
<1> QED
  BY <1>1, Invariance, PTL
===============================================================================
