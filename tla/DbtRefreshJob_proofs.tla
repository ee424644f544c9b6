----------------------- MODULE DbtRefreshJob_proofs -----------------------
(***************************************************************************)
(* Proofs about the dbt refresh job, for every set of models and tests and *)
(* everything that a dbt command can leave behind.                         *)
(***************************************************************************)
EXTENDS DbtRefreshJob, FiniteSetTheorems, TLAPS

\* The commands that are done come before those that are to be done.
InOrder == \A c \in succeeded, d \in todo : Rank(c) < Rank(d)

\* What has been done, as long as nothing has failed.
Progress ==
    /\ pc \in {"profile", "step", "push"} => exitCode = 0
    /\ pc = "profile" => succeeded = {} /\ pushed = {}
    /\ pc \in {"profile", "step", "push", "cleanup", "done"} /\ exitCode = 0 =>
            /\ todo \subseteq Plan(config.mode)
            /\ succeeded = Plan(config.mode) \ todo
            /\ InOrder
    /\ pc \in {"cleanup", "done"} /\ exitCode = 0 => todo = {}

\* The push comes after a run or test that went well, and finds what it wrote
\* at the default path.
AtPush ==
    pc = "push" =>
        /\ artifact \in {latest, Malformed}
        /\ latest.by \in Reported \cap succeeded
        /\ latest.results \in Results(latest.by)
        /\ Passed(latest.results)

\* With live metrics all commands that are to be pushed have been, but for
\* the one whose push is next, and the latest of them is shown.
Pushed ==
    exitCode = 0 /\ config.metrics = "live" =>
        /\ pc = "push" => pushed = (succeeded \ {latest.by}) \cap Reported
        /\ pc \in {"step", "cleanup", "done"} =>
              /\ pushed = succeeded \cap Reported
              /\ config.path = "artifact" /\ pushed # {}
                    => gauges \in {TimeSeries(latest), TimeSeries(Malformed)}

Owned == pc \in {"idle", "profile"} => ~owned

JobInv == TypeOK /\ Progress /\ AtPush /\ Pushed /\ Owned /\ ProfileDeleted

-----------------------------------------------------------------------------
LEMMA ResultsTyped ==
    ASSUME NEW c \in Commands, NEW r \in Results(c)
    PROVE  [by |-> c, results |-> r] \in Files
BY DEF Files

\* Whatever a push finds, it is a file.
LEMMA ReadableTyped ==
    ASSUME TypeOK, NEW file \in Readable
    PROVE  file \in Files
BY DEF TypeOK, Readable, AtPath

LEMMA RankFacts ==
    /\ Rank("deps") = 1 /\ Rank("compile") = 2
    /\ Rank("run") = 3 /\ Rank("test") = 4
BY DEF Rank

LEMMA PlanFacts ==
    ASSUME NEW m \in Modes
    PROVE  Plan(m) \subseteq Commands
BY DEF Plan, Commands

LEMMA InitialFacts == Unconfigured \in Configs
BY DEF Unconfigured, Configs, Modes

LEMMA StepKeepsType ==
    ASSUME TypeOK, AtPush, [Next]_vars
    PROVE  TypeOK'
<1> USE DEF TypeOK, disk, history
<1>1. ASSUME NEW c \in Configs, Start(c) PROVE TypeOK'
  <2>1. Plan(c.mode) \in SUBSET Commands
    BY PlanFacts DEF Configs
  <2>2. QED
    BY <1>1, <2>1 DEF Start, BeginExecution, KeepOrNewDisk
<1>2. ASSUME NEW f \in SUBSET ConfigFaults, RefuseConfig(f) PROVE TypeOK'
  BY <1>2 DEF RefuseConfig
<1>3. CASE WriteProfile \/ WriteProfileFails
  BY <1>3 DEF WriteProfile, WriteProfileFails
<1>4. ASSUME NEW c \in Commands, DbtSucceeds(c) PROVE TypeOK'
  <2>1. latest' \in Files /\ Malformed \in Files
    BY <1>4, ResultsTyped DEF DbtSucceeds, Files
  <2>2. QED
    BY <1>4, <2>1 DEF DbtSucceeds, Written, Continue
<1>5. ASSUME NEW c \in Commands, DbtFails(c) PROVE TypeOK'
  <2>1. latest' \in Files /\ Malformed \in Files
    BY <1>5, ResultsTyped DEF DbtFails, DbtFailsThen, Files
  <2>2. QED
    BY <1>5, <2>1 DEF DbtFails, DbtFailsThen, Written
<1>6. CASE SkipMetrics
  BY <1>6 DEF SkipMetrics, Continue
<1>7. CASE PushMetrics
  <2>1. gauges' \in Points
    BY <1>7, ReadableTyped DEF PushMetrics, Points
  <2>2. pushed' \in SUBSET Reported
    BY <1>7 DEF PushMetrics, AtPush
  <2>3. QED
    BY <1>7, <2>1, <2>2 DEF PushMetrics, Continue
<1>8. CASE PushFails
  <2>1. gauges' \in {gauges} \cup Points
    BY <1>8, ReadableTyped DEF PushFails, Points
  <2>2. QED
    BY <1>8, <2>1 DEF PushFails
<1>9. CASE DeleteProfile
  BY <1>9 DEF DeleteProfile
<1>10. CASE Exit \/ Killed
  BY <1>10, InitialFacts DEF Exit, Killed, Forget
<1>11. CASE UNCHANGED vars
  BY <1>11 DEF vars
<1>12. QED
  BY <1>1, <1>2, <1>3, <1>4, <1>5, <1>6, <1>7, <1>8, <1>9, <1>10, <1>11
     DEF Next

-----------------------------------------------------------------------------
LEMMA DbtSucceedsKeepsInv ==
    ASSUME JobInv, NEW c \in Commands, DbtSucceeds(c)
    PROVE  (Progress /\ AtPush /\ Pushed)'
<1>1. /\ pc = "step" /\ exitCode = 0 /\ c \in todo
      /\ \A d \in todo : Rank(c) <= Rank(d)
      /\ todo' = todo \ {c} /\ succeeded' = succeeded \cup {c}
      /\ UNCHANGED <<config, exitCode, gauges>>
      /\ todo \subseteq Commands
  BY DEF DbtSucceeds, IsFirst, JobInv, Progress, TypeOK
<1>2. /\ todo \subseteq Plan(config.mode) /\ InOrder
      /\ succeeded = Plan(config.mode) \ todo
  BY <1>1 DEF JobInv, Progress
<1>3. InOrder'
  <2>1. \A d \in todo \ {c} : Rank(c) < Rank(d)
    BY <1>1, RankFacts DEF Commands
  <2>2. QED
    BY <1>1, <1>2, <2>1 DEF InOrder, Rank
<1>4. CASE c \in Reported
  <2>1. pc' = "push" /\ pushed' = pushed
    BY <1>4 DEF DbtSucceeds
  <2>2. PICK r \in Results(c) : Passed(r) /\ latest' = [by |-> c, results |-> r]
    BY DEF DbtSucceeds
  <2>3. artifact' \in {latest', Malformed}
    BY <1>4 DEF DbtSucceeds, Written, Reported
  <2>4. AtPush'
    BY <1>1, <1>4, <2>2, <2>3 DEF AtPush, Passed
  <2>5. Pushed'
    BY <1>1, <1>2, <2>1, <2>2 DEF JobInv, Pushed
  <2>6. QED
    BY <1>1, <1>2, <1>3, <2>1, <2>4, <2>5 DEF Progress
<1>5. CASE c \notin Reported
  <2>1. /\ pc' \in {"step", "cleanup"} /\ (pc' = "cleanup" => todo' = {})
        /\ pushed' = pushed
    BY <1>1, <1>5 DEF DbtSucceeds, Continue
  <2>2. c \in {"deps", "compile"}
    BY <1>5 DEF Commands, Reported
  <2>3. succeeded' \cap Reported = {}
    <3>1. \A d \in succeeded : Rank(d) < Rank(c)
      BY <1>1, <1>2 DEF InOrder
    <3>2. "run" \notin succeeded /\ "test" \notin succeeded
      BY <2>2, <3>1, RankFacts
    <3>3. QED
      BY <1>1, <1>5, <3>2 DEF Reported
  <2>4. config.metrics = "live" => pushed = succeeded \cap Reported
    BY <1>1 DEF JobInv, Pushed
  <2>5. succeeded \cap Reported = {}
    BY <1>1, <2>3
  <2>6. QED
    BY <1>1, <1>2, <1>3, <2>1, <2>3, <2>4, <2>5 DEF Progress, AtPush, Pushed
<1>6. QED
  BY <1>4, <1>5

\* A push that brings new points brings those of the command before, or that
\* they could not be parsed, at the default path.
LEMMA PushIsCurrent ==
    ASSUME JobInv, PushMetrics \/ PushFails
    PROVE  /\ latest.by \in Reported \cap succeeded
           /\ config.path = "artifact" =>
                /\ gauges' \in {gauges, TimeSeries(latest), TimeSeries(Malformed)}
                /\ PushMetrics =>
                      gauges' \in {TimeSeries(latest), TimeSeries(Malformed)}
<1>1. pc = "push"
  BY DEF PushMetrics, PushFails
<1>2. latest.by \in Reported \cap succeeded
  BY <1>1 DEF JobInv, AtPush
<1>3. ASSUME config.path = "artifact" PROVE Readable \subseteq {latest, Malformed}
  BY <1>1, <1>3 DEF JobInv, AtPush, Readable, AtPath
<1>4. QED
  BY <1>2, <1>3 DEF PushMetrics, PushFails

LEMMA PushKeepsInv ==
    ASSUME JobInv, SkipMetrics \/ PushMetrics
    PROVE  (Progress /\ AtPush /\ Pushed)'
<1>1. /\ pc = "push" /\ exitCode = 0
      /\ UNCHANGED <<config, todo, exitCode, succeeded, latest>>
  BY DEF SkipMetrics, PushMetrics, JobInv, Progress, history
<1>2. pc' \in {"step", "cleanup"} /\ (pc' = "cleanup" => todo' = {})
  BY <1>1 DEF SkipMetrics, PushMetrics, Continue
<1>3. Progress'
  BY <1>1, <1>2 DEF JobInv, Progress, InOrder, Rank
<1>4. ASSUME config.metrics = "live"
      PROVE  /\ pushed' = succeeded \cap Reported
             /\ config.path = "artifact" =>
                    gauges' \in {TimeSeries(latest), TimeSeries(Malformed)}
  <2>1. PushMetrics /\ pushed' = pushed \cup {latest.by}
    BY <1>4 DEF SkipMetrics, PushMetrics
  <2>2. pushed = (succeeded \ {latest.by}) \cap Reported
    BY <1>1, <1>4 DEF JobInv, Pushed
  <2>3. QED
    BY <2>1, <2>2, PushIsCurrent
<1>5. Pushed'
  <2>1. TimeSeries(latest)' = TimeSeries(latest)
    BY <1>1
  <2>2. QED
    BY <1>1, <1>2, <1>4, <2>1 DEF Pushed
<1>6. QED
  BY <1>2, <1>3, <1>5 DEF AtPush

LEMMA StepKeepsInv ==
    ASSUME JobInv, TypeOK', [Next]_vars
    PROVE  JobInv'
<1> USE DEF JobInv, disk, history
<1>1. Progress' /\ AtPush' /\ Pushed'
  <2>1. ASSUME NEW c \in Configs, Start(c) PROVE Progress' /\ AtPush' /\ Pushed'
    BY <2>1 DEF Start, BeginExecution, Progress, AtPush, Pushed, InOrder
  <2>2. ASSUME NEW f \in SUBSET ConfigFaults, RefuseConfig(f)
        PROVE  Progress' /\ AtPush' /\ Pushed'
    BY <2>2 DEF RefuseConfig, Progress, AtPush, Pushed
  <2>3. CASE WriteProfile
    <3>1. /\ pc = "profile" /\ pc' = "step"
          /\ UNCHANGED <<config, todo, exitCode, gauges, succeeded, pushed,
                         latest>>
      BY <2>3 DEF WriteProfile
    <3>2. Progress'
      BY <3>1 DEF Progress, InOrder, Rank
    <3>3. succeeded' \cap Reported = {} /\ pushed' = {}
      BY <3>1 DEF Progress
    <3>4. QED
      BY <3>1, <3>2, <3>3 DEF AtPush, Pushed
  <2>4. CASE WriteProfileFails
    BY <2>4 DEF WriteProfileFails, Progress, AtPush, Pushed
  <2>5. ASSUME NEW c \in Commands, DbtFails(c) PROVE Progress' /\ AtPush' /\ Pushed'
    BY <2>5 DEF DbtFails, DbtFailsThen, Progress, AtPush, Pushed
  <2>6. CASE PushFails
    BY <2>6 DEF PushFails, Progress, AtPush, Pushed
  <2>7. CASE DeleteProfile
    BY <2>7 DEF DeleteProfile, Progress, AtPush, Pushed, InOrder, Rank
  <2>8. CASE Exit \/ Killed
    BY <2>8 DEF Exit, Killed, Forget, Progress, AtPush, Pushed
  <2>9. CASE UNCHANGED vars
    BY <2>9 DEF vars, Progress, AtPush, Pushed, InOrder, Rank, Passed
  <2>10. QED
    BY <2>1, <2>2, <2>3, <2>4, <2>5, <2>6, <2>7, <2>8, <2>9,
       DbtSucceedsKeepsInv, PushKeepsInv DEF Next
<1>2. Owned' /\ ProfileDeleted'
  BY DEF Next, Start, BeginExecution, RefuseConfig, WriteProfile,
         WriteProfileFails, DbtSucceeds, DbtFails, DbtFailsThen, Continue,
         SkipMetrics, PushMetrics, PushFails, DeleteProfile, Exit, Killed,
         Forget, vars, Owned, ProfileDeleted
<1>3. QED
  BY <1>1, <1>2

LEMMA JobInvHolds == Spec => []JobInv
<1>1. Init => JobInv
  BY InitialFacts DEF Init, JobInv, TypeOK, Progress, AtPush, Pushed, Owned,
                      ProfileDeleted
<1>2. JobInv /\ [Next]_vars => JobInv'
  BY StepKeepsType, StepKeepsInv DEF JobInv
<1>3. QED
  BY <1>1, <1>2, PTL DEF Spec

\* Every variable keeps its type, whatever is at the results path.
THEOREM TypeCorrect == Spec => []TypeOK
<1>1. JobInv => TypeOK
  BY DEF JobInv
<1>2. QED
  BY <1>1, JobInvHolds, PTL

\* No failure of a command or a push is lost on the way to the exit code; the
\* points shown are checked at the default path only.
THEOREM SuccessIsHonest == Spec => []SuccessIsComplete
<1>1. JobInv => SuccessIsComplete
  <2> SUFFICES ASSUME JobInv, pc = "done", exitCode = 0
               PROVE  /\ succeeded = Plan(config.mode)
                      /\ config.metrics = "live" =>
                           /\ pushed = succeeded \cap Reported
                           /\ config.path = "artifact" /\ pushed # {}
                                => gauges \in {TimeSeries(latest),
                                               TimeSeries(Malformed)}
    BY DEF SuccessIsComplete
  <2>1. succeeded = Plan(config.mode)
    BY DEF JobInv, Progress
  <2>2. QED
    BY <2>1 DEF JobInv, Pushed
<1>2. QED
  BY <1>1, JobInvHolds, PTL

\* An execution that ends in order leaves none of its credentials behind.
THEOREM CredentialsDeleted == Spec => []ProfileDeleted
<1>1. JobInv => ProfileDeleted
  BY DEF JobInv
<1>2. QED
  BY <1>1, JobInvHolds, PTL

\* Only the two pushes change what Cloud Monitoring shows.
LEMMA OnlyPushesChangeGauges ==
    ASSUME [Next]_vars, gauges' # gauges
    PROVE  PushMetrics \/ PushFails
BY DEF Next, Start, BeginExecution, RefuseConfig, WriteProfile,
       WriteProfileFails, DbtSucceeds, DbtFails, DbtFailsThen, SkipMetrics,
       DeleteProfile, Exit, Killed, Forget, vars, history

\* No push follows a failed command, and none at the default path finds what
\* another command or execution has left on the disk.
THEOREM MetricsStayCurrent == Spec => MetricsAreCurrent
<1>1. JobInv /\ [Next]_vars
        => [gauges' # gauges =>
              /\ latest.by \in Reported \cap succeeded
              /\ config.path = "artifact" =>
                    gauges' \in {TimeSeries(latest), TimeSeries(Malformed)}]_vars
  BY OnlyPushesChangeGauges, PushIsCurrent
<1>2. QED
  BY <1>1, JobInvHolds, PTL DEF Spec, MetricsAreCurrent

\* The results of a run that dbt calls a success are counted without a rest.
LEMMA PassedRunCounted ==
    ASSUME NEW f, f.by = "run", f.results \in Results("run"), Passed(f.results)
    PROVE  TimeSeries(f).runSuccess + TimeSeries(f).runFailure
             + TimeSeries(f).parseErrors = Cardinality(Models)
<1> DEFINE r == f.results
           good == {n \in DOMAIN r \cap Models : r[n] \in {"success"}}
           bad == {n \in DOMAIN r \cap Models : r[n] \in {"error"}}
           unread == {n \in DOMAIN r \cap (Models \cup Tests) : r[n] \in {"unreadable"}}
<1>1. r \in [Models -> ModelStatus]
  BY DEF Results
<1>2. good \cup unread = Models /\ good \cap unread = {} /\ bad = {}
  BY <1>1 DEF Passed, ModelStatus
<1>3. IsFiniteSet(good) /\ IsFiniteSet(unread)
  BY <1>2, NodesAssumption, FS_Subset
<1>4. Cardinality(Models) = Cardinality(good) + Cardinality(unread) - 0
  BY <1>2, <1>3, FS_Union, FS_EmptySet
<1>5. Cardinality(bad) = 0
  BY <1>2, FS_EmptySet
<1>6. Cardinality(good) \in Nat /\ Cardinality(unread) \in Nat
  BY <1>3, FS_CardinalityType
<1>7. OuterErrors(f) = 0
  BY DEF OuterErrors, Malformed
<1>8. /\ TimeSeries(f).runSuccess = Cardinality(good)
      /\ TimeSeries(f).runFailure = Cardinality(bad)
      /\ TimeSeries(f).parseErrors = Cardinality(unread) + OuterErrors(f)
  BY DEF TimeSeries, Count, ParseErrors
<1>9. QED
  <2> HIDE DEF good, bad, unread
  <2>1. QED
    BY <1>4, <1>5, <1>6, <1>7, <1>8

\* An artifact that cannot be parsed as a whole is pushed as one error.
LEMMA MalformedCounted ==
    /\ TimeSeries(Malformed).runSuccess + TimeSeries(Malformed).runFailure = 0
    /\ TimeSeries(Malformed).parseErrors = 1
<1>1. \A nodes, statuses : Count(Malformed.results, nodes, statuses) = 0
  BY FS_EmptySet DEF Malformed, Count
<1>2. OuterErrors(Malformed) = 1
  BY DEF OuterErrors
<1>3. QED
  BY <1>1, <1>2 DEF TimeSeries, ParseErrors

\* For any number of models: none is lost between the artifact and a push, but
\* for all of them together, which the parse-error count then shows.
THEOREM ModelsAreCounted == Spec => EveryModelCounted
<1> DEFINE Counted(g) == LET models == g.runSuccess + g.runFailure
                         IN  \/ models + g.parseErrors = Cardinality(Models)
                             \/ models = 0 /\ g.parseErrors = 1
<1>1. JobInv /\ [Next]_vars
        => [PushMetrics /\ latest.by = "run" /\ config.path = "artifact"
              => Counted(gauges')]_vars
  <2> SUFFICES ASSUME JobInv, PushMetrics, latest.by = "run",
                      config.path = "artifact"
               PROVE  Counted(gauges')
    OBVIOUS
  <2>1. gauges' \in {TimeSeries(latest), TimeSeries(Malformed)}
    BY PushIsCurrent
  <2>2. latest.results \in Results("run") /\ Passed(latest.results)
    BY DEF JobInv, AtPush, PushMetrics
  <2>3. Counted(TimeSeries(latest)) /\ Counted(TimeSeries(Malformed))
    BY <2>2, PassedRunCounted, MalformedCounted
  <2>4. QED
    BY <2>1, <2>3
<1>2. QED
  BY <1>1, JobInvHolds, PTL DEF Spec, EveryModelCounted

=============================================================================
