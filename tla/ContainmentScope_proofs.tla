---------------------- MODULE ContainmentScope_proofs ----------------------
(***************************************************************************)
(* Proofs about ContainmentScope, for any runs, agents and ages of files:  *)
(* a seeded run has a trace on disk, every answer of the guard is one that *)
(* a moment of its call justifies, and what it lets a call search is in    *)
(* the scope.                                                              *)
(***************************************************************************)
EXTENDS ContainmentScope, TLAPS, SequenceTheorems, NaturalsInduction,
        WellFoundedInduction

(* TypeOK without the set of old files.                                    *)
Shapes ==
    /\ pointer \in Runs \cup {NoRun} /\ seed \subseteq Runs
    /\ scope \in [Runs -> Agents \cup {NoAgent, Bogus}]
    /\ marks \subseteq Runs
    /\ days \in 0..MaxDays
    /\ prepared \subseteq Runs
    /\ setup \in [step : SetupSteps, run : Runs \cup {NoRun}, found : Runs \cup {NoRun}]
    /\ starter \in [Agents -> [step : StartSteps, run : Runs \cup {NoRun}]]
    /\ stopper \in [Agents -> [step : StopSteps, run : Runs \cup {NoRun}]]
    /\ call \in [step : GuardSteps, agent : Agents \cup {NoAgent}, run : Runs \cup {NoRun},
                failed : BOOLEAN, answer : Answers]
    /\ could \subseteq {"pass", "scoped", "wait"}
    /\ guarded \subseteq prepared

OldIsPresent == old \subseteq Present

(* Whose run a script that is under way is about.                          *)
PreFill == {"live_seed", "live_scope", "point", "fill"}

RunsAreNamed ==
    /\ setup.step # "idle" => setup.run \in prepared
    /\ setup.step = "drop_scope" => setup.run \notin guarded
    /\ \A a \in Agents :
          stopper[a].step \in {"owner", "copy", "unmarked", "release"}
          => stopper[a].run \in Runs

(* A run that is not filled yet has no files, and no hook works on it.     *)
Candidate(r) == r \notin prepared \/ (setup.run = r /\ setup.step \in PreFill)

Fresh(r) ==
    /\ r \notin seed
    /\ scope[r] = NoAgent
    /\ \A a \in Agents :
          /\ starter[a].run = r => starter[a].step \notin {"exists", "write", "unlink"}
          /\ stopper[a].run = r => stopper[a].step \notin {"copy", "unmarked", "release"}

FreshInv == \A r \in Runs : Candidate(r) => Fresh(r)

(* A start hook removes the seed of a run that is known without it; a stop *)
(* hook releases a run that is marked.                                     *)
KnownWithoutSeed(r) == r \in guarded => scope[r] # NoAgent \/ r \in marks

HooksKeepRunsKnown ==
    \A a \in Agents :
       /\ starter[a].step = "unlink" => KnownWithoutSeed(starter[a].run)
       /\ stopper[a].step = "release" =>
             (stopper[a].run \in guarded => stopper[a].run \in marks)

TraceInv == RunsAreNamed /\ FreshInv /\ HooksKeepRunsKnown /\ SeededRunIsKnown

(* What a call has seen so far.                                            *)
GuardInv ==
    /\ call.run # NoRun <=> call.step \in {"scope", "seed", "poll", "enforce"}
    /\ call.step # "idle" => call.agent \in Agents /\ call.answer = "none"
    /\ call.run # NoRun => Would(call.run, seed, scope, call.agent) \in could
    /\ call.step = "seed" => "wait" \in could \/ "pass" \in could
    /\ call.step = "seed" /\ call.run \in seed => "wait" \in could \/ "scoped" \in could
    /\ call.step = "poll" => "wait" \in could \/ "scoped" \in could
    /\ call.step = "enforce" => "scoped" \in could

LEMMA ShapesOfTypeOK == TypeOK <=> Shapes /\ OldIsPresent
  BY DEF TypeOK, Shapes, OldIsPresent

----------------------------------------------------------------------------
(* Facts about the operators.                                              *)

LEMMA WouldIs ==
  ASSUME NEW r \in Runs, NEW sd, NEW sc, NEW a
  PROVE  /\ sc[r] # NoAgent /\ sc[r] = a => Would(r, sd, sc, a) = "scoped"
         /\ sc[r] # NoAgent /\ sc[r] # a => Would(r, sd, sc, a) = "pass"
         /\ sc[r] = NoAgent /\ r \in sd => Would(r, sd, sc, a) = "wait"
         /\ sc[r] = NoAgent /\ r \notin sd => Would(r, sd, sc, a) = "pass"
<1>1. r # NoRun
  BY ContainmentAssumption
<1> QED
  BY <1>1 DEF Would

LEMMA WouldRange ==
  ASSUME NEW r \in Runs, NEW sd, NEW sc, NEW a
  PROVE  Would(r, sd, sc, a) \in {"pass", "scoped", "wait"}
  BY WouldIs

(* What each kind of step can do to the shapes.                            *)

CallShape == [step : GuardSteps, agent : Agents \cup {NoAgent}, run : Runs \cup {NoRun},
              failed : BOOLEAN, answer : Answers]

Scopes == [Runs -> Agents \cup {NoAgent, Bogus}]

LEMMA SweepEffect ==
  ASSUME Shapes, NEW gone, Sweep(gone)
  PROVE  /\ pointer' \in {pointer, NoRun}
         /\ seed' \subseteq seed
         /\ scope' \in Scopes
         /\ \A r \in Runs : scope'[r] \in {scope[r], NoAgent}
         /\ marks' \subseteq marks
         /\ guarded' \subseteq guarded
         /\ \A r \in Runs \cap guarded' :
               /\ r \in seed => r \in seed'
               /\ scope'[r] = scope[r]
               /\ r \in marks => r \in marks'
         /\ could' \subseteq {"pass", "scoped", "wait"}
<1>1. /\ pointer' \in {pointer, NoRun}
      /\ seed' = seed \ {r \in Runs : <<"seed", r>> \in gone}
      /\ scope' = [r \in Runs |-> IF r \in {q \in Runs : <<"scope", q>> \in gone}
                                  THEN NoAgent ELSE scope[r]]
      /\ marks' = marks \ {r \in Runs : <<"marks", r>> \in gone}
      /\ guarded' = guarded \ ({r \in Runs : <<"seed", r>> \in gone}
                               \cup {r \in Runs : <<"scope", r>> \in gone}
                               \cup {r \in Runs : <<"marks", r>> \in gone})
  BY DEF Sweep, Files
<1>2. could' \subseteq {"pass", "scoped", "wait"}
  <2>1. CASE call.run = NoRun
    BY <2>1 DEF Sweep, Files
  <2>2. CASE call.run # NoRun
    <3>1. call.run \in Runs
      BY <2>2 DEF Shapes
    <3>2. could' = could \cup {Would(call.run, seed', scope', call.agent)}
      BY <2>2 DEF Sweep, Files
    <3>3. Would(call.run, seed', scope', call.agent) \in {"pass", "scoped", "wait"}
      BY <3>1, WouldRange
    <3> QED
      BY <3>2, <3>3 DEF Shapes
  <2> QED
    BY <2>1, <2>2
<1>3. scope' \in Scopes
  BY <1>1 DEF Shapes, Scopes
<1> QED
  BY <1>1, <1>2, <1>3

LEMMA FilesEffect ==
  ASSUME Shapes, NEW p, NEW sd, NEW sc, Files(p, sd, sc)
  PROVE  /\ pointer' = p /\ seed' = sd /\ scope' = sc
         /\ could' \subseteq {"pass", "scoped", "wait"}
<1>1. CASE call.run = NoRun
  BY <1>1 DEF Files
<1>2. CASE call.run # NoRun
  <2>1. call.run \in Runs
    BY <1>2 DEF Shapes
  <2>2. Would(call.run, sd, sc, call.agent) \in {"pass", "scoped", "wait"}
    BY <2>1, WouldRange
  <2> QED
    BY <1>2, <2>2 DEF Files, Shapes
<1> QED
  BY <1>1, <1>2

LEMMA GuardEffect ==
  ASSUME Shapes, NEW step \in GuardSteps, Guard(step)
  PROVE  /\ call' \in CallShape
         /\ could' = could
  BY DEF Guard, Shapes, CallShape

LEMMA AnswerEffect ==
  ASSUME NEW answer \in Answers, Answer(answer)
  PROVE  /\ call' \in CallShape
         /\ call'.step = "idle" /\ call'.run = NoRun /\ call'.answer = answer
         /\ could' = {}
  BY DEF Answer, Answered, CallShape, GuardSteps

LEMMA UnderScopeEffect ==
  ASSUME Shapes, NEW owner, UnderScope(owner)
  PROVE  /\ call' \in CallShape
         /\ could' \subseteq {"pass", "scoped", "wait"}
<1>1. CASE owner # call.agent
  <2>1. Answer("pass")
    BY <1>1 DEF UnderScope
  <2> QED
    BY <2>1, AnswerEffect DEF Answers
<1>2. CASE owner = call.agent /\ call.failed
  <2>1. Answer("deny")
    BY <1>2 DEF UnderScope
  <2> QED
    BY <2>1, AnswerEffect DEF Answers
<1>3. CASE owner = call.agent /\ ~call.failed
  <2>1. Guard("enforce")
    BY <1>3 DEF UnderScope
  <2> QED
    BY <2>1, GuardEffect DEF GuardSteps, Shapes
<1> QED
  BY <1>1, <1>2, <1>3

LEMMA ScopeEffect ==
  ASSUME Shapes, NEW r, NEW owner \in Agents \cup {NoAgent, Bogus}
  PROVE  [scope EXCEPT ![r] = owner] \in Scopes
  BY DEF Shapes, Scopes

(* Every variable keeps its shape.                                         *)
LEMMA ShapesKept ==
  ASSUME Shapes, RunsAreNamed, [Next]_vars
  PROVE  Shapes'
<1>1. CASE \E r \in Runs : Prepare(r)
  <2>1. PICK r \in Runs : Prepare(r)
    BY <1>1
  <2> QED
    BY <2>1, SweepEffect
       DEF Prepare, othersOfSetup, hooks, Shapes, Scopes, SetupSteps
<1>2. CASE FindsNoSeed
  BY <1>2
     DEF FindsNoSeed, Setup, NoSetup, othersOfSetup, files, hooks, Shapes,
         SetupSteps, RunsAreNamed
<1>3. CASE FindsNoScope
  BY <1>3
     DEF FindsNoScope, Setup, NoSetup, othersOfSetup, files, hooks, Shapes,
         SetupSteps, RunsAreNamed
<1>4. CASE Publish
  BY <1>4, FilesEffect
     DEF Publish, Setup, NoSetup, othersOfSetup, hooks, Shapes, SetupSteps,
         RunsAreNamed
<1>5. CASE WriteSeed
  BY <1>5, FilesEffect
     DEF WriteSeed, Setup, NoSetup, othersOfSetup, hooks, Shapes, SetupSteps,
         RunsAreNamed
<1>6. CASE WriteScope
  <2>1. Files(pointer, seed, [scope EXCEPT ![setup.run] = Bogus])
    BY <1>6 DEF WriteScope
  <2>2. pointer' = pointer /\ seed' = seed /\ scope' = [scope EXCEPT ![setup.run] = Bogus]
    BY <2>1, FilesEffect
  <2>3. scope' \in Scopes
    BY <2>2, ScopeEffect
  <2>4. could' \subseteq {"pass", "scoped", "wait"}
    BY <2>1, FilesEffect
  <2> QED
    BY <1>6, <2>2, <2>3, <2>4
       DEF WriteScope, Setup, NoSetup, othersOfSetup, hooks, Shapes, Scopes,
           SetupSteps, RunsAreNamed
<1>7. CASE ClearStalePointer
  BY <1>7, FilesEffect
     DEF ClearStalePointer, Setup, NoSetup, othersOfSetup, files, hooks,
         Shapes, SetupSteps, RunsAreNamed
<1>8. CASE DropSeed
  BY <1>8, FilesEffect
     DEF DropSeed, Setup, NoSetup, othersOfSetup, hooks, Shapes, SetupSteps,
         RunsAreNamed
<1>9. CASE DropScope
  <2>1. Files(pointer, seed, [scope EXCEPT ![setup.run] = NoAgent])
    BY <1>9 DEF DropScope
  <2>2. pointer' = pointer /\ seed' = seed /\ scope' = [scope EXCEPT ![setup.run] = NoAgent]
    BY <2>1, FilesEffect
  <2>3. scope' \in Scopes
    BY <2>2, ScopeEffect
  <2>4. could' \subseteq {"pass", "scoped", "wait"}
    BY <2>1, FilesEffect
  <2> QED
    BY <1>9, <2>2, <2>3, <2>4
       DEF DropScope, Setup, NoSetup, othersOfSetup, hooks, Shapes, Scopes,
           SetupSteps, RunsAreNamed
<1>10. CASE DropPointer
  BY <1>10, FilesEffect
     DEF DropPointer, Setup, NoSetup, othersOfSetup, hooks, Shapes,
         SetupSteps, RunsAreNamed
<1>11. CASE SetupEnds
  BY <1>11
     DEF SetupEnds, Setup, NoSetup, othersOfSetup, files, hooks, Shapes,
         SetupSteps, RunsAreNamed
<1>12. CASE DayPasses
  BY <1>12, ContainmentAssumption DEF DayPasses, files, hooks, Shapes
<1>13. CASE OtherSessionSweeps
  BY <1>13, SweepEffect DEF OtherSessionSweeps, hooks, Shapes, Scopes
<1>14. CASE \E a \in Agents : Call(a)
  <2>1. PICK a \in Agents : Call(a)
    BY <1>14
  <2> QED
    BY <2>1, ContainmentAssumption
       DEF Call, outsideGuard, Answered, Begin, files, hooks, Shapes,
           GuardSteps, Answers
<1>15. CASE GuardReadsPointer
  <2>1. UNCHANGED outsideGuard
    BY <1>15 DEF GuardReadsPointer
  <2>2. call' \in CallShape /\ could' \subseteq {"pass", "scoped", "wait"}
    <3>1. CASE pointer = NoRun
      BY <1>15, <3>1, AnswerEffect DEF GuardReadsPointer, Answers
    <3>2. CASE pointer # NoRun
      <4>1. pointer \in Runs
        BY <3>2 DEF Shapes
      <4>2. Would(pointer, seed, scope, call.agent) \in {"pass", "scoped", "wait"}
        BY <4>1, WouldRange
      <4>3. call' = [call EXCEPT !.step = "scope", !.run = pointer]
        BY <1>15, <3>2 DEF GuardReadsPointer
      <4>4. could' = {Would(pointer, seed, scope, call.agent)}
        BY <1>15, <3>2 DEF GuardReadsPointer
      <4>5. call' \in CallShape
        BY <4>1, <4>3 DEF Shapes, CallShape, GuardSteps
      <4> QED
        BY <4>2, <4>4, <4>5
    <3> QED
      BY <3>1, <3>2
  <2> QED
    BY <2>1, <2>2 DEF outsideGuard, files, hooks, Shapes, CallShape
<1>16. CASE GuardReadsScope
  <2>1. UNCHANGED outsideGuard
    BY <1>16 DEF GuardReadsScope
  <2>2. Guard("seed") \/ UnderScope(scope[call.run])
    BY <1>16 DEF GuardReadsScope
  <2>3. call' \in CallShape /\ could' \subseteq {"pass", "scoped", "wait"}
    BY <2>2, GuardEffect, UnderScopeEffect DEF GuardSteps, Shapes
  <2> QED
    BY <2>1, <2>3 DEF outsideGuard, files, hooks, Shapes, CallShape
<1>17. CASE GuardReadsSeed
  <2>1. UNCHANGED outsideGuard
    BY <1>17 DEF GuardReadsSeed
  <2>2. Answer("pass") \/ Answer("deny") \/ Guard("poll")
    BY <1>17 DEF GuardReadsSeed
  <2>3. call' \in CallShape /\ could' \subseteq {"pass", "scoped", "wait"}
    BY <2>2, GuardEffect, AnswerEffect DEF GuardSteps, Answers, Shapes
  <2> QED
    BY <2>1, <2>3 DEF outsideGuard, files, hooks, Shapes, CallShape
<1>18. CASE GuardFindsScope
  <2>1. UNCHANGED outsideGuard
    BY <1>18 DEF GuardFindsScope
  <2>2. call' \in CallShape /\ could' \subseteq {"pass", "scoped", "wait"}
    BY <1>18, UnderScopeEffect DEF GuardFindsScope
  <2> QED
    BY <2>1, <2>2 DEF outsideGuard, files, hooks, Shapes, CallShape
<1>19. CASE GuardTimesOut
  BY <1>19, ContainmentAssumption
     DEF GuardTimesOut, outsideGuard, Answer, Answered, files, hooks, Shapes,
         GuardSteps, Answers
<1>20. CASE GuardEnforces
  BY <1>20, ContainmentAssumption
     DEF GuardEnforces, outsideGuard, Answer, Answered, files, hooks, Shapes,
         GuardSteps, Answers, Verdicts
<1>21. CASE GuardFails
  BY <1>21, ContainmentAssumption
     DEF GuardFails, outsideGuard, Answered, Begin, files, hooks, Shapes,
         GuardSteps, Answers
<1>22. CASE \E a \in Agents : StartFindsRun(a)
  <2>1. PICK a \in Agents : StartFindsRun(a)
    BY <1>22
  <2> QED
    BY <2>1, SweepEffect
       DEF StartFindsRun, aroundStart, Shapes, StartSteps, Scopes
<1>23. CASE \E a \in Agents : StartReadsSeed(a)
  <2>1. PICK a \in Agents : StartReadsSeed(a)
    BY <1>23
  <2> QED
    BY <2>1
       DEF StartReadsSeed, Starter, After, aroundStart, files, Shapes,
           StartSteps
<1>24. CASE \E a \in Agents : StartFindsNoScope(a)
  <2>1. PICK a \in Agents : StartFindsNoScope(a)
    BY <1>24
  <2> QED
    BY <2>1
       DEF StartFindsNoScope, Starter, After, aroundStart, files, Shapes,
           StartSteps
<1>25. CASE \E a \in Agents : StartWritesScope(a)
  <2>1. PICK a \in Agents : StartWritesScope(a)
    BY <1>25
  <2> QED
    <3>1. Files(pointer, seed, [scope EXCEPT ![starter[a].run] = a])
      BY <2>1 DEF StartWritesScope
    <3>2. pointer' = pointer /\ seed' = seed /\ scope' = [scope EXCEPT ![starter[a].run] = a]
      BY <3>1, FilesEffect
    <3>3. scope' \in Scopes
      BY <3>2, ScopeEffect
    <3>4. could' \subseteq {"pass", "scoped", "wait"}
      BY <3>1, FilesEffect
    <3> QED
      BY <2>1, <3>2, <3>3, <3>4
         DEF StartWritesScope, Starter, After, aroundStart, Shapes, Scopes,
             StartSteps
<1>26. CASE \E a \in Agents : StartUnlinksSeed(a)
  <2>1. PICK a \in Agents : StartUnlinksSeed(a)
    BY <1>26
  <2> QED
    BY <2>1, FilesEffect
       DEF StartUnlinksSeed, Starter, After, aroundStart, Shapes, StartSteps
<1>27. CASE \E a \in Agents : StartDies(a)
  <2>1. PICK a \in Agents : StartDies(a)
    BY <1>27
  <2> QED
    BY <2>1
       DEF StartDies, Starter, After, aroundStart, files, Shapes, StartSteps
<1>28. CASE \E a \in Agents : StopFindsRun(a)
  <2>1. PICK a \in Agents : StopFindsRun(a)
    BY <1>28
  <2> QED
    BY <2>1 DEF StopFindsRun, aroundStop, files, Shapes, StopSteps, RunsAreNamed
<1>29. CASE \E a \in Agents : StopReadsScope(a)
  <2>1. PICK a \in Agents : StopReadsScope(a)
    BY <1>29
  <2> QED
    BY <2>1
       DEF StopReadsScope, Stopper, After, aroundStop, files, Shapes,
           StopSteps, RunsAreNamed
<1>30. CASE \E a \in Agents : StopKeepsTranscript(a)
  <2>1. PICK a \in Agents : StopKeepsTranscript(a)
    BY <1>30
  <2> QED
    BY <2>1
       DEF StopKeepsTranscript, Stopper, After, aroundStop, files, Shapes,
           StopSteps, RunsAreNamed
<1>31. CASE \E a \in Agents : StopReleases(a)
  <2>1. PICK a \in Agents : StopReleases(a)
    BY <1>31
  <2> QED
    <3>1. Files(pointer, seed, [scope EXCEPT ![stopper[a].run] = NoAgent])
      BY <2>1 DEF StopReleases
    <3>2. pointer' = pointer /\ seed' = seed /\ scope' = [scope EXCEPT ![stopper[a].run] = NoAgent]
      BY <3>1, FilesEffect
    <3>3. scope' \in Scopes
      BY <3>2, ScopeEffect
    <3>4. could' \subseteq {"pass", "scoped", "wait"}
      BY <3>1, FilesEffect
    <3> QED
      BY <2>1, <3>2, <3>3, <3>4
         DEF StopReleases, Stopper, After, aroundStop, Shapes, Scopes,
             StopSteps, RunsAreNamed
<1>32. CASE \E a \in Agents : StopDies(a)
  <2>1. PICK a \in Agents : StopDies(a)
    BY <1>32
  <2> QED
    BY <2>1
       DEF StopDies, Stopper, After, aroundStop, files, Shapes, StopSteps,
           RunsAreNamed
<1>33. CASE UNCHANGED vars
  BY <1>33 DEF vars, files, Shapes
<1> QED
  BY <1>1, <1>2, <1>3, <1>4, <1>5, <1>6, <1>7, <1>8, <1>9, <1>10, <1>11,
     <1>12, <1>13, <1>14, <1>15, <1>16, <1>17, <1>18, <1>19, <1>20, <1>21,
     <1>22, <1>23, <1>24, <1>25, <1>26, <1>27, <1>28, <1>29, <1>30, <1>31,
     <1>32, <1>33
     DEF Next, Setting, Starting, Stopping, Guarding

(* An old file is there as long as what takes it away forgets its age.     *)
LEMMA PresentIs ==
  ASSUME Shapes, NEW x
  PROVE  x \in Present <=> \E r \in Runs : \/ x = <<"pointer", r>> /\ pointer = r
                                           \/ x = <<"seed", r>> /\ r \in seed
                                           \/ x = <<"scope", r>> /\ scope[r] # NoAgent
                                           \/ x = <<"marks", r>> /\ r \in marks
  BY DEF Present, Shapes

LEMMA OldEffect ==
  ASSUME Shapes, Shapes', OldIsPresent, old' \subseteq old,
         \A r \in Runs : /\ <<"pointer", r>> \in old' /\ pointer = r => pointer' = r
                         /\ <<"seed", r>> \in old' /\ r \in seed => r \in seed'
                         /\ <<"scope", r>> \in old' /\ scope[r] # NoAgent => scope'[r] # NoAgent
                         /\ <<"marks", r>> \in old' /\ r \in marks => r \in marks'
  PROVE  OldIsPresent'
<1> SUFFICES ASSUME NEW x \in old'
             PROVE  x \in Present'
  BY DEF OldIsPresent
<1>1. x \in Present
  BY DEF OldIsPresent
<1>2. PICK r \in Runs : \/ x = <<"pointer", r>> /\ pointer = r
                        \/ x = <<"seed", r>> /\ r \in seed
                        \/ x = <<"scope", r>> /\ scope[r] # NoAgent
                        \/ x = <<"marks", r>> /\ r \in marks
  BY <1>1, PresentIs
<1>3. \/ x = <<"pointer", r>> /\ pointer' = r
      \/ x = <<"seed", r>> /\ r \in seed'
      \/ x = <<"scope", r>> /\ scope'[r] # NoAgent
      \/ x = <<"marks", r>> /\ r \in marks'
  BY <1>2
<1>4. CASE x = <<"pointer", r>> /\ pointer' = r
  BY <1>4 DEF Present
<1>5. CASE x = <<"seed", r>> /\ r \in seed'
  BY <1>5 DEF Present
<1>6. CASE x = <<"scope", r>> /\ scope'[r] # NoAgent
  BY <1>6 DEF Present
<1>7. CASE x = <<"marks", r>> /\ r \in marks'
  BY <1>7 DEF Present
<1> QED
  BY <1>3, <1>4, <1>5, <1>6, <1>7

LEMMA OldKept ==
  ASSUME Shapes, Shapes', OldIsPresent, [Next]_vars
  PROVE  OldIsPresent'
<1>1. CASE \E r \in Runs : Prepare(r)
  <2>1. PICK r \in Runs : Prepare(r)
    BY <1>1
  <2> QED
    BY <2>1 DEF Prepare, Sweep, OldIsPresent
<1>2. CASE FindsNoSeed
  BY <1>2 DEF FindsNoSeed, files, OldIsPresent, Present
<1>3. CASE FindsNoScope
  BY <1>3 DEF FindsNoScope, files, OldIsPresent, Present
<1>4. CASE Publish
  BY <1>4, OldEffect, ContainmentAssumption
     DEF Publish, Setup, NoSetup, othersOfSetup, Files, Shapes
<1>5. CASE WriteSeed
  BY <1>5, OldEffect, ContainmentAssumption
     DEF WriteSeed, Setup, NoSetup, othersOfSetup, Files, Shapes
<1>6. CASE WriteScope
  BY <1>6, OldEffect, ContainmentAssumption
     DEF WriteScope, Setup, NoSetup, othersOfSetup, Files, Shapes
<1>7. CASE ClearStalePointer
  BY <1>7, OldEffect, ContainmentAssumption
     DEF ClearStalePointer, Setup, NoSetup, othersOfSetup, Files, files,
         Touch, Shapes, Live
<1>8. CASE DropSeed
  BY <1>8, OldEffect, ContainmentAssumption
     DEF DropSeed, Setup, NoSetup, othersOfSetup, Files, Touch, Shapes
<1>9. CASE DropScope
  <2>1. /\ pointer' = pointer /\ seed' = seed /\ marks' = marks
       /\ scope' = [scope EXCEPT ![setup.run] = NoAgent]
       /\ old' = old \ {<<"scope", setup.run>>}
    BY <1>9 DEF DropScope, Files, Touch, Setup
  <2>2. \A r \in Runs : r # setup.run => scope'[r] = scope[r]
    BY <2>1 DEF Shapes
  <2>3. \A r \in Runs : <<"scope", r>> \in old' => r # setup.run
    BY <2>1
  <2> QED
    BY <2>1, <2>2, <2>3, OldEffect
<1>10. CASE DropPointer
  BY <1>10, OldEffect, ContainmentAssumption
     DEF DropPointer, Setup, NoSetup, othersOfSetup, Files, Touch, Shapes
<1>11. CASE SetupEnds
  BY <1>11 DEF SetupEnds, files, OldIsPresent, Present
<1>12. CASE DayPasses
  BY <1>12 DEF DayPasses, files, OldIsPresent, Present
<1>13. CASE OtherSessionSweeps
  BY <1>13 DEF OtherSessionSweeps, Sweep, OldIsPresent
<1>14. CASE \E a \in Agents : Call(a)
  <2>1. PICK a \in Agents : Call(a)
    BY <1>14
  <2> QED
    BY <2>1 DEF Call, Begin, outsideGuard, files, OldIsPresent, Present
<1>15. CASE GuardReadsPointer
  BY <1>15 DEF GuardReadsPointer, outsideGuard, files, OldIsPresent, Present
<1>16. CASE GuardReadsScope
  BY <1>16 DEF GuardReadsScope, outsideGuard, files, OldIsPresent, Present
<1>17. CASE GuardReadsSeed
  BY <1>17 DEF GuardReadsSeed, outsideGuard, files, OldIsPresent, Present
<1>18. CASE GuardFindsScope
  BY <1>18 DEF GuardFindsScope, outsideGuard, files, OldIsPresent, Present
<1>19. CASE GuardTimesOut
  BY <1>19 DEF GuardTimesOut, outsideGuard, files, OldIsPresent, Present
<1>20. CASE GuardEnforces
  BY <1>20 DEF GuardEnforces, outsideGuard, files, OldIsPresent, Present
<1>21. CASE GuardFails
  BY <1>21 DEF GuardFails, Begin, outsideGuard, files, OldIsPresent, Present
<1>22. CASE \E a \in Agents : StartFindsRun(a)
  <2>1. PICK a \in Agents : StartFindsRun(a)
    BY <1>22
  <2> QED
    BY <2>1 DEF StartFindsRun, Sweep, OldIsPresent
<1>23. CASE \E a \in Agents : StartReadsSeed(a)
  <2>1. PICK a \in Agents : StartReadsSeed(a)
    BY <1>23
  <2> QED
    BY <2>1 DEF StartReadsSeed, files, OldIsPresent, Present
<1>24. CASE \E a \in Agents : StartFindsNoScope(a)
  <2>1. PICK a \in Agents : StartFindsNoScope(a)
    BY <1>24
  <2> QED
    BY <2>1 DEF StartFindsNoScope, files, OldIsPresent, Present
<1>25. CASE \E a \in Agents : StartWritesScope(a)
  <2>1. PICK a \in Agents : StartWritesScope(a)
    BY <1>25
  <2> QED
    <3>1. /\ pointer' = pointer /\ seed' = seed /\ marks' = marks
         /\ scope' = [scope EXCEPT ![starter[a].run] = a]
         /\ old' = old \ {<<"scope", starter[a].run>>}
      BY <2>1 DEF StartWritesScope, Files, Touch, aroundStart
    <3>2. \A r \in Runs : r # starter[a].run => scope'[r] = scope[r]
      BY <3>1 DEF Shapes
    <3>3. \A r \in Runs : <<"scope", r>> \in old' => r # starter[a].run
      BY <3>1
    <3> QED
      BY <3>1, <3>2, <3>3, OldEffect
<1>26. CASE \E a \in Agents : StartUnlinksSeed(a)
  <2>1. PICK a \in Agents : StartUnlinksSeed(a)
    BY <1>26
  <2> QED
    BY <2>1, OldEffect, ContainmentAssumption
       DEF StartUnlinksSeed, Starter, After, aroundStart, Files, Touch, Shapes
<1>27. CASE \E a \in Agents : StartDies(a)
  <2>1. PICK a \in Agents : StartDies(a)
    BY <1>27
  <2> QED
    BY <2>1 DEF StartDies, files, OldIsPresent, Present
<1>28. CASE \E a \in Agents : StopFindsRun(a)
  <2>1. PICK a \in Agents : StopFindsRun(a)
    BY <1>28
  <2> QED
    BY <2>1 DEF StopFindsRun, files, OldIsPresent, Present
<1>29. CASE \E a \in Agents : StopReadsScope(a)
  <2>1. PICK a \in Agents : StopReadsScope(a)
    BY <1>29
  <2> QED
    BY <2>1 DEF StopReadsScope, files, OldIsPresent, Present
<1>30. CASE \E a \in Agents : StopKeepsTranscript(a)
  <2>1. PICK a \in Agents : StopKeepsTranscript(a)
    BY <1>30
  <2> QED
    BY <2>1, OldEffect, ContainmentAssumption
       DEF StopKeepsTranscript, Touch, files, Shapes
<1>31. CASE \E a \in Agents : StopReleases(a)
  <2>1. PICK a \in Agents : StopReleases(a)
    BY <1>31
  <2> QED
    <3>1. /\ pointer' = pointer /\ seed' = seed /\ marks' = marks
         /\ scope' = [scope EXCEPT ![stopper[a].run] = NoAgent]
         /\ old' = old \ {<<"scope", stopper[a].run>>}
      BY <2>1 DEF StopReleases, Files, Touch, aroundStop
    <3>2. \A r \in Runs : r # stopper[a].run => scope'[r] = scope[r]
      BY <3>1 DEF Shapes
    <3>3. \A r \in Runs : <<"scope", r>> \in old' => r # stopper[a].run
      BY <3>1
    <3> QED
      BY <3>1, <3>2, <3>3, OldEffect
<1>32. CASE \E a \in Agents : StopDies(a)
  <2>1. PICK a \in Agents : StopDies(a)
    BY <1>32
  <2> QED
    BY <2>1 DEF StopDies, files, OldIsPresent, Present
<1>33. CASE UNCHANGED vars
  BY <1>33 DEF vars, files, OldIsPresent, Present
<1> QED
  BY <1>1, <1>2, <1>3, <1>4, <1>5, <1>6, <1>7, <1>8, <1>9, <1>10, <1>11,
     <1>12, <1>13, <1>14, <1>15, <1>16, <1>17, <1>18, <1>19, <1>20, <1>21,
     <1>22, <1>23, <1>24, <1>25, <1>26, <1>27, <1>28, <1>29, <1>30, <1>31,
     <1>32, <1>33
     DEF Next, Setting, Starting, Stopping, Guarding

(* The run of a script that is under way is known.                         *)
LEMMA RunsAreNamedKept ==
  ASSUME Shapes, RunsAreNamed, [Next]_vars
  PROVE  RunsAreNamed'
<1>1. CASE \E r \in Runs : Prepare(r)
  <2>1. PICK r \in Runs : Prepare(r)
    BY <1>1
  <2> QED
    BY <2>1, SweepEffect DEF Prepare, othersOfSetup, hooks, RunsAreNamed, Shapes
<1>2. CASE FindsNoSeed
  BY <1>2
     DEF FindsNoSeed, Setup, NoSetup, othersOfSetup, files, hooks,
         RunsAreNamed, Shapes
<1>3. CASE FindsNoScope
  BY <1>3
     DEF FindsNoScope, Setup, NoSetup, othersOfSetup, files, hooks,
         RunsAreNamed, Shapes
<1>4. CASE Publish
  BY <1>4
     DEF Publish, Setup, NoSetup, othersOfSetup, hooks, RunsAreNamed, Shapes
<1>5. CASE WriteSeed
  BY <1>5
     DEF WriteSeed, Setup, NoSetup, othersOfSetup, hooks, RunsAreNamed, Shapes
<1>6. CASE WriteScope
  BY <1>6
     DEF WriteScope, Setup, NoSetup, othersOfSetup, hooks, RunsAreNamed, Shapes
<1>7. CASE ClearStalePointer
  BY <1>7
     DEF ClearStalePointer, Setup, NoSetup, othersOfSetup, files, hooks,
         RunsAreNamed, Shapes
<1>8. CASE DropSeed
  BY <1>8
     DEF DropSeed, Setup, NoSetup, othersOfSetup, hooks, RunsAreNamed, Shapes
<1>9. CASE DropScope
  BY <1>9
     DEF DropScope, Setup, NoSetup, othersOfSetup, hooks, RunsAreNamed, Shapes
<1>10. CASE DropPointer
  BY <1>10
     DEF DropPointer, Setup, NoSetup, othersOfSetup, hooks, RunsAreNamed, Shapes
<1>11. CASE SetupEnds
  BY <1>11
     DEF SetupEnds, Setup, NoSetup, othersOfSetup, files, hooks, RunsAreNamed,
         Shapes
<1>12. CASE DayPasses
  BY <1>12 DEF DayPasses, files, hooks, RunsAreNamed
<1>13. CASE OtherSessionSweeps
  BY <1>13, SweepEffect DEF OtherSessionSweeps, hooks, RunsAreNamed, Shapes
<1>14. CASE \E a \in Agents : Call(a)
  <2>1. PICK a \in Agents : Call(a)
    BY <1>14
  <2> QED
    BY <2>1 DEF Call, Begin, outsideGuard, hooks, RunsAreNamed
<1>15. CASE GuardReadsPointer
  BY <1>15 DEF GuardReadsPointer, outsideGuard, hooks, RunsAreNamed
<1>16. CASE GuardReadsScope
  BY <1>16 DEF GuardReadsScope, outsideGuard, hooks, RunsAreNamed
<1>17. CASE GuardReadsSeed
  BY <1>17 DEF GuardReadsSeed, outsideGuard, hooks, RunsAreNamed
<1>18. CASE GuardFindsScope
  BY <1>18 DEF GuardFindsScope, outsideGuard, hooks, RunsAreNamed
<1>19. CASE GuardTimesOut
  BY <1>19 DEF GuardTimesOut, outsideGuard, hooks, RunsAreNamed
<1>20. CASE GuardEnforces
  BY <1>20 DEF GuardEnforces, outsideGuard, hooks, RunsAreNamed
<1>21. CASE GuardFails
  BY <1>21 DEF GuardFails, Begin, outsideGuard, hooks, RunsAreNamed
<1>22. CASE \E a \in Agents : StartFindsRun(a)
  <2>1. PICK a \in Agents : StartFindsRun(a)
    BY <1>22
  <2> QED
    BY <2>1, SweepEffect DEF StartFindsRun, aroundStart, RunsAreNamed, Shapes
<1>23. CASE \E a \in Agents : StartReadsSeed(a)
  <2>1. PICK a \in Agents : StartReadsSeed(a)
    BY <1>23
  <2> QED
    BY <2>1
       DEF StartReadsSeed, Starter, After, aroundStart, files, RunsAreNamed,
           Shapes
<1>24. CASE \E a \in Agents : StartFindsNoScope(a)
  <2>1. PICK a \in Agents : StartFindsNoScope(a)
    BY <1>24
  <2> QED
    BY <2>1
       DEF StartFindsNoScope, Starter, After, aroundStart, files,
           RunsAreNamed, Shapes
<1>25. CASE \E a \in Agents : StartWritesScope(a)
  <2>1. PICK a \in Agents : StartWritesScope(a)
    BY <1>25
  <2> QED
    BY <2>1
       DEF StartWritesScope, Starter, After, aroundStart, RunsAreNamed, Shapes
<1>26. CASE \E a \in Agents : StartUnlinksSeed(a)
  <2>1. PICK a \in Agents : StartUnlinksSeed(a)
    BY <1>26
  <2> QED
    BY <2>1
       DEF StartUnlinksSeed, Starter, After, aroundStart, RunsAreNamed, Shapes
<1>27. CASE \E a \in Agents : StartDies(a)
  <2>1. PICK a \in Agents : StartDies(a)
    BY <1>27
  <2> QED
    BY <2>1
       DEF StartDies, Starter, After, aroundStart, files, RunsAreNamed, Shapes
<1>28. CASE \E a \in Agents : StopFindsRun(a)
  <2>1. PICK a \in Agents : StopFindsRun(a)
    BY <1>28
  <2> QED
    BY <2>1 DEF StopFindsRun, aroundStop, files, RunsAreNamed, Shapes
<1>29. CASE \E a \in Agents : StopReadsScope(a)
  <2>1. PICK a \in Agents : StopReadsScope(a)
    BY <1>29
  <2> QED
    BY <2>1
       DEF StopReadsScope, Stopper, After, aroundStop, files, RunsAreNamed,
           Shapes
<1>30. CASE \E a \in Agents : StopKeepsTranscript(a)
  <2>1. PICK a \in Agents : StopKeepsTranscript(a)
    BY <1>30
  <2> QED
    BY <2>1
       DEF StopKeepsTranscript, Stopper, After, aroundStop, files,
           RunsAreNamed, Shapes
<1>31. CASE \E a \in Agents : StopReleases(a)
  <2>1. PICK a \in Agents : StopReleases(a)
    BY <1>31
  <2> QED
    BY <2>1 DEF StopReleases, Stopper, After, aroundStop, RunsAreNamed, Shapes
<1>32. CASE \E a \in Agents : StopDies(a)
  <2>1. PICK a \in Agents : StopDies(a)
    BY <1>32
  <2> QED
    BY <2>1
       DEF StopDies, Stopper, After, aroundStop, files, RunsAreNamed, Shapes
<1>33. CASE UNCHANGED vars
  BY <1>33 DEF vars, RunsAreNamed
<1> QED
  BY <1>1, <1>2, <1>3, <1>4, <1>5, <1>6, <1>7, <1>8, <1>9, <1>10, <1>11,
     <1>12, <1>13, <1>14, <1>15, <1>16, <1>17, <1>18, <1>19, <1>20, <1>21,
     <1>22, <1>23, <1>24, <1>25, <1>26, <1>27, <1>28, <1>29, <1>30, <1>31,
     <1>32, <1>33
     DEF Next, Setting, Starting, Stopping, Guarding

(* A run that is not filled yet stays untouched.                           *)
LEMMA FreshKept ==
  ASSUME Shapes, RunsAreNamed, FreshInv, [Next]_vars
  PROVE  FreshInv'
<1>1. CASE \E r \in Runs : Prepare(r)
  <2>1. PICK r \in Runs : Prepare(r)
    BY <1>1
  <2> QED
    BY <2>1, SweepEffect, ContainmentAssumption
       DEF Prepare, othersOfSetup, hooks, FreshInv, Candidate, Fresh, Shapes,
           RunsAreNamed, PreFill
<1>2. CASE FindsNoSeed
  BY <1>2, ContainmentAssumption
     DEF FindsNoSeed, Setup, NoSetup, othersOfSetup, files, hooks, FreshInv,
         Candidate, Fresh, Shapes, RunsAreNamed, PreFill
<1>3. CASE FindsNoScope
  BY <1>3, ContainmentAssumption
     DEF FindsNoScope, Setup, NoSetup, othersOfSetup, files, hooks, FreshInv,
         Candidate, Fresh, Shapes, RunsAreNamed, PreFill
<1>4. CASE Publish
  BY <1>4, ContainmentAssumption
     DEF Publish, Setup, NoSetup, othersOfSetup, Files, hooks, FreshInv,
         Candidate, Fresh, Shapes, RunsAreNamed, PreFill
<1>5. CASE WriteSeed
  BY <1>5, ContainmentAssumption
     DEF WriteSeed, Setup, NoSetup, othersOfSetup, Files, hooks, FreshInv,
         Candidate, Fresh, Shapes, RunsAreNamed, PreFill
<1>6. CASE WriteScope
  BY <1>6, ContainmentAssumption
     DEF WriteScope, Setup, NoSetup, othersOfSetup, Files, hooks, FreshInv,
         Candidate, Fresh, Shapes, RunsAreNamed, PreFill
<1>7. CASE ClearStalePointer
  BY <1>7, ContainmentAssumption
     DEF ClearStalePointer, Setup, NoSetup, othersOfSetup, Files, files,
         hooks, FreshInv, Candidate, Fresh, Shapes, RunsAreNamed, PreFill
<1>8. CASE DropSeed
  BY <1>8, ContainmentAssumption
     DEF DropSeed, Setup, NoSetup, othersOfSetup, Files, hooks, FreshInv,
         Candidate, Fresh, Shapes, RunsAreNamed, PreFill
<1>9. CASE DropScope
  BY <1>9, ContainmentAssumption
     DEF DropScope, Setup, NoSetup, othersOfSetup, Files, hooks, FreshInv,
         Candidate, Fresh, Shapes, RunsAreNamed, PreFill
<1>10. CASE DropPointer
  BY <1>10, ContainmentAssumption
     DEF DropPointer, Setup, NoSetup, othersOfSetup, Files, hooks, FreshInv,
         Candidate, Fresh, Shapes, RunsAreNamed, PreFill
<1>11. CASE SetupEnds
  BY <1>11, ContainmentAssumption
     DEF SetupEnds, Setup, NoSetup, othersOfSetup, files, hooks, FreshInv,
         Candidate, Fresh, Shapes, RunsAreNamed, PreFill
<1>12. CASE DayPasses
  BY <1>12 DEF DayPasses, files, hooks, FreshInv, Candidate, Fresh
<1>13. CASE OtherSessionSweeps
  BY <1>13, SweepEffect, ContainmentAssumption
     DEF OtherSessionSweeps, hooks, FreshInv, Candidate, Fresh, Shapes,
         RunsAreNamed, PreFill
<1>14. CASE \E a \in Agents : Call(a)
  <2>1. PICK a \in Agents : Call(a)
    BY <1>14
  <2> QED
    BY <2>1
       DEF Call, Begin, outsideGuard, hooks, files, FreshInv, Candidate, Fresh
<1>15. CASE GuardReadsPointer
  BY <1>15
     DEF GuardReadsPointer, outsideGuard, hooks, files, FreshInv, Candidate,
         Fresh
<1>16. CASE GuardReadsScope
  BY <1>16
     DEF GuardReadsScope, outsideGuard, hooks, files, FreshInv, Candidate, Fresh
<1>17. CASE GuardReadsSeed
  BY <1>17
     DEF GuardReadsSeed, outsideGuard, hooks, files, FreshInv, Candidate, Fresh
<1>18. CASE GuardFindsScope
  BY <1>18
     DEF GuardFindsScope, outsideGuard, hooks, files, FreshInv, Candidate, Fresh
<1>19. CASE GuardTimesOut
  BY <1>19
     DEF GuardTimesOut, outsideGuard, hooks, files, FreshInv, Candidate, Fresh
<1>20. CASE GuardEnforces
  BY <1>20
     DEF GuardEnforces, outsideGuard, hooks, files, FreshInv, Candidate, Fresh
<1>21. CASE GuardFails
  BY <1>21
     DEF GuardFails, Begin, outsideGuard, hooks, files, FreshInv, Candidate,
         Fresh
<1>22. CASE \E a \in Agents : StartFindsRun(a)
  <2>1. PICK a \in Agents : StartFindsRun(a)
    BY <1>22
  <2> QED
    BY <2>1, SweepEffect, ContainmentAssumption
       DEF StartFindsRun, aroundStart, FreshInv, Candidate, Fresh, Shapes,
           RunsAreNamed, PreFill
<1>23. CASE \E a \in Agents : StartReadsSeed(a)
  <2>1. PICK a \in Agents : StartReadsSeed(a)
    BY <1>23
  <2> QED
    BY <2>1, ContainmentAssumption
       DEF StartReadsSeed, Starter, After, aroundStart, files, FreshInv,
           Candidate, Fresh, Shapes, RunsAreNamed, PreFill
<1>24. CASE \E a \in Agents : StartFindsNoScope(a)
  <2>1. PICK a \in Agents : StartFindsNoScope(a)
    BY <1>24
  <2> QED
    BY <2>1, ContainmentAssumption
       DEF StartFindsNoScope, Starter, After, aroundStart, files, FreshInv,
           Candidate, Fresh, Shapes, RunsAreNamed, PreFill
<1>25. CASE \E a \in Agents : StartWritesScope(a)
  <2>1. PICK a \in Agents : StartWritesScope(a)
    BY <1>25
  <2> QED
    BY <2>1, ContainmentAssumption
       DEF StartWritesScope, Starter, After, aroundStart, Files, FreshInv,
           Candidate, Fresh, Shapes, RunsAreNamed, PreFill
<1>26. CASE \E a \in Agents : StartUnlinksSeed(a)
  <2>1. PICK a \in Agents : StartUnlinksSeed(a)
    BY <1>26
  <2> QED
    BY <2>1, ContainmentAssumption
       DEF StartUnlinksSeed, Starter, After, aroundStart, Files, FreshInv,
           Candidate, Fresh, Shapes, RunsAreNamed, PreFill
<1>27. CASE \E a \in Agents : StartDies(a)
  <2>1. PICK a \in Agents : StartDies(a)
    BY <1>27
  <2> QED
    BY <2>1, ContainmentAssumption
       DEF StartDies, Starter, After, aroundStart, files, FreshInv, Candidate,
           Fresh, Shapes, RunsAreNamed, PreFill
<1>28. CASE \E a \in Agents : StopFindsRun(a)
  <2>1. PICK a \in Agents : StopFindsRun(a)
    BY <1>28
  <2> QED
    BY <2>1, ContainmentAssumption
       DEF StopFindsRun, aroundStop, files, FreshInv, Candidate, Fresh,
           Shapes, RunsAreNamed, PreFill
<1>29. CASE \E a \in Agents : StopReadsScope(a)
  <2>1. PICK a \in Agents : StopReadsScope(a)
    BY <1>29
  <2> QED
    BY <2>1, ContainmentAssumption
       DEF StopReadsScope, Stopper, After, aroundStop, files, FreshInv,
           Candidate, Fresh, Shapes, RunsAreNamed, PreFill
<1>30. CASE \E a \in Agents : StopKeepsTranscript(a)
  <2>1. PICK a \in Agents : StopKeepsTranscript(a)
    BY <1>30
  <2> QED
    BY <2>1, ContainmentAssumption
       DEF StopKeepsTranscript, Stopper, After, aroundStop, files, FreshInv,
           Candidate, Fresh, Shapes, RunsAreNamed, PreFill
<1>31. CASE \E a \in Agents : StopReleases(a)
  <2>1. PICK a \in Agents : StopReleases(a)
    BY <1>31
  <2> QED
    BY <2>1, ContainmentAssumption
       DEF StopReleases, Stopper, After, aroundStop, Files, FreshInv,
           Candidate, Fresh, Shapes, RunsAreNamed, PreFill
<1>32. CASE \E a \in Agents : StopDies(a)
  <2>1. PICK a \in Agents : StopDies(a)
    BY <1>32
  <2> QED
    BY <2>1, ContainmentAssumption
       DEF StopDies, Stopper, After, aroundStop, files, FreshInv, Candidate,
           Fresh, Shapes, RunsAreNamed, PreFill
<1>33. CASE UNCHANGED vars
  BY <1>33 DEF vars, files, FreshInv, Candidate, Fresh
<1> QED
  BY <1>1, <1>2, <1>3, <1>4, <1>5, <1>6, <1>7, <1>8, <1>9, <1>10, <1>11,
     <1>12, <1>13, <1>14, <1>15, <1>16, <1>17, <1>18, <1>19, <1>20, <1>21,
     <1>22, <1>23, <1>24, <1>25, <1>26, <1>27, <1>28, <1>29, <1>30, <1>31,
     <1>32, <1>33
     DEF Next, Setting, Starting, Stopping, Guarding

(* The hooks keep a run known, whichever step comes next.                  *)
LEMMA HooksKept ==
  ASSUME Shapes, RunsAreNamed, FreshInv, HooksKeepRunsKnown, [Next]_vars
  PROVE  HooksKeepRunsKnown'
<1>1. CASE \E r \in Runs : Prepare(r)
  <2>1. PICK r \in Runs : Prepare(r)
    BY <1>1
  <2> QED
    BY <2>1, SweepEffect, ContainmentAssumption
       DEF Prepare, othersOfSetup, hooks, HooksKeepRunsKnown,
           KnownWithoutSeed, Shapes, RunsAreNamed, PreFill, FreshInv,
           Candidate, Fresh
<1>2. CASE FindsNoSeed
  BY <1>2, ContainmentAssumption
     DEF FindsNoSeed, Setup, NoSetup, othersOfSetup, files, hooks,
         HooksKeepRunsKnown, KnownWithoutSeed, Shapes, RunsAreNamed, PreFill,
         FreshInv, Candidate, Fresh
<1>3. CASE FindsNoScope
  BY <1>3, ContainmentAssumption
     DEF FindsNoScope, Setup, NoSetup, othersOfSetup, files, hooks,
         HooksKeepRunsKnown, KnownWithoutSeed, Shapes, RunsAreNamed, PreFill,
         FreshInv, Candidate, Fresh
<1>4. CASE Publish
  BY <1>4, ContainmentAssumption
     DEF Publish, Setup, NoSetup, othersOfSetup, Files, hooks,
         HooksKeepRunsKnown, KnownWithoutSeed, Shapes, RunsAreNamed, PreFill,
         FreshInv, Candidate, Fresh
<1>5. CASE WriteSeed
  BY <1>5, ContainmentAssumption
     DEF WriteSeed, Setup, NoSetup, othersOfSetup, Files, hooks,
         HooksKeepRunsKnown, KnownWithoutSeed, Shapes, RunsAreNamed, PreFill,
         FreshInv, Candidate, Fresh
<1>6. CASE WriteScope
  BY <1>6, ContainmentAssumption
     DEF WriteScope, Setup, NoSetup, othersOfSetup, Files, hooks,
         HooksKeepRunsKnown, KnownWithoutSeed, Shapes, RunsAreNamed, PreFill,
         FreshInv, Candidate, Fresh
<1>7. CASE ClearStalePointer
  BY <1>7, ContainmentAssumption
     DEF ClearStalePointer, Setup, NoSetup, othersOfSetup, Files, files,
         hooks, HooksKeepRunsKnown, KnownWithoutSeed, Shapes, RunsAreNamed,
         PreFill, FreshInv, Candidate, Fresh
<1>8. CASE DropSeed
  BY <1>8, ContainmentAssumption
     DEF DropSeed, Setup, NoSetup, othersOfSetup, Files, hooks,
         HooksKeepRunsKnown, KnownWithoutSeed, Shapes, RunsAreNamed, PreFill,
         FreshInv, Candidate, Fresh
<1>9. CASE DropScope
  BY <1>9, ContainmentAssumption
     DEF DropScope, Setup, NoSetup, othersOfSetup, Files, hooks,
         HooksKeepRunsKnown, KnownWithoutSeed, Shapes, RunsAreNamed, PreFill,
         FreshInv, Candidate, Fresh
<1>10. CASE DropPointer
  BY <1>10, ContainmentAssumption
     DEF DropPointer, Setup, NoSetup, othersOfSetup, Files, hooks,
         HooksKeepRunsKnown, KnownWithoutSeed, Shapes, RunsAreNamed, PreFill,
         FreshInv, Candidate, Fresh
<1>11. CASE SetupEnds
  BY <1>11, ContainmentAssumption
     DEF SetupEnds, Setup, NoSetup, othersOfSetup, files, hooks,
         HooksKeepRunsKnown, KnownWithoutSeed, Shapes, RunsAreNamed, PreFill,
         FreshInv, Candidate, Fresh
<1>12. CASE DayPasses
  BY <1>12 DEF DayPasses, files, hooks, HooksKeepRunsKnown, KnownWithoutSeed
<1>13. CASE OtherSessionSweeps
  BY <1>13, SweepEffect, ContainmentAssumption
     DEF OtherSessionSweeps, hooks, HooksKeepRunsKnown, KnownWithoutSeed,
         Shapes, RunsAreNamed, PreFill, FreshInv, Candidate, Fresh
<1>14. CASE \E a \in Agents : Call(a)
  <2>1. PICK a \in Agents : Call(a)
    BY <1>14
  <2> QED
    BY <2>1
       DEF Call, Begin, outsideGuard, hooks, files, HooksKeepRunsKnown,
           KnownWithoutSeed
<1>15. CASE GuardReadsPointer
  BY <1>15
     DEF GuardReadsPointer, outsideGuard, hooks, files, HooksKeepRunsKnown,
         KnownWithoutSeed
<1>16. CASE GuardReadsScope
  BY <1>16
     DEF GuardReadsScope, outsideGuard, hooks, files, HooksKeepRunsKnown,
         KnownWithoutSeed
<1>17. CASE GuardReadsSeed
  BY <1>17
     DEF GuardReadsSeed, outsideGuard, hooks, files, HooksKeepRunsKnown,
         KnownWithoutSeed
<1>18. CASE GuardFindsScope
  BY <1>18
     DEF GuardFindsScope, outsideGuard, hooks, files, HooksKeepRunsKnown,
         KnownWithoutSeed
<1>19. CASE GuardTimesOut
  BY <1>19
     DEF GuardTimesOut, outsideGuard, hooks, files, HooksKeepRunsKnown,
         KnownWithoutSeed
<1>20. CASE GuardEnforces
  BY <1>20
     DEF GuardEnforces, outsideGuard, hooks, files, HooksKeepRunsKnown,
         KnownWithoutSeed
<1>21. CASE GuardFails
  BY <1>21
     DEF GuardFails, Begin, outsideGuard, hooks, files, HooksKeepRunsKnown,
         KnownWithoutSeed
<1>22. CASE \E a \in Agents : StartFindsRun(a)
  <2>1. PICK a \in Agents : StartFindsRun(a)
    BY <1>22
  <2> QED
    BY <2>1, SweepEffect, ContainmentAssumption
       DEF StartFindsRun, aroundStart, HooksKeepRunsKnown, KnownWithoutSeed,
           Shapes, RunsAreNamed, PreFill, FreshInv, Candidate, Fresh
<1>23. CASE \E a \in Agents : StartReadsSeed(a)
  <2>1. PICK a \in Agents : StartReadsSeed(a)
    BY <1>23
  <2> QED
    BY <2>1, ContainmentAssumption
       DEF StartReadsSeed, Starter, After, aroundStart, files,
           HooksKeepRunsKnown, KnownWithoutSeed, Shapes, RunsAreNamed,
           PreFill, FreshInv, Candidate, Fresh
<1>24. CASE \E a \in Agents : StartFindsNoScope(a)
  <2>1. PICK a \in Agents : StartFindsNoScope(a)
    BY <1>24
  <2> QED
    BY <2>1, ContainmentAssumption
       DEF StartFindsNoScope, Starter, After, aroundStart, files,
           HooksKeepRunsKnown, KnownWithoutSeed, Shapes, RunsAreNamed,
           PreFill, FreshInv, Candidate, Fresh
<1>25. CASE \E a \in Agents : StartWritesScope(a)
  <2>1. PICK a \in Agents : StartWritesScope(a)
    BY <1>25
  <2> QED
    BY <2>1, ContainmentAssumption
       DEF StartWritesScope, Starter, After, aroundStart, Files,
           HooksKeepRunsKnown, KnownWithoutSeed, Shapes, RunsAreNamed,
           PreFill, FreshInv, Candidate, Fresh
<1>26. CASE \E a \in Agents : StartUnlinksSeed(a)
  <2>1. PICK a \in Agents : StartUnlinksSeed(a)
    BY <1>26
  <2> QED
    BY <2>1, ContainmentAssumption
       DEF StartUnlinksSeed, Starter, After, aroundStart, Files,
           HooksKeepRunsKnown, KnownWithoutSeed, Shapes, RunsAreNamed,
           PreFill, FreshInv, Candidate, Fresh
<1>27. CASE \E a \in Agents : StartDies(a)
  <2>1. PICK a \in Agents : StartDies(a)
    BY <1>27
  <2> QED
    BY <2>1, ContainmentAssumption
       DEF StartDies, Starter, After, aroundStart, files, HooksKeepRunsKnown,
           KnownWithoutSeed, Shapes, RunsAreNamed, PreFill, FreshInv,
           Candidate, Fresh
<1>28. CASE \E a \in Agents : StopFindsRun(a)
  <2>1. PICK a \in Agents : StopFindsRun(a)
    BY <1>28
  <2> QED
    BY <2>1, ContainmentAssumption
       DEF StopFindsRun, aroundStop, files, HooksKeepRunsKnown,
           KnownWithoutSeed, Shapes, RunsAreNamed, PreFill, FreshInv,
           Candidate, Fresh
<1>29. CASE \E a \in Agents : StopReadsScope(a)
  <2>1. PICK a \in Agents : StopReadsScope(a)
    BY <1>29
  <2> QED
    BY <2>1, ContainmentAssumption
       DEF StopReadsScope, Stopper, After, aroundStop, files,
           HooksKeepRunsKnown, KnownWithoutSeed, Shapes, RunsAreNamed,
           PreFill, FreshInv, Candidate, Fresh
<1>30. CASE \E a \in Agents : StopKeepsTranscript(a)
  <2>1. PICK a \in Agents : StopKeepsTranscript(a)
    BY <1>30
  <2> QED
    <3>1. UNCHANGED <<scope, guarded, starter>> /\ marks \subseteq marks'
      BY <2>1 DEF StopKeepsTranscript, files, aroundStop
    <3>2. \A b \in Agents : starter[b].step = "unlink" => KnownWithoutSeed(starter[b].run)'
      BY <3>1 DEF HooksKeepRunsKnown, KnownWithoutSeed
    <3>3. \A b \in Agents : b # a => stopper'[b] = stopper[b]
      BY <2>1 DEF StopKeepsTranscript, Stopper, Shapes
    <3>4. stopper'[a].step = "release" => stopper'[a].run \in marks'
      BY <2>1 DEF StopKeepsTranscript, Stopper, After, Shapes
    <3> QED
      BY <3>1, <3>2, <3>3, <3>4 DEF HooksKeepRunsKnown
<1>31. CASE \E a \in Agents : StopReleases(a)
  <2>1. PICK a \in Agents : StopReleases(a)
    BY <1>31
  <2> QED
    BY <2>1, ContainmentAssumption
       DEF StopReleases, Stopper, After, aroundStop, Files,
           HooksKeepRunsKnown, KnownWithoutSeed, Shapes, RunsAreNamed,
           PreFill, FreshInv, Candidate, Fresh
<1>32. CASE \E a \in Agents : StopDies(a)
  <2>1. PICK a \in Agents : StopDies(a)
    BY <1>32
  <2> QED
    BY <2>1, ContainmentAssumption
       DEF StopDies, Stopper, After, aroundStop, files, HooksKeepRunsKnown,
           KnownWithoutSeed, Shapes, RunsAreNamed, PreFill, FreshInv,
           Candidate, Fresh
<1>33. CASE UNCHANGED vars
  BY <1>33 DEF vars, files, HooksKeepRunsKnown, KnownWithoutSeed
<1> QED
  BY <1>1, <1>2, <1>3, <1>4, <1>5, <1>6, <1>7, <1>8, <1>9, <1>10, <1>11,
     <1>12, <1>13, <1>14, <1>15, <1>16, <1>17, <1>18, <1>19, <1>20, <1>21,
     <1>22, <1>23, <1>24, <1>25, <1>26, <1>27, <1>28, <1>29, <1>30, <1>31,
     <1>32, <1>33
     DEF Next, Setting, Starting, Stopping, Guarding

LEMMA SeededRunIsKnownKept ==
  ASSUME Shapes, RunsAreNamed, HooksKeepRunsKnown, SeededRunIsKnown, [Next]_vars
  PROVE  SeededRunIsKnown'
<1>1. CASE \E r \in Runs : Prepare(r)
  <2>1. PICK r \in Runs : Prepare(r)
    BY <1>1
  <2> QED
    BY <2>1, SweepEffect, ContainmentAssumption
       DEF Prepare, othersOfSetup, hooks, SeededRunIsKnown, Live,
           HooksKeepRunsKnown, KnownWithoutSeed, Shapes, RunsAreNamed
<1>2. CASE FindsNoSeed
  BY <1>2, ContainmentAssumption
     DEF FindsNoSeed, Setup, NoSetup, othersOfSetup, files, hooks,
         SeededRunIsKnown, Live, HooksKeepRunsKnown, KnownWithoutSeed, Shapes,
         RunsAreNamed
<1>3. CASE FindsNoScope
  BY <1>3, ContainmentAssumption
     DEF FindsNoScope, Setup, NoSetup, othersOfSetup, files, hooks,
         SeededRunIsKnown, Live, HooksKeepRunsKnown, KnownWithoutSeed, Shapes,
         RunsAreNamed
<1>4. CASE Publish
  BY <1>4, ContainmentAssumption
     DEF Publish, Setup, NoSetup, othersOfSetup, Files, hooks,
         SeededRunIsKnown, Live, HooksKeepRunsKnown, KnownWithoutSeed, Shapes,
         RunsAreNamed
<1>5. CASE WriteSeed
  BY <1>5, ContainmentAssumption
     DEF WriteSeed, Setup, NoSetup, othersOfSetup, Files, hooks,
         SeededRunIsKnown, Live, HooksKeepRunsKnown, KnownWithoutSeed, Shapes,
         RunsAreNamed
<1>6. CASE WriteScope
  BY <1>6, ContainmentAssumption
     DEF WriteScope, Setup, NoSetup, othersOfSetup, Files, hooks,
         SeededRunIsKnown, Live, HooksKeepRunsKnown, KnownWithoutSeed, Shapes,
         RunsAreNamed
<1>7. CASE ClearStalePointer
  BY <1>7, ContainmentAssumption
     DEF ClearStalePointer, Setup, NoSetup, othersOfSetup, Files, files,
         hooks, SeededRunIsKnown, Live, HooksKeepRunsKnown, KnownWithoutSeed,
         Shapes, RunsAreNamed
<1>8. CASE DropSeed
  BY <1>8, ContainmentAssumption
     DEF DropSeed, Setup, NoSetup, othersOfSetup, Files, hooks,
         SeededRunIsKnown, Live, HooksKeepRunsKnown, KnownWithoutSeed, Shapes,
         RunsAreNamed
<1>9. CASE DropScope
  BY <1>9, ContainmentAssumption
     DEF DropScope, Setup, NoSetup, othersOfSetup, Files, hooks,
         SeededRunIsKnown, Live, HooksKeepRunsKnown, KnownWithoutSeed, Shapes,
         RunsAreNamed
<1>10. CASE DropPointer
  BY <1>10, ContainmentAssumption
     DEF DropPointer, Setup, NoSetup, othersOfSetup, Files, hooks,
         SeededRunIsKnown, Live, HooksKeepRunsKnown, KnownWithoutSeed, Shapes,
         RunsAreNamed
<1>11. CASE SetupEnds
  BY <1>11, ContainmentAssumption
     DEF SetupEnds, Setup, NoSetup, othersOfSetup, files, hooks,
         SeededRunIsKnown, Live, HooksKeepRunsKnown, KnownWithoutSeed, Shapes,
         RunsAreNamed
<1>12. CASE DayPasses
  BY <1>12
     DEF DayPasses, files, hooks, SeededRunIsKnown, Live, HooksKeepRunsKnown,
         KnownWithoutSeed
<1>13. CASE OtherSessionSweeps
  BY <1>13, SweepEffect, ContainmentAssumption
     DEF OtherSessionSweeps, hooks, SeededRunIsKnown, Live,
         HooksKeepRunsKnown, KnownWithoutSeed, Shapes, RunsAreNamed
<1>14. CASE \E a \in Agents : Call(a)
  <2>1. PICK a \in Agents : Call(a)
    BY <1>14
  <2> QED
    BY <2>1
       DEF Call, Begin, outsideGuard, hooks, files, SeededRunIsKnown, Live,
           HooksKeepRunsKnown, KnownWithoutSeed
<1>15. CASE GuardReadsPointer
  BY <1>15
     DEF GuardReadsPointer, outsideGuard, hooks, files, SeededRunIsKnown,
         Live, HooksKeepRunsKnown, KnownWithoutSeed
<1>16. CASE GuardReadsScope
  BY <1>16
     DEF GuardReadsScope, outsideGuard, hooks, files, SeededRunIsKnown, Live,
         HooksKeepRunsKnown, KnownWithoutSeed
<1>17. CASE GuardReadsSeed
  BY <1>17
     DEF GuardReadsSeed, outsideGuard, hooks, files, SeededRunIsKnown, Live,
         HooksKeepRunsKnown, KnownWithoutSeed
<1>18. CASE GuardFindsScope
  BY <1>18
     DEF GuardFindsScope, outsideGuard, hooks, files, SeededRunIsKnown, Live,
         HooksKeepRunsKnown, KnownWithoutSeed
<1>19. CASE GuardTimesOut
  BY <1>19
     DEF GuardTimesOut, outsideGuard, hooks, files, SeededRunIsKnown, Live,
         HooksKeepRunsKnown, KnownWithoutSeed
<1>20. CASE GuardEnforces
  BY <1>20
     DEF GuardEnforces, outsideGuard, hooks, files, SeededRunIsKnown, Live,
         HooksKeepRunsKnown, KnownWithoutSeed
<1>21. CASE GuardFails
  BY <1>21
     DEF GuardFails, Begin, outsideGuard, hooks, files, SeededRunIsKnown,
         Live, HooksKeepRunsKnown, KnownWithoutSeed
<1>22. CASE \E a \in Agents : StartFindsRun(a)
  <2>1. PICK a \in Agents : StartFindsRun(a)
    BY <1>22
  <2> QED
    BY <2>1, SweepEffect, ContainmentAssumption
       DEF StartFindsRun, aroundStart, SeededRunIsKnown, Live,
           HooksKeepRunsKnown, KnownWithoutSeed, Shapes, RunsAreNamed
<1>23. CASE \E a \in Agents : StartReadsSeed(a)
  <2>1. PICK a \in Agents : StartReadsSeed(a)
    BY <1>23
  <2> QED
    BY <2>1, ContainmentAssumption
       DEF StartReadsSeed, Starter, After, aroundStart, files,
           SeededRunIsKnown, Live, HooksKeepRunsKnown, KnownWithoutSeed,
           Shapes, RunsAreNamed
<1>24. CASE \E a \in Agents : StartFindsNoScope(a)
  <2>1. PICK a \in Agents : StartFindsNoScope(a)
    BY <1>24
  <2> QED
    BY <2>1, ContainmentAssumption
       DEF StartFindsNoScope, Starter, After, aroundStart, files,
           SeededRunIsKnown, Live, HooksKeepRunsKnown, KnownWithoutSeed,
           Shapes, RunsAreNamed
<1>25. CASE \E a \in Agents : StartWritesScope(a)
  <2>1. PICK a \in Agents : StartWritesScope(a)
    BY <1>25
  <2> QED
    BY <2>1, ContainmentAssumption
       DEF StartWritesScope, Starter, After, aroundStart, Files,
           SeededRunIsKnown, Live, HooksKeepRunsKnown, KnownWithoutSeed,
           Shapes, RunsAreNamed
<1>26. CASE \E a \in Agents : StartUnlinksSeed(a)
  <2>1. PICK a \in Agents : StartUnlinksSeed(a)
    BY <1>26
  <2> QED
    BY <2>1, ContainmentAssumption
       DEF StartUnlinksSeed, Starter, After, aroundStart, Files,
           SeededRunIsKnown, Live, HooksKeepRunsKnown, KnownWithoutSeed,
           Shapes, RunsAreNamed
<1>27. CASE \E a \in Agents : StartDies(a)
  <2>1. PICK a \in Agents : StartDies(a)
    BY <1>27
  <2> QED
    BY <2>1, ContainmentAssumption
       DEF StartDies, Starter, After, aroundStart, files, SeededRunIsKnown,
           Live, HooksKeepRunsKnown, KnownWithoutSeed, Shapes, RunsAreNamed
<1>28. CASE \E a \in Agents : StopFindsRun(a)
  <2>1. PICK a \in Agents : StopFindsRun(a)
    BY <1>28
  <2> QED
    BY <2>1, ContainmentAssumption
       DEF StopFindsRun, aroundStop, files, SeededRunIsKnown, Live,
           HooksKeepRunsKnown, KnownWithoutSeed, Shapes, RunsAreNamed
<1>29. CASE \E a \in Agents : StopReadsScope(a)
  <2>1. PICK a \in Agents : StopReadsScope(a)
    BY <1>29
  <2> QED
    BY <2>1, ContainmentAssumption
       DEF StopReadsScope, Stopper, After, aroundStop, files,
           SeededRunIsKnown, Live, HooksKeepRunsKnown, KnownWithoutSeed,
           Shapes, RunsAreNamed
<1>30. CASE \E a \in Agents : StopKeepsTranscript(a)
  <2>1. PICK a \in Agents : StopKeepsTranscript(a)
    BY <1>30
  <2> QED
    BY <2>1, ContainmentAssumption
       DEF StopKeepsTranscript, Stopper, After, aroundStop, files,
           SeededRunIsKnown, Live, HooksKeepRunsKnown, KnownWithoutSeed,
           Shapes, RunsAreNamed
<1>31. CASE \E a \in Agents : StopReleases(a)
  <2>1. PICK a \in Agents : StopReleases(a)
    BY <1>31
  <2> QED
    BY <2>1, ContainmentAssumption
       DEF StopReleases, Stopper, After, aroundStop, Files, SeededRunIsKnown,
           Live, HooksKeepRunsKnown, KnownWithoutSeed, Shapes, RunsAreNamed
<1>32. CASE \E a \in Agents : StopDies(a)
  <2>1. PICK a \in Agents : StopDies(a)
    BY <1>32
  <2> QED
    BY <2>1, ContainmentAssumption
       DEF StopDies, Stopper, After, aroundStop, files, SeededRunIsKnown,
           Live, HooksKeepRunsKnown, KnownWithoutSeed, Shapes, RunsAreNamed
<1>33. CASE UNCHANGED vars
  BY <1>33
     DEF vars, files, SeededRunIsKnown, Live, HooksKeepRunsKnown,
         KnownWithoutSeed
<1> QED
  BY <1>1, <1>2, <1>3, <1>4, <1>5, <1>6, <1>7, <1>8, <1>9, <1>10, <1>11,
     <1>12, <1>13, <1>14, <1>15, <1>16, <1>17, <1>18, <1>19, <1>20, <1>21,
     <1>22, <1>23, <1>24, <1>25, <1>26, <1>27, <1>28, <1>29, <1>30, <1>31,
     <1>32, <1>33
     DEF Next, Setting, Starting, Stopping, Guarding

LEMMA FilesKeepGuard ==
  ASSUME Shapes, GuardInv, NEW p, NEW sd, NEW sc, Files(p, sd, sc), UNCHANGED call,
         call.run \in sd /\ call.run \notin seed => sc[call.run] = NoAgent
  PROVE  GuardInv'
<1>1. CASE call.run = NoRun
  BY <1>1 DEF GuardInv
<1>2. CASE call.run # NoRun
  <2>1. call.run \in Runs
    BY <1>2 DEF Shapes
  <2>2. could' = could \cup {Would(call.run, sd, sc, call.agent)}
    BY <1>2 DEF Files
  <2>3. seed' = sd /\ scope' = sc /\ call' = call
    BY DEF Files
  <2>4. call.run \in sd /\ call.run \notin seed
        => Would(call.run, sd, sc, call.agent) = "wait"
    BY <2>1, WouldIs
  <2>5. Would(call.run, seed', scope', call.agent) \in could'
    BY <2>2, <2>3
  <2>6. could \subseteq could'
    BY <2>2
  <2>7. call.step = "seed" /\ call.run \in sd => "wait" \in could' \/ "scoped" \in could'
    BY <2>2, <2>4 DEF GuardInv
  <2> QED
    BY <2>3, <2>5, <2>6, <2>7 DEF GuardInv
<1> QED
  BY <1>1, <1>2

(* What a call has seen justifies where it is.                             *)
LEMMA GuardKept ==
  ASSUME Shapes, FreshInv, RunsAreNamed, GuardInv, [Next]_vars
  PROVE  GuardInv'
<1>1. CASE \E r \in Runs : Prepare(r)
  <2>1. PICK r \in Runs : Prepare(r)
    BY <1>1
  <2> QED
    BY <2>1, FilesKeepGuard, SweepEffect DEF Prepare, Sweep, othersOfSetup
<1>2. CASE FindsNoSeed
  BY <1>2 DEF FindsNoSeed, files, GuardInv, othersOfSetup
<1>3. CASE FindsNoScope
  BY <1>3 DEF FindsNoScope, files, GuardInv, othersOfSetup
<1>4. CASE Publish
  BY <1>4, FilesKeepGuard DEF Publish, othersOfSetup
<1>5. CASE WriteSeed
  <2>1. Files(pointer, seed \cup {setup.run}, scope) /\ UNCHANGED call
    BY <1>5 DEF WriteSeed, othersOfSetup
  <2>2. setup.run \in Runs /\ Candidate(setup.run)
    BY <1>5 DEF WriteSeed, RunsAreNamed, Shapes, Candidate, PreFill
  <2>3. scope[setup.run] = NoAgent
    BY <2>2 DEF FreshInv, Fresh
  <2> QED
    BY <2>1, <2>3, FilesKeepGuard
<1>6. CASE WriteScope
  BY <1>6, FilesKeepGuard DEF WriteScope, othersOfSetup
<1>7. CASE ClearStalePointer
  BY <1>7, FilesKeepGuard DEF ClearStalePointer, othersOfSetup, GuardInv, files
<1>8. CASE DropSeed
  BY <1>8, FilesKeepGuard DEF DropSeed, othersOfSetup
<1>9. CASE DropScope
  BY <1>9, FilesKeepGuard DEF DropScope, othersOfSetup
<1>10. CASE DropPointer
  BY <1>10, FilesKeepGuard DEF DropPointer, othersOfSetup
<1>11. CASE SetupEnds
  BY <1>11 DEF SetupEnds, files, GuardInv, othersOfSetup
<1>12. CASE DayPasses
  BY <1>12 DEF DayPasses, files, GuardInv
<1>13. CASE OtherSessionSweeps
  BY <1>13, FilesKeepGuard, SweepEffect DEF OtherSessionSweeps, Sweep
<1>14. CASE \E a \in Agents : Call(a)
  <2>1. PICK a \in Agents : Call(a)
    BY <1>14
  <2> QED
    BY <2>1, ContainmentAssumption, WouldIs
       DEF Call, outsideGuard, Answered, Begin, files, GuardInv, Shapes
<1>15. CASE GuardReadsPointer
  <2>1. UNCHANGED <<seed, scope>>
    BY <1>15 DEF GuardReadsPointer, outsideGuard, files
  <2>2. CASE pointer = NoRun
    BY <1>15, <2>2 DEF GuardReadsPointer, Answer, Answered, GuardInv
  <2>3. CASE pointer # NoRun
    <3>1. call' = [call EXCEPT !.step = "scope", !.run = pointer]
      BY <1>15, <2>3 DEF GuardReadsPointer
    <3>2. could' = {Would(pointer, seed, scope, call.agent)}
      BY <1>15, <2>3 DEF GuardReadsPointer
    <3>3. /\ call'.step = "scope" /\ call'.run = pointer
          /\ call'.agent = call.agent /\ call.step = "run"
          /\ call'.answer = call.answer
      BY <1>15, <3>1 DEF GuardReadsPointer, Shapes
    <3> QED
      BY <2>1, <2>3, <3>2, <3>3 DEF GuardInv
  <2> QED
    BY <2>2, <2>3
<1>16. CASE GuardReadsScope
  BY <1>16, ContainmentAssumption, WouldIs
     DEF GuardReadsScope, outsideGuard, Guard, Answer, Answered, UnderScope,
         files, GuardInv, Shapes
<1>17. CASE GuardReadsSeed
  BY <1>17, ContainmentAssumption, WouldIs
     DEF GuardReadsSeed, outsideGuard, Guard, Answer, Answered, files,
         GuardInv, Shapes
<1>18. CASE GuardFindsScope
  BY <1>18, ContainmentAssumption, WouldIs
     DEF GuardFindsScope, outsideGuard, Guard, Answer, Answered, UnderScope,
         files, GuardInv, Shapes
<1>19. CASE GuardTimesOut
  BY <1>19, ContainmentAssumption, WouldIs
     DEF GuardTimesOut, outsideGuard, Answer, Answered, files, GuardInv, Shapes
<1>20. CASE GuardEnforces
  BY <1>20, ContainmentAssumption, WouldIs
     DEF GuardEnforces, outsideGuard, Answer, Answered, files, GuardInv, Shapes
<1>21. CASE GuardFails
  BY <1>21, ContainmentAssumption, WouldIs
     DEF GuardFails, outsideGuard, Answered, Begin, files, GuardInv, Shapes
<1>22. CASE \E a \in Agents : StartFindsRun(a)
  <2>1. PICK a \in Agents : StartFindsRun(a)
    BY <1>22
  <2> QED
    BY <2>1, FilesKeepGuard, SweepEffect DEF StartFindsRun, Sweep, aroundStart
<1>23. CASE \E a \in Agents : StartReadsSeed(a)
  <2>1. PICK a \in Agents : StartReadsSeed(a)
    BY <1>23
  <2> QED
    BY <2>1 DEF StartReadsSeed, files, GuardInv, aroundStart
<1>24. CASE \E a \in Agents : StartFindsNoScope(a)
  <2>1. PICK a \in Agents : StartFindsNoScope(a)
    BY <1>24
  <2> QED
    BY <2>1 DEF StartFindsNoScope, files, GuardInv, aroundStart
<1>25. CASE \E a \in Agents : StartWritesScope(a)
  <2>1. PICK a \in Agents : StartWritesScope(a)
    BY <1>25
  <2> QED
    BY <2>1, FilesKeepGuard DEF StartWritesScope, aroundStart
<1>26. CASE \E a \in Agents : StartUnlinksSeed(a)
  <2>1. PICK a \in Agents : StartUnlinksSeed(a)
    BY <1>26
  <2> QED
    BY <2>1, FilesKeepGuard DEF StartUnlinksSeed, aroundStart
<1>27. CASE \E a \in Agents : StartDies(a)
  <2>1. PICK a \in Agents : StartDies(a)
    BY <1>27
  <2> QED
    BY <2>1 DEF StartDies, files, GuardInv, aroundStart
<1>28. CASE \E a \in Agents : StopFindsRun(a)
  <2>1. PICK a \in Agents : StopFindsRun(a)
    BY <1>28
  <2> QED
    BY <2>1 DEF StopFindsRun, files, GuardInv, aroundStop
<1>29. CASE \E a \in Agents : StopReadsScope(a)
  <2>1. PICK a \in Agents : StopReadsScope(a)
    BY <1>29
  <2> QED
    BY <2>1 DEF StopReadsScope, files, GuardInv, aroundStop
<1>30. CASE \E a \in Agents : StopKeepsTranscript(a)
  <2>1. PICK a \in Agents : StopKeepsTranscript(a)
    BY <1>30
  <2> QED
    BY <2>1 DEF StopKeepsTranscript, files, GuardInv, aroundStop
<1>31. CASE \E a \in Agents : StopReleases(a)
  <2>1. PICK a \in Agents : StopReleases(a)
    BY <1>31
  <2> QED
    BY <2>1, FilesKeepGuard DEF StopReleases, aroundStop
<1>32. CASE \E a \in Agents : StopDies(a)
  <2>1. PICK a \in Agents : StopDies(a)
    BY <1>32
  <2> QED
    BY <2>1 DEF StopDies, files, GuardInv, aroundStop
<1>33. CASE UNCHANGED vars
  BY <1>33 DEF vars, files, GuardInv
<1> QED
  BY <1>1, <1>2, <1>3, <1>4, <1>5, <1>6, <1>7, <1>8, <1>9, <1>10, <1>11,
     <1>12, <1>13, <1>14, <1>15, <1>16, <1>17, <1>18, <1>19, <1>20, <1>21,
     <1>22, <1>23, <1>24, <1>25, <1>26, <1>27, <1>28, <1>29, <1>30, <1>31,
     <1>32, <1>33
     DEF Next, Setting, Starting, Stopping, Guarding

(* Every answer is justified by what the call has seen.                    *)
Answering == call.run # NoRun /\ call'.answer # "none" => Justified(call'.answer)

LEMMA QuietIsNoAnswer ==
  ASSUME GuardInv, UNCHANGED call
  PROVE  Answering
  BY DEF GuardInv, Answering

LEMMA GuardIsNoAnswer ==
  ASSUME Shapes, GuardInv, NEW step, Guard(step)
  PROVE  Answering
<1>1. call'.answer = call.answer
  BY DEF Guard, Shapes
<1> QED
  BY <1>1 DEF GuardInv, Answering

LEMMA BeginIsNoAnswer ==
  ASSUME NEW a, NEW failed, Begin(a, failed)
  PROVE  Answering
<1>1. call'.answer = "none"
  BY DEF Begin, Answered
<1> QED
  BY <1>1 DEF Answering

LEMMA AnswerIsJustified ==
  ASSUME NEW answer \in Answers, Answer(answer), Justified(answer)
  PROVE  Answering
<1>1. call'.answer = answer
  BY AnswerEffect
<1> QED
  BY <1>1 DEF Answering

LEMMA UnderScopeIsJustified ==
  ASSUME Shapes, GuardInv, call.run \in Runs,
         Would(call.run, seed, scope, call.agent) \in could,
         scope[call.run] # NoAgent, UnderScope(scope[call.run])
  PROVE  Answering
<1>1. CASE scope[call.run] # call.agent
  <2>1. "pass" \in could
    BY <1>1, WouldIs
  <2>2. Justified("pass")
    BY <2>1 DEF Justified
  <2>3. Answer("pass")
    BY <1>1 DEF UnderScope
  <2> QED
    BY <2>2, <2>3, AnswerIsJustified DEF Answers
<1>2. CASE scope[call.run] = call.agent /\ call.failed
  <2>1. "scoped" \in could
    BY <1>2, WouldIs
  <2>2. Justified("deny")
    BY <2>1 DEF Justified
  <2>3. Answer("deny")
    BY <1>2 DEF UnderScope
  <2> QED
    BY <2>2, <2>3, AnswerIsJustified DEF Answers
<1>3. CASE scope[call.run] = call.agent /\ ~call.failed
  BY <1>3, GuardIsNoAnswer DEF UnderScope
<1> QED
  BY <1>1, <1>2, <1>3

LEMMA AnswersAreJustified ==
  ASSUME Shapes, GuardInv, [Next]_vars
  PROVE  Answering
<1>1. CASE \E r \in Runs : Prepare(r)
  <2>1. PICK r \in Runs : Prepare(r)
    BY <1>1
  <2> QED
    BY <2>1, QuietIsNoAnswer DEF Prepare, othersOfSetup
<1>2. CASE FindsNoSeed
  BY <1>2, QuietIsNoAnswer DEF FindsNoSeed, othersOfSetup
<1>3. CASE FindsNoScope
  BY <1>3, QuietIsNoAnswer DEF FindsNoScope, othersOfSetup
<1>4. CASE Publish
  BY <1>4, QuietIsNoAnswer DEF Publish, othersOfSetup
<1>5. CASE WriteSeed
  BY <1>5, QuietIsNoAnswer DEF WriteSeed, othersOfSetup
<1>6. CASE WriteScope
  BY <1>6, QuietIsNoAnswer DEF WriteScope, othersOfSetup
<1>7. CASE ClearStalePointer
  BY <1>7, QuietIsNoAnswer DEF ClearStalePointer, othersOfSetup
<1>8. CASE DropSeed
  BY <1>8, QuietIsNoAnswer DEF DropSeed, othersOfSetup
<1>9. CASE DropScope
  BY <1>9, QuietIsNoAnswer DEF DropScope, othersOfSetup
<1>10. CASE DropPointer
  BY <1>10, QuietIsNoAnswer DEF DropPointer, othersOfSetup
<1>11. CASE SetupEnds
  BY <1>11, QuietIsNoAnswer DEF SetupEnds, othersOfSetup
<1>12. CASE DayPasses
  BY <1>12, QuietIsNoAnswer DEF DayPasses
<1>13. CASE OtherSessionSweeps
  BY <1>13, QuietIsNoAnswer DEF OtherSessionSweeps
<1>14. CASE \E a \in Agents : Call(a)
  <2>1. PICK a \in Agents : Call(a)
    BY <1>14
  <2> QED
    BY <2>1, BeginIsNoAnswer DEF Call
<1>15. CASE GuardReadsPointer
  <2>1. call.run = NoRun
    BY <1>15 DEF GuardReadsPointer, GuardInv
  <2> QED
    BY <2>1 DEF Answering
<1>16. CASE GuardReadsScope
  <2>1. call.run \in Runs /\ Would(call.run, seed, scope, call.agent) \in could
    BY <1>16 DEF GuardReadsScope, GuardInv, Shapes
  <2>2. CASE scope[call.run] = NoAgent
    BY <1>16, <2>2, GuardIsNoAnswer DEF GuardReadsScope
  <2>3. CASE scope[call.run] # NoAgent
    BY <1>16, <2>1, <2>3, UnderScopeIsJustified DEF GuardReadsScope
  <2> QED
    BY <2>2, <2>3
<1>17. CASE GuardReadsSeed
  <2>1. call.run \in Runs /\ Would(call.run, seed, scope, call.agent) \in could
    BY <1>17 DEF GuardReadsSeed, GuardInv, Shapes
  <2>2. "wait" \in could \/ "pass" \in could
    BY <1>17 DEF GuardReadsSeed, GuardInv
  <2>3. CASE call.run \notin seed
    <3>1. Would(call.run, seed, scope, call.agent) \in {"pass", "scoped"}
      BY <2>1, <2>3, WouldIs
    <3>2. Justified("pass")
      BY <2>1, <2>2, <3>1 DEF Justified
    <3>3. Answer("pass")
      BY <1>17, <2>3 DEF GuardReadsSeed
    <3> QED
      BY <3>2, <3>3, AnswerIsJustified DEF Answers
  <2>4. CASE call.run \in seed /\ call.failed
    <3>1. "wait" \in could \/ "scoped" \in could
      BY <1>17, <2>4 DEF GuardReadsSeed, GuardInv
    <3>2. Justified("deny")
      BY <3>1 DEF Justified
    <3>3. Answer("deny")
      BY <1>17, <2>4 DEF GuardReadsSeed
    <3> QED
      BY <3>2, <3>3, AnswerIsJustified DEF Answers
  <2>5. CASE call.run \in seed /\ ~call.failed
    BY <1>17, <2>5, GuardIsNoAnswer DEF GuardReadsSeed
  <2> QED
    BY <2>3, <2>4, <2>5
<1>18. CASE GuardFindsScope
  <2>1. call.run \in Runs /\ Would(call.run, seed, scope, call.agent) \in could
    BY <1>18 DEF GuardFindsScope, GuardInv, Shapes
  <2> QED
    BY <1>18, <2>1, UnderScopeIsJustified DEF GuardFindsScope
<1>19. CASE GuardTimesOut
  <2>1. "wait" \in could \/ "scoped" \in could
    BY <1>19 DEF GuardTimesOut, GuardInv
  <2>2. Justified("deny")
    BY <2>1 DEF Justified
  <2>3. Answer("deny")
    BY <1>19 DEF GuardTimesOut
  <2> QED
    BY <2>2, <2>3, AnswerIsJustified DEF Answers
<1>20. CASE GuardEnforces
  <2>1. PICK verdict \in {"allow", "deny"} : Answer(verdict)
    BY <1>20 DEF GuardEnforces, Verdicts
  <2>2. "scoped" \in could
    BY <1>20 DEF GuardEnforces, GuardInv
  <2>3. Justified(verdict)
    BY <2>1, <2>2 DEF Justified
  <2> QED
    BY <2>1, <2>3, AnswerIsJustified DEF Answers
<1>21. CASE GuardFails
  BY <1>21, BeginIsNoAnswer DEF GuardFails
<1>22. CASE \E a \in Agents : StartFindsRun(a)
  <2>1. PICK a \in Agents : StartFindsRun(a)
    BY <1>22
  <2> QED
    BY <2>1, QuietIsNoAnswer DEF StartFindsRun, aroundStart
<1>23. CASE \E a \in Agents : StartReadsSeed(a)
  <2>1. PICK a \in Agents : StartReadsSeed(a)
    BY <1>23
  <2> QED
    BY <2>1, QuietIsNoAnswer DEF StartReadsSeed, aroundStart
<1>24. CASE \E a \in Agents : StartFindsNoScope(a)
  <2>1. PICK a \in Agents : StartFindsNoScope(a)
    BY <1>24
  <2> QED
    BY <2>1, QuietIsNoAnswer DEF StartFindsNoScope, aroundStart
<1>25. CASE \E a \in Agents : StartWritesScope(a)
  <2>1. PICK a \in Agents : StartWritesScope(a)
    BY <1>25
  <2> QED
    BY <2>1, QuietIsNoAnswer DEF StartWritesScope, aroundStart
<1>26. CASE \E a \in Agents : StartUnlinksSeed(a)
  <2>1. PICK a \in Agents : StartUnlinksSeed(a)
    BY <1>26
  <2> QED
    BY <2>1, QuietIsNoAnswer DEF StartUnlinksSeed, aroundStart
<1>27. CASE \E a \in Agents : StartDies(a)
  <2>1. PICK a \in Agents : StartDies(a)
    BY <1>27
  <2> QED
    BY <2>1, QuietIsNoAnswer DEF StartDies, aroundStart
<1>28. CASE \E a \in Agents : StopFindsRun(a)
  <2>1. PICK a \in Agents : StopFindsRun(a)
    BY <1>28
  <2> QED
    BY <2>1, QuietIsNoAnswer DEF StopFindsRun, aroundStop
<1>29. CASE \E a \in Agents : StopReadsScope(a)
  <2>1. PICK a \in Agents : StopReadsScope(a)
    BY <1>29
  <2> QED
    BY <2>1, QuietIsNoAnswer DEF StopReadsScope, aroundStop
<1>30. CASE \E a \in Agents : StopKeepsTranscript(a)
  <2>1. PICK a \in Agents : StopKeepsTranscript(a)
    BY <1>30
  <2> QED
    BY <2>1, QuietIsNoAnswer DEF StopKeepsTranscript, aroundStop
<1>31. CASE \E a \in Agents : StopReleases(a)
  <2>1. PICK a \in Agents : StopReleases(a)
    BY <1>31
  <2> QED
    BY <2>1, QuietIsNoAnswer DEF StopReleases, aroundStop
<1>32. CASE \E a \in Agents : StopDies(a)
  <2>1. PICK a \in Agents : StopDies(a)
    BY <1>32
  <2> QED
    BY <2>1, QuietIsNoAnswer DEF StopDies, aroundStop
<1>33. CASE UNCHANGED vars
  BY <1>33, QuietIsNoAnswer DEF vars
<1> QED
  BY <1>1, <1>2, <1>3, <1>4, <1>5, <1>6, <1>7, <1>8, <1>9, <1>10, <1>11,
     <1>12, <1>13, <1>14, <1>15, <1>16, <1>17, <1>18, <1>19, <1>20, <1>21,
     <1>22, <1>23, <1>24, <1>25, <1>26, <1>27, <1>28, <1>29, <1>30, <1>31,
     <1>32, <1>33
     DEF Next, Setting, Starting, Stopping, Guarding
----------------------------------------------------------------------------
(* The theorems.                                                           *)

IInv == Shapes /\ OldIsPresent /\ TraceInv /\ GuardInv

LEMMA IInvInit == Init => IInv
<1> SUFFICES ASSUME Init
             PROVE  IInv
  OBVIOUS
<1>1. Shapes
  BY ContainmentAssumption
     DEF Init, Shapes, NoSetup, SetupSteps, StartSteps, StopSteps,
     Answered, GuardSteps, Answers
<1>2. OldIsPresent
  BY DEF Init, OldIsPresent
<1>3. RunsAreNamed /\ FreshInv
  BY DEF Init, RunsAreNamed, FreshInv, Fresh, NoSetup
<1>4. HooksKeepRunsKnown /\ SeededRunIsKnown
  BY DEF Init, HooksKeepRunsKnown, SeededRunIsKnown
<1>5. GuardInv
  BY DEF Init, GuardInv, Answered
<1> QED
  BY <1>1, <1>2, <1>3, <1>4, <1>5 DEF IInv, TraceInv

LEMMA IInvKept == IInv /\ [Next]_vars => IInv'
<1> SUFFICES ASSUME IInv, [Next]_vars
             PROVE  IInv'
  OBVIOUS
<1>1. Shapes /\ OldIsPresent /\ GuardInv
  BY DEF IInv
<1>2. RunsAreNamed /\ FreshInv /\ HooksKeepRunsKnown /\ SeededRunIsKnown
  BY DEF IInv, TraceInv
<1>3. Shapes'
  BY <1>1, <1>2, ShapesKept
<1>4. OldIsPresent'
  BY <1>1, <1>3, OldKept
<1>5. RunsAreNamed'
  BY <1>1, <1>2, RunsAreNamedKept
<1>6. FreshInv'
  BY <1>1, <1>2, FreshKept
<1>7. HooksKeepRunsKnown'
  BY <1>1, <1>2, HooksKept
<1>8. SeededRunIsKnown'
  BY <1>1, <1>2, SeededRunIsKnownKept
<1>9. GuardInv'
  BY <1>1, <1>2, GuardKept
<1> QED
  BY <1>3, <1>4, <1>5, <1>6, <1>7, <1>8, <1>9 DEF IInv, TraceInv

(* The inductive invariant: what the files, the scripts that are under way *)
(* and the call of the guard may look like together.                       *)
THEOREM ContainmentInvariant == Spec => []IInv
<1>1. Init => IInv
  BY IInvInit
<1>2. IInv /\ [Next]_vars => IInv'
  BY IInvKept
<1> QED
  BY <1>1, <1>2, PTL DEF Spec

(* Every variable keeps its type; an old file is one that is there.        *)
THEOREM TypeCorrect == Spec => []TypeOK
<1>1. IInv => TypeOK
  BY ShapesOfTypeOK DEF IInv
<1> QED
  BY <1>1, ContainmentInvariant, PTL

(* A seeded run is known by its seed, its scope or a marker, wherever the  *)
(* hooks, the set-up script and the sweeps of other sessions stand.        *)
THEOREM RunsAreKnown == Spec => []SeededRunIsKnown
<1>1. IInv => SeededRunIsKnown
  BY DEF IInv, TraceInv
<1> QED
  BY <1>1, ContainmentInvariant, PTL

(* The guard, which reads the files one after the other, answers as if it  *)
(* had read them at one moment of the call.                                *)
THEOREM AnswersOfOneMoment == Spec => AnswerIsOfOneMoment
<1>1. IInv /\ [Next]_vars => [call.run # NoRun /\ call'.answer # "none"
                              => Justified(call'.answer)]_vars
  BY AnswersAreJustified DEF IInv, Answering
<1> QED
  BY <1>1, ContainmentInvariant, PTL DEF Spec, AnswerIsOfOneMoment

----------------------------------------------------------------------------
(* The search scope: paths are sequences, and directories are prefixes.    *)

LEMMA FrontIsPath ==
    ASSUME NEW S, NEW p \in Seq(S), p # << >>
    PROVE  Front(p) \in Seq(S)
<1>1. Len(p) \in Nat \ {0}
  BY EmptySeq, LenProperties
<1>2. 1 \in 1..(Len(p) + 1) /\ Len(p) - 1 \in 0..Len(p)
  BY <1>1
<1>3. SubSeq(p, 1, Len(p) - 1) \in Seq(S)
  BY <1>2, SubSeqProperties
<1> QED
  BY <1>3 DEF Front

LEMMA ScopeDirectoriesArePaths == ScopeDirectories \subseteq Seq(STRING)
<1>1. SUFFICES ASSUME NEW p \in Anchors PROVE Parent(p) \in Seq(STRING)
  BY DEF ScopeDirectories
<1>2. p \in Seq(STRING) /\ p # << >>
  BY ContainmentAssumption
<1> QED
  BY <1>2, FrontIsPath DEF Parent

(* A prefix agrees with the sequence as far as it goes.                    *)
LEMMA PrefixElements ==
    ASSUME NEW S, NEW s \in Seq(S), NEW t \in Seq(S)
    PROVE  IsPrefix(s, t) <=> /\ Len(s) <= Len(t)
                              /\ \A i \in 1..Len(s) : s[i] = t[i]
<1> DEFINE n == Len(s)
<1>1. n \in Nat /\ Len(t) \in Nat
  BY LenProperties
<1>2. SUFFICES ASSUME n <= Len(t)
               PROVE  SubSeq(s, 1, n) = SubSeq(t, 1, n)
                      <=> \A i \in 1..n : s[i] = t[i]
  BY DEF IsPrefix
<1>3. SubSeq(s, 1, n) = [i \in 1..n |-> s[i]]
  BY <1>1 DEF SubSeq
<1>4. SubSeq(t, 1, n) = [i \in 1..n |-> t[i]]
  BY <1>1 DEF SubSeq
<1> HIDE DEF n
<1> QED
  BY <1>3, <1>4

LEMMA PrefixTransitive ==
    ASSUME NEW S, NEW s \in Seq(S), NEW t \in Seq(S), NEW u \in Seq(S),
           IsPrefix(s, t), IsPrefix(t, u)
    PROVE  IsPrefix(s, u)
<1>1. Len(s) \in Nat /\ Len(t) \in Nat /\ Len(u) \in Nat
  BY LenProperties
<1>2. Len(s) <= Len(t) /\ \A i \in 1..Len(s) : s[i] = t[i]
  BY PrefixElements
<1>3. Len(t) <= Len(u) /\ \A i \in 1..Len(t) : t[i] = u[i]
  BY PrefixElements
<1>4. Len(s) <= Len(u) /\ \A i \in 1..Len(s) : s[i] = u[i]
  BY <1>1, <1>2, <1>3
<1> QED
  BY <1>4, PrefixElements

LEMMA PrefixesEqual ==
    ASSUME NEW S, NEW s \in Seq(S), NEW t \in Seq(S),
           IsPrefix(s, t), Len(t) <= Len(s)
    PROVE  s = t
<1>1. Len(s) = Len(t) /\ \A i \in 1..Len(s) : s[i] = t[i]
  BY PrefixElements, LenProperties
<1> QED
  BY <1>1, SeqEqual

LEMMA PrefixReflexive ==
    ASSUME NEW S, NEW s \in Seq(S) PROVE IsPrefix(s, s)
  BY PrefixElements, LenProperties

LEMMA LeastNumber ==
    ASSUME NEW T, T \subseteq Nat, T # {}
    PROVE  \E n \in T : \A m \in T : n <= m
<1> DEFINE R == OpToRel(<, Nat)
<1>1. IsWellFoundedOn(R, Nat)
  BY NatLessThanWellFounded
<1>2. \A i, j \in Nat : i < j => <<i, j>> \in R
  BY DEF OpToRel
<1> HIDE DEF R
<1>3. \E n \in T : \A m \in T : <<m, n>> \notin R
  BY <1>1, WFMin
<1>4. \A i, j \in Nat : <<i, j>> \notin R => j <= i
  BY <1>2
<1> QED
  BY <1>3, <1>4

(* The shortest of some directories is one of them.                        *)
LEMMA ShallowestIs ==
    ASSUME NEW T, T \subseteq Seq(STRING), T # {}
    PROVE  /\ Shallowest(T) \in T
           /\ \A q \in T : Len(Shallowest(T)) <= Len(q)
<1> DEFINE L == {Len(q) : q \in T}
<1>1. L \subseteq Nat /\ L # {}
  BY LenProperties
<1>2. PICK n \in L : \A m \in L : n <= m
  <2> HIDE DEF L
  <2> QED BY <1>1, LeastNumber
<1>3. PICK p \in T : n = Len(p)
  BY <1>2
<1>4. \A q \in T : Len(p) <= Len(q)
  BY <1>2, <1>3
<1> HIDE DEF L
<1> QED
  BY <1>4, Zenon DEF Shallowest

(* The shallowest directory that contains a path lies in no other one.     *)
LEMMA RootIsItsOwn ==
    ASSUME NEW p \in Seq(STRING), RootsOf(p) # {}
    PROVE  LET root == Shallowest(RootsOf(p)) IN
           /\ root \in RootsOf(p) /\ root \in Seq(STRING)
           /\ RootsOf(root) = {root} /\ Shallowest(RootsOf(root)) = root
<1> DEFINE root == Shallowest(RootsOf(p))
<1>1. RootsOf(p) \subseteq Seq(STRING)
  BY ScopeDirectoriesArePaths DEF RootsOf
<1>2. root \in RootsOf(p) /\ \A q \in RootsOf(p) : Len(root) <= Len(q)
  BY <1>1, ShallowestIs
<1> HIDE DEF root
<1>3. root \in Seq(STRING)
  BY <1>1, <1>2
<1>4. root \in ScopeDirectories /\ IsPrefix(root, p)
  BY <1>2 DEF RootsOf, Within
<1>5. root \in RootsOf(root)
  BY <1>3, <1>4, PrefixReflexive DEF RootsOf, Within
<1>6. ASSUME NEW d \in RootsOf(root) PROVE d = root
  <2>1. d \in ScopeDirectories /\ d \in Seq(STRING) /\ IsPrefix(d, root)
    BY <1>6, ScopeDirectoriesArePaths DEF RootsOf, Within
  <2>2. IsPrefix(d, p)
    BY <1>3, <1>4, <2>1, PrefixTransitive
  <2>3. Len(root) <= Len(d)
    BY <1>2, <2>1, <2>2 DEF RootsOf, Within
  <2> QED
    BY <1>3, <2>1, <2>3, PrefixesEqual
<1>7. RootsOf(root) = {root}
  BY <1>5, <1>6
<1>8. Shallowest({root}) \in {root}
  <2>1. {root} \subseteq Seq(STRING) /\ {root} # {}
    BY <1>3
  <2> QED
    BY <2>1, ShallowestIs
<1> QED
  BY <1>2, <1>3, <1>7, <1>8 DEF root

LEMMA SearchRootsAreSound == RootsAreSound
<1>1. SUFFICES ASSUME NEW tool \in Tools, NEW p \in Paths,
                      NEW root \in Rewritten(tool, p)
               PROVE  /\ Within(p, root) /\ InScope(p) /\ InScope(root)
                      /\ Rewritten(tool, root) = {root}
                      /\ tool # "Read" => root \in Anchors \/ RootsOf(root) = {root}
  BY DEF RootsAreSound
<1>2. p \in Seq(STRING)
  BY ContainmentAssumption
<1>3. Within(p, p)
  BY <1>2, PrefixReflexive DEF Within
<1>4. CASE tool = "Read"
  <2>1. root = p /\ InScope(p)
    BY <1>4 DEF Rewritten
  <2> QED
    BY <1>3, <1>4, <2>1 DEF Rewritten
<1>5. CASE tool = "Grep" /\ p \in Anchors
  <2>1. root = p
    BY <1>5 DEF Rewritten, SelectScopeRoot
  <2> QED
    BY <1>3, <1>5, <2>1 DEF Rewritten, SelectScopeRoot, InScope
<1>6. CASE tool # "Read" /\ ~ (tool = "Grep" /\ p \in Anchors)
  <2>1. RootsOf(p) # {} /\ root = Shallowest(RootsOf(p))
    BY <1>6 DEF Rewritten, SelectScopeRoot
  <2>2. /\ root \in RootsOf(p) /\ RootsOf(root) = {root}
        /\ Shallowest(RootsOf(root)) = root
    BY <1>2, <2>1, RootIsItsOwn
  <2>3. Within(p, root) /\ InScope(p) /\ InScope(root)
    BY <2>1, <2>2 DEF InScope, RootsOf
  <2>4. Rewritten(tool, root) = {root}
    BY <1>6, <2>2 DEF Rewritten, SelectScopeRoot
  <2> QED
    BY <2>2, <2>3, <2>4
<1> QED
  BY <1>4, <1>5, <1>6

(* What a call under a scope may search is in scope, for any paths and any *)
(* anchors of the seed.                                                    *)
THEOREM SearchesInScope == Spec => []SearchIsInScope
<1>1. RootsAreSound
  BY SearchRootsAreSound
<1>2. SearchIsInScope
  BY <1>1 DEF SearchIsInScope
<1> QED
  BY <1>2, PTL
=============================================================================
