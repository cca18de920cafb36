-------------------------- MODULE ContainmentScope --------------------------
(***************************************************************************)
(* The state files of a contained dialogue run and the processes that      *)
(* share them without a lock: the set-up script of the operator, which     *)
(* publishes a run and its seed and removes them again; the lifecycle hook *)
(* of each subagent, which turns the seed into a scope when the subagent   *)
(* starts and keeps its transcript when it stops; the guard, a process of  *)
(* its own for every Read, Grep and Glob call; and the sweep of old files, *)
(* which the hooks of other sessions run as well.                          *)
(*                                                                         *)
(* The session is one; a file is there or not, since every write of these  *)
(* scripts replaces the file at once.  One step is one read or one write.  *)
(* A path is the sequence of its names after realpath.                     *)
(*                                                                         *)
(* Code: src/server/containment.py, src/scripts/containment_guard.py,      *)
(* src/scripts/containment_lifecycle.py,                                   *)
(* src/scripts/containment_smoke_setup.py.                                 *)
(***************************************************************************)
EXTENDS Naturals, Sequences, FiniteSets, SequencesExt

CONSTANTS Runs,        \* run ids, each prepared at most once
          Agents,      \* subagents of the session
          NoRun,       \* no active-run pointer
          NoAgent,     \* no scope file
          Bogus,       \* the agent id of a scope that the set-up script writes
          Paths,       \* resolved paths
          Anchors,     \* the file anchors of a seed
          MaxDays      \* bound: times that every file grows old

ASSUME ContainmentAssumption ==
    /\ NoRun \notin Runs
    /\ {NoAgent, Bogus} \cap Agents = {} /\ NoAgent # Bogus
    /\ Paths \subseteq Seq(STRING) /\ Anchors \subseteq Paths \ {<<>>}
    /\ MaxDays \in Nat

VARIABLES
    pointer,   \* the run named by active-run-<session>
    seed,      \* runs with a seed file
    scope,     \* the agent id in the scope file of each run
    marks,     \* runs with a completion marker, done or error
    old,       \* files past the age limit, as <<kind, run>>
    days,      \* times that the files grew old
    prepared,  \* runs that the operator has asked for
    setup,     \* the set-up script: its step, its run, the run it found
    starter,   \* the SubagentStart hook of each agent: its step and its run
    stopper,   \* the SubagentStop hook of each agent: its step and its run
    call,      \* the guard of a call: its step, agent, run and answer
    could,     \* what reading both files at once would have said so far
    guarded    \* runs seeded and neither cleaned up nor swept since

files == <<pointer, seed, scope>>
hooks == <<starter, stopper>>
vars == <<files, marks, old, days, prepared, setup, starter,
          stopper, call, could, guarded>>

----------------------------------------------------------------------------
(* The search scope of a run: derive_scope_directories and its readers.    *)

Parent(p) == Front(p)

ScopeDirectories == {Parent(p) : p \in Anchors}

Within(p, root) == IsPrefix(root, p)

RootsOf(p) == {d \in ScopeDirectories : Within(p, d)}

(* Fault: the innermost directory that contains the path.                  *)
Deepest(S) == CHOOSE p \in S : \A q \in S : Len(q) <= Len(p)

Shallowest(S) == CHOOSE p \in S : \A q \in S : Len(p) <= Len(q)

InScope(p) == p \in Anchors \/ RootsOf(p) # {}

(* The paths that a call may use once it is allowed: none is a refusal.    *)
SelectScopeRoot(tool, p) ==
    IF tool = "Grep" /\ p \in Anchors THEN {p}
    ELSE IF RootsOf(p) = {} THEN {} ELSE {Shallowest(RootsOf(p))}

Tools == {"Read", "Grep", "Glob"}

Rewritten(tool, p) ==
    IF tool = "Read" THEN (IF InScope(p) THEN {p} ELSE {})
    ELSE SelectScopeRoot(tool, p)

----------------------------------------------------------------------------
(* What the guard would say to an agent if it read the seed and the scope  *)
(* of the run at once.                                                     *)
Would(r, sd, sc, a) ==
    IF r = NoRun THEN "pass"
    ELSE IF sc[r] = NoAgent THEN (IF r \in sd THEN "wait" ELSE "pass")
    ELSE IF sc[r] = a THEN "scoped" ELSE "pass"

SetupSteps == {"idle", "live_seed", "live_scope", "point", "fill", "ready",
               "drop_scope", "drop_pointer"}
StartSteps == {"none", "seed", "exists", "write", "unlink", "over"}
StopSteps == {"none", "owner", "copy", "unmarked", "release", "over"}
GuardSteps == {"idle", "run", "scope", "seed", "poll", "enforce"}
NoSetup == [step |-> "idle", run |-> NoRun, found |-> NoRun]
Answers == {"none", "pass", "allow", "deny"}
Answered(answer) == [step |-> "idle", agent |-> NoAgent, run |-> NoRun,
                     failed |-> FALSE, answer |-> answer]

(* The files are now these: a call under way could have read them.         *)
Files(p, sd, sc) ==
    /\ pointer' = p /\ seed' = sd /\ scope' = sc
    /\ could' = IF call.run = NoRun THEN {}
                ELSE could \cup {Would(call.run, sd, sc, call.agent)}

Live(r) == r \in seed \/ scope[r] # NoAgent

Present == {<<"pointer", r>> : r \in Runs \cap {pointer}}
             \cup {<<"seed", r>> : r \in seed}
             \cup {<<"scope", r>> : r \in {q \in Runs : scope[q] # NoAgent}}
             \cup {<<"marks", r>> : r \in marks}

(* Fault: the age of the file that was there before.                       *)
TouchKeepsAge(kind, r) == old' = old

(* A file that is written or removed is not an old one.                    *)
Touch(kind, r) == old' = old \ {<<kind, r>>}

TypeOK ==
    /\ pointer \in Runs \cup {NoRun} /\ seed \subseteq Runs
    /\ scope \in [Runs -> Agents \cup {NoAgent, Bogus}]
    /\ marks \subseteq Runs
    /\ old \subseteq Present /\ days \in 0..MaxDays
    /\ prepared \subseteq Runs
    /\ setup \in [step : SetupSteps, run : Runs \cup {NoRun}, found : Runs \cup {NoRun}]
    /\ starter \in [Agents -> [step : StartSteps, run : Runs \cup {NoRun}]]
    /\ stopper \in [Agents -> [step : StopSteps, run : Runs \cup {NoRun}]]
    /\ call \in [step : GuardSteps, agent : Agents \cup {NoAgent}, run : Runs \cup {NoRun},
                failed : BOOLEAN, answer : Answers]
    /\ could \subseteq {"pass", "scoped", "wait"}
    /\ guarded \subseteq prepared

Init ==
    /\ pointer = NoRun /\ seed = {} /\ scope = [r \in Runs |-> NoAgent]
    /\ marks = {} /\ old = {} /\ days = 0 /\ prepared = {}
    /\ setup = NoSetup
    /\ starter = [a \in Agents |-> [step |-> "none", run |-> NoRun]]
    /\ stopper = [a \in Agents |-> [step |-> "none", run |-> NoRun]]
    /\ call = Answered("none") /\ could = {}
    /\ guarded = {}

(* clean_stale_files: the given old files are gone.  A run that loses one  *)
(* of them is no longer accounted for.                                     *)
Sweep(gone) ==
    LET lost(kind) == {r \in Runs : <<kind, r>> \in gone} IN
    /\ Files(IF pointer \in lost("pointer") THEN NoRun ELSE pointer,
             seed \ lost("seed"),
             [r \in Runs |-> IF r \in lost("scope") THEN NoAgent ELSE scope[r]])
    /\ marks' = marks \ lost("marks")
    /\ old' = old \ gone
    /\ guarded' = guarded \ (lost("seed") \cup lost("scope") \cup lost("marks"))

(* No script takes a day: the hooks and the guard are between two calls,   *)
(* and so is the operator.                                                 *)
DayPasses ==
    /\ days < MaxDays
    /\ Present # {}
    /\ setup.step \in {"idle", "ready"}
    /\ call.step = "idle"
    /\ \A a \in Agents : /\ starter[a].step \in {"none", "over"}
                         /\ stopper[a].step \in {"none", "over"}
    /\ days' = days + 1
    /\ old' = Present
    /\ UNCHANGED <<files, marks, prepared, setup, hooks, call, could, guarded>>

(* The start hook of another session sweeps the directory as well.         *)
OtherSessionSweeps ==
    /\ old # {}
    /\ Sweep(old)
    /\ UNCHANGED <<days, prepared, setup, hooks, call>>

----------------------------------------------------------------------------
(* The set-up script: prepare a run, and clean it up.  The operator runs   *)
(* one of them at a time and may stop at any point.                        *)

Setup(step) == setup' = IF step = "idle" THEN NoSetup ELSE [setup EXCEPT !.step = step]

othersOfSetup == <<days, hooks, call>>

(* prepare_scenario up to the pointer: sweep, then read which run is named.*)
Prepare(r) ==
    /\ setup.step \in {"idle", "ready"} /\ r \notin prepared
    /\ prepared' = prepared \cup {r}
    /\ Sweep(old)
    /\ setup' = [step |-> IF pointer' = NoRun THEN "point" ELSE "live_seed",
                 run |-> r, found |-> pointer']
    /\ UNCHANGED othersOfSetup

(* _assert_no_live_conflict looks for the seed first, then for the scope.  *)
FindsNoSeed ==
    /\ setup.step = "live_seed"
    /\ Setup(IF setup.found \in seed THEN "idle" ELSE "live_scope")
    /\ UNCHANGED <<files, marks, old, prepared, othersOfSetup, could, guarded>>

FindsNoScope ==
    /\ setup.step = "live_scope"
    /\ Setup(IF scope[setup.found] # NoAgent THEN "idle" ELSE "point")
    /\ UNCHANGED <<files, marks, old, prepared, othersOfSetup, could, guarded>>

Publish ==
    /\ setup.step = "point"
    /\ Files(setup.run, seed, scope)
    /\ old' = old \ {<<"pointer", pointer>>}
    /\ Setup("fill")
    /\ UNCHANGED <<marks, prepared, othersOfSetup, guarded>>

(* _write_seed_state.                                                      *)
WriteSeed ==
    /\ setup.step = "fill"
    /\ Files(pointer, seed \cup {setup.run}, scope)
    /\ guarded' = guarded \cup {setup.run}
    /\ Setup("ready")
    /\ UNCHANGED <<marks, old, prepared, othersOfSetup>>

(* _write_scope_state: the scenarios in which nobody owns the scope.       *)
WriteScope ==
    /\ setup.step = "fill"
    /\ Files(pointer, seed, [scope EXCEPT ![setup.run] = Bogus])
    /\ guarded' = guarded \cup {setup.run}
    /\ Setup("ready")
    /\ UNCHANGED <<marks, old, prepared, othersOfSetup>>

(* _clear_stale_pointer, in the scenario without a run: the two checks     *)
(* have just been made.                                                    *)
ClearStalePointer ==
    /\ setup.step = "point"
    /\ pointer \in Runs
    /\ IF Live(pointer) THEN UNCHANGED <<files, could, old>>
       ELSE Files(NoRun, seed, scope) /\ Touch("pointer", pointer)
    /\ Setup("idle")
    /\ UNCHANGED <<marks, prepared, othersOfSetup, guarded>>

(* cleanup_scenario: the seed, the scope, and the pointer if it is the     *)
(* run's own.                                                              *)
DropSeed ==
    /\ setup.step = "ready"
    /\ Files(pointer, seed \ {setup.run}, scope)
    /\ Touch("seed", setup.run)
    /\ guarded' = guarded \ {setup.run}
    /\ Setup("drop_scope")
    /\ UNCHANGED <<marks, prepared, othersOfSetup>>

DropScope ==
    /\ setup.step = "drop_scope"
    /\ Files(pointer, seed, [scope EXCEPT ![setup.run] = NoAgent])
    /\ Touch("scope", setup.run)
    /\ Setup("drop_pointer")
    /\ UNCHANGED <<marks, prepared, othersOfSetup, guarded>>

DropPointer ==
    /\ setup.step = "drop_pointer"
    /\ Files(IF pointer = setup.run THEN NoRun ELSE pointer, seed, scope)
    /\ Touch("pointer", setup.run)
    /\ Setup("idle")
    /\ UNCHANGED <<marks, prepared, othersOfSetup, guarded>>

(* The operator leaves, or the script dies where it is.                    *)
SetupEnds ==
    /\ setup.step # "idle"
    /\ Setup("idle")
    /\ UNCHANGED <<files, marks, old, prepared, othersOfSetup, could, guarded>>

----------------------------------------------------------------------------
(* The lifecycle hooks.  Each is a process of its own and may die anywhere:*)
(* a failing hook lets the agent go on.                                    *)

After(hook, step) == IF step = "over" THEN [step |-> "over", run |-> NoRun]
                     ELSE [hook EXCEPT !.step = step]
Starter(a, step) == starter' = [starter EXCEPT ![a] = After(@, step)]
Stopper(a, step) == stopper' = [stopper EXCEPT ![a] = After(@, step)]

aroundStart == <<days, prepared, setup, stopper, call>>
aroundStop == <<days, prepared, setup, starter, call>>

(* _handle_subagent_start, whenever the operator starts the agent: sweep,  *)
(* then read the pointer.                                                  *)
StartFindsRun(a) ==
    /\ starter[a].step = "none"
    /\ Sweep(old)
    /\ starter' = [starter EXCEPT ![a] =
                      [step |-> IF pointer' = NoRun THEN "over" ELSE "seed", run |-> pointer']]
    /\ UNCHANGED aroundStart

StartReadsSeed(a) ==
    /\ starter[a].step = "seed"
    /\ Starter(a, IF starter[a].run \in seed THEN "exists" ELSE "over")
    /\ UNCHANGED <<files, marks, old, aroundStart, could, guarded>>

(* A scope that is there ends the hook, and so may the smoke control.      *)
StartFindsNoScope(a) ==
    LET r == starter[a].run IN
    /\ starter[a].step = "exists"
    /\ \/ scope[r] = NoAgent /\ Starter(a, "write")
       \/ Starter(a, "over")
    /\ UNCHANGED <<files, marks, old, aroundStart, could, guarded>>

(* Fault: the seed is removed before the scope is written.                 *)
StartUnlinksFirst(a) ==
    LET r == starter[a].run IN
    /\ starter[a].step = "write"
    /\ IF r \in seed THEN Files(pointer, seed \ {r}, scope) /\ Touch("seed", r)
                          /\ UNCHANGED starter
       ELSE Files(pointer, seed, [scope EXCEPT ![r] = a]) /\ Touch("scope", r)
            /\ Starter(a, "over")
    /\ UNCHANGED <<marks, aroundStart, guarded>>

(* However long the smoke control delays it.                               *)
StartWritesScope(a) ==
    LET r == starter[a].run IN
    /\ starter[a].step = "write"
    /\ Files(pointer, seed, [scope EXCEPT ![r] = a])
    /\ Touch("scope", r)
    /\ Starter(a, "unlink")
    /\ UNCHANGED <<marks, aroundStart, guarded>>

StartUnlinksSeed(a) ==
    LET r == starter[a].run IN
    /\ starter[a].step = "unlink"
    /\ Files(pointer, seed \ {r}, scope)
    /\ Touch("seed", r)
    /\ Starter(a, "over")
    /\ UNCHANGED <<marks, aroundStart, guarded>>

StartDies(a) ==
    /\ starter[a].step \notin {"none", "over"}
    /\ Starter(a, "over")
    /\ UNCHANGED <<files, marks, old, aroundStart, could, guarded>>

(* _handle_subagent_stop, once the agent is over: the pointer, then the    *)
(* scope, which must be its own.                                           *)
StopFindsRun(a) ==
    /\ starter[a].step # "none" /\ stopper[a].step = "none"
    /\ stopper' = [stopper EXCEPT ![a] =
                      [step |-> IF pointer = NoRun THEN "over" ELSE "owner", run |-> pointer]]
    /\ UNCHANGED <<files, marks, old, aroundStop, could, guarded>>

StopReadsScope(a) ==
    /\ stopper[a].step = "owner"
    /\ Stopper(a, IF scope[stopper[a].run] = a THEN "copy" ELSE "over")
    /\ UNCHANGED <<files, marks, old, aroundStop, could, guarded>>

(* Copies the transcript and marks it done; when one of the two raises,    *)
(* marks an error; and when that raises as well, only logs it.             *)
StopKeepsTranscript(a) ==
    LET r == stopper[a].run IN
    /\ stopper[a].step = "copy"
    /\ \/ /\ marks' = marks \cup {r}
          /\ Touch("marks", r)
          /\ Stopper(a, "release")
       \/ UNCHANGED <<marks, old>> /\ Stopper(a, "unmarked")
    /\ UNCHANGED <<files, aroundStop, could, guarded>>

(* The finally clause.                                                     *)
StopReleases(a) ==
    LET r == stopper[a].run IN
    /\ stopper[a].step \in {"release", "unmarked"}
    /\ Files(pointer, seed, [scope EXCEPT ![r] = NoAgent])
    /\ Touch("scope", r)
    /\ guarded' = IF stopper[a].step = "unmarked" THEN guarded \ {r} ELSE guarded
    /\ Stopper(a, "over")
    /\ UNCHANGED <<marks, aroundStop>>

StopDies(a) ==
    /\ stopper[a].step \notin {"none", "over"}
    /\ Stopper(a, "over")
    /\ UNCHANGED <<files, marks, old, aroundStop, could, guarded>>

----------------------------------------------------------------------------
(* The guard.  Any agent may call, an agent whose type no hook matches too.*)
(* It writes nothing that another process reads, so one call at a time is  *)
(* as good as many.                                                        *)

outsideGuard == <<files, marks, old, days, prepared, setup, hooks, guarded>>

Guard(step) == call' = [call EXCEPT !.step = step] /\ UNCHANGED could
Answer(answer) == call' = Answered(answer) /\ could' = {}

(* main, once and again after an internal error.                           *)
Begin(a, failed) ==
    /\ call' = [Answered("none") EXCEPT !.step = "run", !.agent = a, !.failed = failed]
    /\ could' = {}
    /\ UNCHANGED outsideGuard

Call(a) == call.step = "idle" /\ stopper[a].step = "none" /\ Begin(a, FALSE)

GuardReadsPointer ==
    /\ call.step = "run"
    /\ IF pointer = NoRun THEN Answer("pass")
       ELSE /\ call' = [call EXCEPT !.step = "scope", !.run = pointer]
            /\ could' = {Would(pointer, seed, scope, call.agent)}
    /\ UNCHANGED outsideGuard

(* A scope is enforced on its own agent only; the probe after an internal  *)
(* error refuses the call instead.                                         *)
UnderScope(owner) ==
    IF owner # call.agent THEN Answer("pass")
    ELSE IF call.failed THEN Answer("deny") ELSE Guard("enforce")

GuardReadsScope ==
    /\ call.step = "scope"
    /\ LET owner == scope[call.run] IN
       IF owner = NoAgent THEN Guard("seed") ELSE UnderScope(owner)
    /\ UNCHANGED outsideGuard

GuardReadsSeed ==
    /\ call.step = "seed"
    /\ IF call.run \notin seed THEN Answer("pass")
       ELSE IF call.failed THEN Answer("deny") ELSE Guard("poll")
    /\ UNCHANGED outsideGuard

(* _poll_for_scope: reads until there is a scope or the deadline is over.  *)
GuardFindsScope ==
    /\ call.step = "poll"
    /\ scope[call.run] # NoAgent
    /\ UnderScope(scope[call.run])
    /\ UNCHANGED outsideGuard

(* Fault: a call whose scope does not come in time is let through.         *)
GuardGivesUp ==
    /\ call.step = "poll"
    /\ scope[call.run] = NoAgent
    /\ Answer("pass")
    /\ UNCHANGED outsideGuard

GuardTimesOut ==
    /\ call.step = "poll"
    /\ scope[call.run] = NoAgent
    /\ Answer("deny")
    /\ UNCHANGED outsideGuard

(* _enforce_active_scope.  A search without a path is refused.             *)
Verdicts == {"deny"} \cup {IF Rewritten(tool, p) = {} THEN "deny" ELSE "allow" :
                            tool \in Tools, p \in Paths}

GuardEnforces ==
    /\ call.step = "enforce"
    /\ \E verdict \in Verdicts : Answer(verdict)
    /\ UNCHANGED outsideGuard

(* An internal error: main asks _payload_requires_fail_closed, which reads *)
(* the files again.  (If that fails as well, the call is refused whatever  *)
(* the files say: this second error is left out.)                          *)
GuardFails == call.step # "idle" /\ ~call.failed /\ Begin(call.agent, TRUE)

----------------------------------------------------------------------------
Setting ==
    \/ \E r \in Runs : Prepare(r)
    \/ FindsNoSeed \/ FindsNoScope \/ Publish \/ WriteSeed \/ WriteScope
    \/ ClearStalePointer \/ DropSeed \/ DropScope \/ DropPointer
    \/ SetupEnds

Starting(a) ==
    \/ StartFindsRun(a) \/ StartReadsSeed(a) \/ StartFindsNoScope(a)
    \/ StartWritesScope(a) \/ StartUnlinksSeed(a) \/ StartDies(a)

Stopping(a) ==
    \/ StopFindsRun(a) \/ StopReadsScope(a) \/ StopKeepsTranscript(a)
    \/ StopReleases(a) \/ StopDies(a)

Guarding ==
    \/ \E a \in Agents : Call(a)
    \/ GuardReadsPointer \/ GuardReadsScope \/ GuardReadsSeed \/ GuardFindsScope
    \/ GuardTimesOut \/ GuardEnforces \/ GuardFails

Next ==
    \/ Setting \/ DayPasses \/ OtherSessionSweeps \/ Guarding
    \/ \E a \in Agents : Starting(a) \/ Stopping(a)

Spec == Init /\ [][Next]_vars

----------------------------------------------------------------------------
(* A run that was seeded and neither cleaned up nor swept since has its    *)
(* seed, its scope or a completion marker on disk at every moment, whatever*)
(* the hooks are doing and wherever one of them dies: the scope is written *)
(* before the seed is removed and the marker before the scope is, so that  *)
(* nobody takes the run for an abandoned or a failed one.  Excepted is a   *)
(* stop hook that could write neither marker.                              *)
SeededRunIsKnown == \A r \in guarded : Live(r) \/ r \in marks

(* The guard reads the scope and the seed of the run one after the other   *)
(* while the hooks and the set-up script change them.  Its answer is still *)
(* one that reading both at one moment of the call gives, or the run went  *)
(* from its seed to the agent's scope between the two reads.               *)
Justified(answer) ==
    /\ answer = "allow" => "scoped" \in could
    /\ answer = "deny" => could \cap {"scoped", "wait"} # {}
    /\ answer = "pass" => "pass" \in could \/ {"wait", "scoped"} \subseteq could

AnswerIsOfOneMoment ==
    [][call.run # NoRun /\ call'.answer # "none" => Justified(call'.answer)]_vars

(* What a call under a scope may search: the root that a search is sent to *)
(* contains what was asked for, is itself in scope, is not below another   *)
(* scope directory unless it is an anchor, and asking for it again gives   *)
(* it back; and what may be searched may be read.                          *)
RootsAreSound ==
    \A tool \in Tools, p \in Paths : \A root \in Rewritten(tool, p) :
        /\ Within(p, root) /\ InScope(p) /\ InScope(root)
        /\ Rewritten(tool, root) = {root}
        /\ tool # "Read" => root \in Anchors \/ RootsOf(root) = {root}

SearchIsInScope == call.step = "enforce" => RootsAreSound
============================================================================
