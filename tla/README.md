# codex-collaboration: TLA+ models, checks and proofs

The program is an MCP server, written in Python, through which Claude Code
talks to the Codex App Server: it asks for advice (consultations, dialogues)
and delegates work (a job that runs in a git worktree of its own, asks for
approvals on the way and is promoted into the user's workspace at the end).
The server keeps what it must not forget in JSON-lines files and rebuilds the
rest when it starts.

This directory holds TLA+ modules for the parts of it where order matters:
threads that meet in a registry, records that are written one at a time, a
process that may die between two of them. Every definition is translated from
the source; `PROJECT.json` maps each to its lines.

## The system

| Part | Code (`src/server/`) | State it keeps | Operations |
|---|---|---|---|
| Resolution registry | `resolution_registry.py` | in memory: one entry per parked request (state, resolution, event, timer), one capture-ready channel per job | `register`, `reserve`, `commit_signal`, `abort_reservation`, `wait`, `discard`, `signal_internal_abort`, timer; `open_capture_channel`, `announce_*`, `wait_for_parked` |
| Delegation controller | `delegation_controller.py`, `worker_runner.py` | none of its own; a worker thread per job | `start`, `poll`, `decide`, `promote`, `discard`, `recover_startup`; on the worker: the live turn, its request handler, its clean-ups, the finalizer |
| Job store | `delegation_job_store.py` | JSON lines: status, promotion state, parked request, artifacts | `create`, `update_*`, `list_active`, `list_user_attention_required` |
| Pending request store | `pending_request_store.py` | JSON lines: a record per App Server request, by wire id | `create`, `mark_resolved`, `record_*` |
| Runtime registry | `execution_runtime_registry.py` | in memory: live execution runtimes | `register`, `lookup`, `release` |
| Operation journal | `journal.py` | JSON lines: phases of an operation by idempotency key; audit events, outcomes, stale markers | `write_phase`, `list_unresolved`, `compact`, `append_*_once`, pruning |
| Lineage store | `lineage_store.py` | JSON lines: collaboration handles | `create`, `update_status`, `update_runtime` |
| Dialogue controller | `dialogue.py`, `turn_store.py` | turn metadata | `start`, `reply`, `read`, `recover_startup` |
| Control plane | `control_plane.py` | in memory: advisory runtimes | `codex_status`, `codex_consult`, runtime start, probe, invalidation |
| App Server session | `runtime.py`, `jsonrpc_client.py` | a child process, its message queues | threads, turns, `respond`, `interrupt_turn` |
| Replay | `replay.py` | | applies the lines of a store in order |
| Artifact store | `artifact_store.py` | files of the reviewed snapshot | materialize, load, reconstruct, regenerate |
| MCP server | `mcp_server.py` | | serves one call at a time |
| Containment | `containment.py`, `scripts/containment_*.py` | pointer, seed, scope and marker files shared by processes | set-up and clean-up, start hook, stop hook, guard, sweep |
| Text and input | context, prompts, profiles, credential scan, compatibility tables | none | pure functions |

How they meet:

- **Threads.** The MCP thread serves calls strictly one after the other. A job
  that is started gets a worker thread, which runs the whole turn and stays
  blocked in `ResolutionRegistry.wait()` while a request is parked. A
  `threading.Timer` per parked request decides it when nobody does. The MCP
  thread itself blocks once, in `start()`, until the worker announces how the
  turn began.
- **Shared state.** Worker, timers and MCP thread share the registry (under
  its locks), and the stores (JSON lines, appended without a lock and replayed
  at every read).
- **Order of records.** An operation is journaled as intent, dispatched,
  completed; what it changes is written in between. A crash may fall between
  any two writes; `recover_startup()` then reads what is there.
- **Hooks.** The containment scripts are processes of their own: one per hook,
  one per guarded call. They share a directory of small files and no lock.

### What is hard, and what must hold

- *Registry*: a slot is claimed by one decider only; a worker never wakes to
  an entry without a resolution; an operator's verdict is never visible before
  its intent is durable; a parked request is always finished by somebody.
- *Job*: one live job at a time although the gate reads three sources while
  another worker settles; stores and registry agree on which request may be
  decided; every failure path leaves the job terminal, the runtime released
  and `start()` told; nothing is left unresolved by recovery.
- *Promotion*: the workspace matches the promotion state across crashes;
  a diff that was applied is always covered by a journal record; nothing of
  the user's is lost by a rollback.
- *Dialogue*: a completed turn is recorded under its number, with one audit
  event and one outcome; the number a turn is given is the one it has in the
  remote thread; what is offered for the next reply can be read; recovery gets
  through and heals what the remote thread confirms.
- *Stores*: a reader sees one record after another applied; an interrupted
  append costs at most the write that follows it, and the loss is diagnosed;
  the logs that outlive a session have each event once.
- *Containment*: a seeded run always has a trace on disk; an answer of the
  guard is justified by the files at some moment of the call.

The list of hazards, with the line where each one bites and the property that
would show it, is in `PROJECT.json`.

## The modules

    RequestDecision          what a parked request promises (abstract)
         ^  refined by
    DecisionHandoff          worker, decide(), timers around the registry
         |  uses
    ResolutionRegistry       entries, events, timers, one action per critical section

    DelegationJob            a job from start() to its terminal status, with crashes

    Promotion                a completed job from review to promotion, with crashes

    Dialogue                 dialogues, their turns, repair and recovery

    SessionTable             what a file of JSON lines promises (abstract)
         ^  refined by
    SessionFiles             lines, replay, torn ends, once-only logs, pruning

    ContainmentScope         the files of a contained run and their processes

    DecisionHandoff_proofs, DelegationJob_proofs, Promotion_proofs,
    Dialogue_proofs, SessionTable_proofs, SessionFiles_proofs,
    ContainmentScope_proofs                                    theorems
    MCDecisionHandoff, MCContainmentScope                      constants for TLC

**ResolutionRegistry** has one operator per method of the class. `entries` are
the `_RegistryEntry` records with a *generation* that tells two registrations
of one id apart (the program has object identity for that), `event` the
`threading.Event` of each registration, `timer` where each `threading.Timer`
is in `_timer_fire()`. A method that holds the registry lock is one action;
`_timer_fire()`, which takes it three times, is a chain of four, and
`commit_signal()` sets the event after it has left the lock.

**DecisionHandoff** adds the worker that parks a request, waits and leaves, the
MCP thread in `decide()` and in the two places that abort, and the set of
durable intent records. Its abstract specification, **RequestDecision**, knows
only that a request is parked, decided once and delivered as decided.

**DelegationJob** models everything that keeps a record of a job. `store`,
`psr`, `creation`, `approval`, `outcome` and `lineage` are durable, as readers
of the files see them, and `torn` names the files that end in a partial line;
`runtime`, `registry`, `channel`, `worker` and `main` are lost in a crash. A
step writes one record. `lost` is a history variable: the jobs that miss a
record in a file since the server started while the program has gone on as if
it were there. The program counters of `worker[j]` and `main` follow the code:

| Steps | Code |
|---|---|
| `GateReads*` ... `Replies` | `start()`: busy gate in three reads, journal phases, bootstrap, registration, spawn, wait, reply |
| `BeginsTurn`, `*Arrives`, `Parks` ... `Discards` | `_execute_live_turn()`, `_handle_server_request()` and `_handle_timeout_wake()`, write by write |
| `Settles*` | `_mark_execution_unknown_and_cleanup()` and the inline cancel clean-up |
| `TurnEnds`, `Finalizes*` | `_finalize_turn()` |
| `Validates` ... `Commits` | `decide()` |
| `PollAborts`, `DiscardReads`, `DiscardWrites` | `poll()`, `discard()` |
| `Crash`, `Recovers*`, `Closes*` | `recover_startup()`, pass by pass and job by job |
| `WriteRaises`, `StartRaises`, `Cleans*`, `CallRaises`, `DecisionIntentRaises` | a store or journal write raises, and what the code does then |
| `WriteIsSwallowed`, `CleaningIsSwallowed`, `OutcomeIsSwallowed` | a best-effort write raises: the worker, `start()` or the recovery goes on without the record |

Choices made in it, and why they are sound:

- A decision (reserve, journal, commit) and the timer are atomic towards each
  other, because DecisionHandoff shows that the registry makes them so.
- A job id is fresh (uuid), so jobs are numbered in the order they start; the
  App Server numbers the requests of a runtime from the start, so a request of
  a second job replaces the record and finds the entries of an older one.
- Once the App Server has accepted an interrupt it ends the turn and sends no
  further request; the status it reports is arbitrary.
- `open_capture_channel()` and `spawn_worker()` are one step: only the MCP
  thread acts on the channel before the worker runs.
- Every append goes through one of two operators. `Appends` adds a record, or
  loses it when the file ends in a partial line, which that append completes
  and the replay skips (this is what SessionFiles says of one file).
  `AppendRaises` leaves nothing or a partial line. The interrupted step of a
  crash leaves nothing or a partial line, too.
- A write that raises is followed as the code does it. The writes of
  `_mark_execution_unknown_and_cleanup()`, every outcome record (also that of
  `recover_startup()`) and the clean-up of a failed `start()` swallow it and go
  on (`Swallows`): a job may so keep its old status after its runtime is gone
  and its worker has ended. The writes of the inline clean-up of a canceled
  job, and of the branch of a request that does not parse, do not. Of the
  recovery only the outcome record is swallowed; any other write that raises
  there keeps the server from starting, which is a crash.
- Left out: a write that raises after its whole line is in the file (except the
  intent of `decide()`, which is the case the code's comment is about), and the
  audit file, whose records nothing here reads. The crash audit events of the
  recovery are not modelled.
- `drain_workers()` (shutdown) is a crash at the end of the process; artifacts
  and promotion states beyond `pending` and `discarded` belong to Promotion.

**Promotion** takes up a job when DelegationJob leaves it: completed, promotion
`pending`. `promotion`, `attempt`, `journal`, `audited` and `review` (the
artifact files, `snapshot.json` and the hash in the job store, which `poll()`
writes one after the other) are durable; `call` is where the MCP thread is, in
a call or in recovery. `worktree` and `workspace` are the two trees. Content is
a version of the worktree; of the workspace the module knows which version of
the job's change it has, where a file added by the job is, and whether the user
has edited files the job changed, other tracked files, or checked out another
commit. The steps follow the lines of `promote()`, one write or git command
each; recovery uses the same steps for verification and roll-back, because
both code paths write the same things in the same order (recovery keeps the
attempt of the job record, which is the one the journal names). What needs a
word:

- How the diff of an added file is printed decides whether it can be verified,
  so `Section` models `_full_diff()` as git prints it: relative for a path the
  tree tracks, the absolute path given to `--no-index` otherwise.
- `git apply` is all or nothing. It fails if the user has changed the same
  files or the commit since the prechecks; the model may also let it apply
  then, since hunks may not overlap.
- The prechecks of HEAD, status and index are one step: the user cannot make a
  later one succeed that matters to an earlier one, except by a checkout in
  between, which has the same effect after the last of them.
- Any write or git command of `promote()` may raise (`PromoteRaises`); the call
  ends where it is, as the code has no handler. In recovery only the checkout
  has one (`RestoreFails`); anything else stops the start-up and is a crash.
- Not in the model: a user who stages edits, new directories (git lists the
  directory, so a file in a new one counts as unexpected), a deleted worktree
  or lineage record, the repair of a corrupt snapshot, audit events other than
  that of the roll-back, and the coherence callback, which only marks advisory
  context as stale.

**Dialogue** has the remote thread of each dialogue (`thread`: its completed
turns), what is durable (`journal`, `handle`, `turnFile`, `audits`, `outcomes`)
and what a process holds (`runtime`, `server`, `call`, `todo`, `reattach`).
A step is one remote call or one write. `reply()`, the repair after a failed
dispatch and the recovery share `_finalize_confirmed_turn()`, so they share
the four `Finalize*` steps and differ in `call.caller`, which says where to go
afterwards. The journal keeps the last record of each key in order of first
appearance, as its replay does. A prompt has a number that stands for its
context size and for the remote turn it becomes, so the size that is recorded
for a turn can be compared with the turn itself. What needs a word:

- `FaultKinds` chooses what can fail: the App Server (`runtime`: a call raises,
  a cached runtime fails its probe, a turn's result is lost although the turn
  completed), a write of the finalization (`artifact`), the dispatched record
  of the first turn (`first`) or of a later one (`later`), any other write
  (`record`), an orderly end that removes the session's stores (`exit`). With
  `torn` a crash, or a write of the finalization that raises, may leave the
  last line of the turn file without its end, and the next append of the same
  process or of the next one spoils it. This is only so for the turn file:
  journal, lineage, audit and outcome files are appended to in the same way,
  but are not torn here; SessionFiles has what that does to each of them.
- Reattaching writes `update_runtime` and `update_status` in one step: nothing
  reads the handle in between but a crash, after which it is reattached again.
- Left out: `resume_thread` returning another thread id, a turn that completes
  after the death of the server, a write of the quarantine that raises itself,
  a write that raises after its whole line is in the file, the recovery audit
  events, and the cache of `TurnStore` (after a write that raises, `get_all()`
  may answer from before it; here reads go to the file). An intent record that raises leaves what
  `OtherCall` leaves.

**SessionFiles** is about one file, chosen at the start; no two of them share
anything. `Ops` lists, for each store, the operations and the fields that each
sets; a record has a number, which stands for all the values it sets, so
`Replay(file)` tells for every field which record it comes from. An append that
is interrupted leaves nothing, part of its line, the whole line without its
end, or all of it, and the process may survive that (an exception) or end.
`unended` is the missing newline, which makes the next append continue the
line. **SessionTable** is the promise: a table, changed by one record at a
time, in which an interrupted write is in doubt and may cost the next one.
The audit and outcome logs have a memory of the keys they contain, are read at
the first append, and are pruned at start-up. Left out: files that are not
UTF-8 (they are moved aside), the checks of single values in a record, the
cache of `TurnStore`, which each write drops, the second log of
recovery audit events, which has the same protocol.

**ContainmentScope** has the files of one session (`pointer`, `seed`, `scope`,
`marks`) and the place of every process: `setup`, `starter[a]`, `stopper[a]`,
`call`. A step is one read or one write. A file is there or not, since all of
them are written by an atomic replacement. Choices made in it:

- The guard writes nothing that anybody reads, so one call at a time is as good
  as many. `could` gathers what a reader of both files would have said at each
  moment since the call read the pointer; `guarded` are the runs seeded and
  neither cleaned up nor swept since. Both are history variables.
- A delay that the smoke control asks for is an interleaving; a start hook that
  it turns off ends.
- A sweep is one step, and no script takes the day that makes its files old.
- Transcript copy and `done` marker are one step (`marks` stands for either
  marker). The clean-up is that of the run prepared last.
- A path is the sequence of its names after `realpath`. Corrupt files, files
  that cannot be removed, telemetry and a second error inside the fail-closed
  probe (which refuses) are left out.

## Runs

Bounds are the CONSTANTS of each `.cfg`.

| Run | Shows | Bounds |
|---|---|---|
| `handoff_safe` | type, exclusive reservation, wake-up with a resolution, verdict after its intent, the inductive invariant, refinement of RequestDecision, an end for every parked request whose timer is not spent on a failed decision | 2 requests, ids used twice, 1 intent write that fails, handlers may die |
| `handoff_lost_timer` | *violation*: with a failed intent write the timer is lost | 1 failing write |
| `delegation_job` | one live job, active jobs are served, stores and registry agree on the open request, recovery is complete | 2 jobs, 1 request each (the second job uses its id again), 1 crash, 1 raising or swallowed write, failing intents |
| `delegation_turn` | start() is told, the finalizer finds its answer, jobs terminate | 1 job, 2 requests, 1 crash, 2 raising or swallowed writes |
| `delegation_discard` | *violation*: a discarded job comes back | 1 job, 1 request |
| `delegation_queued` | *violation*: a crash leaves a queued job for good | 1 job, 1 crash |
| `promotion` | the promotion state tells what is in the workspace, an applied diff is journaled, the reviewed version is the applied one, roll-backs are audited, keys are fresh, recovery settles | 3 attempts, 2 crashes, 2 raising steps, 2 interferences of the user |
| `promotion_new_file` | *violation*: a job that adds a file is never verified | 1 attempt, nobody interferes |
| `promotion_edits` | *violation*: the roll-back takes the user's edits along | 1 attempt, 1 edit |
| `dialogue` | a completed turn is finalized once, an active dialogue can be read, turn numbers match the thread, recorded sizes are those of the turn, recovery finds a handle for every open turn and heals what is confirmed | 2 dialogues, 2 prompts, 2 ends of the server, 2 faults, each of kind runtime, artifact, later, record or torn |
| `session_files` | replay is last-wins, losses are diagnosed and bounded, logs have an event once, refinement of SessionTable | any of 6 files, 2 keys, 3 appends, 2 of them interrupted, 2 restarts |
| `containment` | a seeded run has a trace on disk, search roots are sound, an answer is justified by a moment of the call | 2 runs, 2 subagents, files grow old once, paths of 2 names and depth 3 |

Why the bounds suffice: two generations of one id are what a stale timer
needs, and two requests let one handler's leftovers meet the next; a second
job is what the busy gate and the re-used wire ids need, and the serial MCP
thread rules out more than two jobs in motion; the second raising write falls
into the clean-up after the first; one crash may fall anywhere,
also into the middle of recovery when a second is allowed (recovery passes are
idempotent, so the runs keep to one). A promotion needs two attempts for a key
to be used again and a third to see one closed in between; the second crash
falls into the recovery from the first, and two interferences let the user
change the worktree and the workspace. In a dialogue, two prompts let an
attempt at a turn be given up and its number be tried again, or a second turn
follow the first, the second end of the server falls into the recovery from
the first, and the second fault into the repair of the first; a second
dialogue is what shares the runtime and what recovery must still come to. Three appends are an
interrupted one, the one it costs and one that shows the gap; two restarts
prune a log between them. Two runs let one be prepared over the remains of the
other, and two subagents race for one scope.

**Fairness.** The threads of one process and its timers run (weak fairness of
each worker, of each timer, of a call that has begun, of recovery). Nobody has
to call the server, and nothing has to fail. The App Server ends its turn or
its process dies, which the worker sees as an exception: this is the fairness
of `WorkerStep` in state `turn`, with a bounded number of requests.
`JobTerminates` assumes that the intent writes of `decide()` succeed;
`handoff_lost_timer` shows that it must. It ends for a job a record of which is
missing from the job or request store, because such a job can indeed stay as
it is until the server is started again (see Findings), and it does not speak
of queued jobs, which `delegation_queued` covers. In a dialogue the call that is served goes on and a server that is
called again recovers (`Goes`), so `RecoveryHeals` says what recovery comes to
once nothing fails any more; a client that never calls again is not meant.
SessionFiles and ContainmentScope have safety properties only: nothing in the
code obliges a hook to run.

## Findings

Five places where the code does not do what its own comments or documents say
are recorded in `PROJECT.json` with the run that shows each: the timer lost to
a failed intent write; the discarded job that is resurrected by its worker
(the run finds it on a job settled while its turn goes on; a job that waits
for a decision loses the state in the same way, and the busy gate may read the
discarded state, let a new job start, and end with two jobs that need
attention); the queued job that recovery overlooks; the new file that fails
every verification (and, if the worktree did not track it, is created under
the worktree's path and left behind, although
`docs/specs/promotion-protocol.md` has "workspace restored to pre-promotion
state"); the roll-back of a live promotion that checks out the user's edits.

The models have more behaviours that a document describes differently and that
no run of its own shows:

- `_timer_fire()` looks its entry up by request id alone, so a timer that had
  fired when its entry was discarded decides the next registration of that id
  (`TimerLooksUp` in ResolutionRegistry); the docstring at
  `resolution_registry.py:486-487` calls a stale timer a no-op. The properties
  of `handoff_safe` hold in spite of it.
- An unknown request that follows an answered one in the same turn is not
  captured, and the finalizer (`delegation_controller.py:2632`) settles the job
  from the earlier one, where `docs/specs/recovery-and-journal.md:212` has it
  end as `unknown`.
- `docs/specs/contracts.md:122` says that a crash in an append leaves at most
  one incomplete line, which the reader discards. The append that comes next
  continues that line and is discarded with it: SessionTable states it so.
- With `first` among the `FaultKinds` of Dialogue, `TurnNumberIsNext`,
  `SizeIsOfTurnNumber`, `ActiveDialogueIsReadable` and
  `CompletedTurnIsFinalized` fail: `dialogue.py:492` is outside every `try`, so
  when the dispatched record of a first turn raises the handle stays active,
  the local store is empty, and the next reply is turn 1 again under the same
  journal key, which drops the open entry of the turn before it. (For a later
  turn the next reply does not trust the store, and quarantines the handle.)
- A dialogue may be active although a turn is missing from its local store:
  after a failed last record of its start, phase 1 of recovery binds the handle
  again, phase 2 leaves it out, and a record lost to a torn line in between is
  noticed by the next reply only. `ActiveDialogueIsReadable` names the case.
- With `exit` among them, `RecoverableEntries` fails, and with it all of those
  but `SizeIsOfTurnNumber`: an orderly end
  (`codex_runtime_bootstrap.py:255`) removes lineage and turns but keeps the
  journal, and an unresolved turn makes every later recovery of the same
  session raise (`dialogue.py:842`).
- A job can be left `running` or `needs_escalation` without a worker and
  without a runtime, until the next start-up: when the write that settles it
  raises and is swallowed (`delegation_controller.py:1493-1500`), or falls on
  the partial line of the write whose failure it cleans up after. Nothing
  decides such a job; one that was `needs_escalation` can be discarded, the
  next `start()` passes the gate, and the store then shows two active jobs.
  `start()` may also have been told that the turn ended. `ActiveJobIsServed`,
  `OneLiveJob`, `StartIsTold` and `JobTerminates` name the case by
  `lost["jobs"]`; without those conjuncts TLC finds it with one fault.
- When the record of a request is lost, the finalizer falls through to the
  derivation by kind (`:2651`) and leaves the job `needs_escalation` with its
  runtime and no worker: `decide()` finds no entry for it.
- An outcome record that raises is swallowed in the recovery as well (`:3386`),
  so a start-up may end without it; the next one makes up for it.
- The stale-context marker is not in the models. `codex_consult` consumes it,
  `dialogue.reply` does not, and a promotion that recovery finds verified
  writes none (`delegation_controller.py:3281`).

`RecoverySettles` is an action property about the end of recovery and not an
invariant, because `promote()` that raises after its prechecks leaves the job
`prechecks_passed` or `applied`, where neither `promote()` nor `discard()` is
accepted until the server is started again. A suspended recovery stays so: it
is tried again at each start.

## Proofs

`DecisionHandoff_proofs` proves, for any set of requests and any bounds,

- `TypeCorrect`: `Spec => []TypeOK`,
- `HandoffInvariant`: `Spec => []HandoffInv`,
- `ReservationExclusion`, `WakeSafety`, `VerdictJournaled`: the three safety
  invariants of `handoff_safe`,
- `OneDecision`: `Spec` implements `RequestDecision`.

The three invariants are not inductive. `HandoffInv` strengthens them with what
a critical section leaves behind when it is left half-way: who holds the
reservation of an entry (`decide()` at its reserved step, or the one timer of
that registration between its two sections), that an event is set only for an
entry that is decided or aborted, that entries carry the generation their
worker waits for and no registration ahead of the counter exists, and that the
intent of a decision that has been written and not yet committed is in the
journal. The proof has one step per action and, under it, one per conjunct;
facts that several actions need (what each method may change of an entry) are
lemmas. The refinement follows from the invariant: every action maps to one
abstract step or to none, since a reserved entry is still undecided in the
abstract.

`DelegationJob_proofs` proves, for any number of jobs, requests, crashes and
writes that raise, leave a partial line or are swallowed,

- `TypeCorrect`: `Spec => []TypeOK`,
- `DelegationInvariant`: `Spec => []DelegationInv`,
- `OneJobLives`, `ActiveJobsServed`, `OpenRequestsParked`, `FinalizerAnswered`,
  `StartTold`: the five safety invariants of `delegation_job` and
  `delegation_turn`,
- `RecoveryCompletes`: the action property of recovery.

Two threads write the records of a job in turns, and each of the properties
relates several of these records, so none is inductive. `DelegationInv` has
three parts.

`JobInv` is about jobs. `OneClaim`: a `start()` that is past the busy gate
counts as live already, and with it at most one job is. `GateInv` is why: the
gate reads the job store, the runtimes and the journal one after the other, and
what it has read stays true until it reads the next, because the worker that
moves meanwhile makes no job new or queued and takes no runtime. `FreshJobs`
and `Unpromoted` say in which order a new job gets its records, `StartInv` what
each step of `start()` has established, and `WorkersIn` which statuses a job
may have and whether its runtime is there at each step of its worker;
`ServedInv` has the jobs without a worker, and `RecoveryInv` says that what a
pass of recovery has closed stays closed.

`TurnInv` is about requests. `HandlersInv`: the request a handler works on is
the one captured last, belongs to the worker's job and has the status of the
write it has come to; `DecideInv`: a reservation of `decide()` is kept until it
is committed or released. `OpenRequestIsParked` and `FinalizerFindsAnswer` are
inductive together with these.

`ToldInv` is about the channel: either its outcome is there, or the worker is
still before the step that announces one, and a clean-up never announces a
request as parked.

What any of them says about a store it says of the jobs that miss no record
there (`lost`): a record that was swallowed or fell on a partial line leaves
the older one in force, and only the table of runtimes, the registry and the
threads are always as the steps left them. That is also how far the theorems
go. `OneClaim` needs a little more, since the gate reads the job store whether
or not it is up to date: a job may be overlooked by the gate only if it was
discarded, and then, if it has no runtime, nothing but a missing record can
leave it active.

There is one lemma per part for the steps of the workers, of the main thread,
of timers, and of crash and recovery.

`Promotion_proofs` proves, for any number of attempts, crashes, faults and
edits,

- `TypeCorrect`: `Spec => []TypeOK`,
- `PromotionInvariant`: `Spec => []PromotionInv`,
- `MutationJournaled`, `StateTruth`, `ReviewedApplied`, `RollbackAudited`: the
  safety invariants of `promotion`,
- `FreshKeys`, `RecoverySettled`: its two action properties.

None of the properties is inductive: each speaks of the moment between calls,
and a crash may fall into any step of one. `PromotionInv` has five parts.
`ReviewInv` says in which order `poll()` writes; `JournalInv` that a dispatched
attempt is the last and that closed attempts come before open ones and have
been counted; `CallInv` what each step of a call, or of recovery, has
established so far; `StateInv` how promotion state, workspace and journal
belong together whatever the step; `RecoveryInv` which records recovery has
still before it. `FreshKeys` needs `JournalInv`, because an intent record that
a failed write leaves behind makes recovery count back to its attempt, which
is safe only as no later attempt is closed by then. `RecoverySettled` needs
`RecoveryInv`. One lemma per part has one step per action.

`SessionTable_proofs` proves `LossBound`: `Spec => []LossIsBounded`, for any
kinds of tables, updates and numbers of records. `LossIsBounded` is not
inductive: an interruption that leaves an unfinished end has not been paid for
yet. `LossInv` counts it (`lost + Owed <= interrupted`), with the types of the
three counters. The files of SessionFiles implement that table, see below.

`Dialogue_proofs` proves, for any dialogues, prompts, crashes and faults,

- `TypeCorrect`: `Spec => []TypeOK`,
- `EntriesRecoverable`: `Spec => []RecoverableEntries`, if `exit` is not among
  the `FaultKinds`,
- `DialogueInvariant`, `TurnsFinalized`, `TurnsNumbered`, `DialoguesReadable`,
  `SizesOfTurns`: the invariant and the four safety properties of the turns, if
  neither `exit` nor `first` is (the sizes do not need the first of these
  hypotheses in any run, but their proof rests on the invariant, which does).

The two hypotheses are stated in the theorems and are needed: see under
Findings what TLC finds with these kinds of faults. `TypeInv`
is more than the types. A runtime is numbered when it is made, so its type
needs that every lost one cost a crash or a fault (`CounterShapes`); no key has
two entries (`JournalShape`); recovery works on the first entry it has left
(`CallIsServed`). `HandleInv` says when a dialogue has a handle: not before its
thread is in the journal, and from then on whatever the call under way is
about; a dialogue without one has an empty thread. The turns need four parts.
`EntryInv` keeps the entry of the turn under way in the journal until it is
closed; `NumberInv` says that what runs is the next turn of its thread and what
has run is the one its entry names; `FinalInv` what a finalizer has written
before each of its steps; `DebtInv` that a turn of an active dialogue is in the
local store, or the store shows a damaged line, or somebody will find out: the
call under way, the next reply, or the recovery. `DialoguesReadable` follows
from the last. `SizesOfTurns` needs `SizeInv` on top of them: a turn that was
begun once has the size of its own prompt in its open entry and in its line of
the local store, and the store knows only turns of the thread, so that a new
turn finds no line there. As before, there is one lemma per part and one step
per action.

`ContainmentScope_proofs` proves, for any runs, agents, paths and ages,

- `TypeCorrect`: `Spec => []TypeOK`,
- `ContainmentInvariant`: the inductive invariant,
- `RunsAreKnown`: `Spec => []SeededRunIsKnown`,
- `AnswersOfOneMoment`: `Spec => AnswerIsOfOneMoment`,
- `SearchesInScope`: `Spec => []SearchIsInScope`.

A script checks a file and acts on what it saw later, so the invariant carries
what it may still assume. `RunsAreNamed` says which run a script is about;
`FreshInv` that a run which the setup has not seeded yet has no files and no
hook at work on it; `HooksKeepRunsKnown` that the start hook removes the seed
only of a run that has its scope or its marks, and the stop hook releases only
a marked one. With them `SeededRunIsKnown` is inductive. `GuardInv` says which
answers a guard's call has seen justified at each of its steps, including the
one the files justify now: the guard read the scope before the seed, and the
start hook writes the one before it removes the other. `SearchesInScope` is not
about the steps but about `select_scope_root()`: of the scope directories that
contain a path the shallowest is in scope itself and lies in no other one.

`SessionFiles_proofs` proves, for any ids and any numbers of appends, torn
appends and restarts,

- `TypeCorrect`: `Spec => []TypeOK`,
- `FilesInvariant`: `Spec => []FilesInv`,
- `LastRecordsWin`: `Spec => []ReplayIsLastWins`,
- `EventsLoggedOnce`, `LossesAreBounded`, `LossesAreReported`: the other safety
  invariants of `session_files`,
- `FilesImplementTable`: `Spec => ImplementsTable`, step by step.

What a reader makes of a file is computed line by line (`Tables`), and so is the
file that the pruning leaves (`Pruned`). What these compute is proved for every
file by the least counterexample: the numbers of the lines at which a claim
fails are a set, and a set of natural numbers has a least element
(`LeastNumber`, from the library's theorem about well-founded relations), before
which the claim still holds. From this come the lemmas that an append is one
more step of the replay, that a spoiled last line is none, and that the pruning
keeps the readable records that are young, in their order. `FilesInv` says that
the records of a file are of its store and have been written (`RecordsInv`),
that a process that has read a log knows every key in it that the next append
will not spoil and that no key has two records (`LogInv`), that an unfinished
end is not of an acknowledged record (`EndInv`), that each loss is paid for by an interruption (`LossInv`),
and that in the stores a lost record has left a broken line before every record
written after it (`WarnInv`).

Assumptions: `HandoffAssumption`, the registry's constants, `JobAssumption`,
`PromotionAssumption`, `DialogueAssumption`, `SessionFilesAssumption` and
`ContainmentAssumption` only (bounds are natural numbers, flags Boolean, the
values that stand for no run and no agent are none, paths are sequences);
SessionTable has none.

Only model-checked is liveness (`JobTerminates`, `RecoveryHeals` and the end of
every parked request): fairness is out of the prover's reach. Every invariant
and action property that a passing run checks is a theorem, and so are the two
refinements; those of Dialogue, but for its types, under the hypotheses named
above. No module declares a RECURSIVE operator.

## Not modelled

- Pure text and tables without state: prompts, context, profiles, credential
  patterns, compatibility tables, the parsing of turns.
- The framing of JSON-RPC and the threads of the client that read it.
- The stale-context marker and the consultation, which keeps nothing else.
- `Journal.compact()`, which nothing calls; `drain_workers()`, which is a crash
  at the end of the process; artifacts of a job that is not completed.
- The hook scripts that only filter their input, and the second session that
  the containment files could be shared with, but for its sweep.

## Plan

1. **AdvisoryContext**: the stale-context marker between promotion,
   consultation and dialogue.
2. An abstract job life cycle refined by DelegationJob, with Promotion as its
   last stage.
