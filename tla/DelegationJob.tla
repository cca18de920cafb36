--------------------------- MODULE DelegationJob ---------------------------
(***************************************************************************)
(* The life of a delegation job, from start() to its terminal status, over *)
(* everything that keeps a record of it:                                   *)
(*   - durable: the job store, the pending-request store, the operation    *)
(*     journal (job_creation and approval_resolution), the lineage handle, *)
(*     the terminal outcome record;                                        *)
(*   - volatile: the table of live runtimes, the ResolutionRegistry with   *)
(*     its capture-ready channels, the worker threads and the main thread. *)
(* A step writes one record, so that a crash may fall between any two, and *)
(* the threads interleave between them.  An append that raises or that a   *)
(* crash interrupts may leave a part of its line, and the next record of   *)
(* the file is lost with it (SessionFiles); a best-effort write that       *)
(* raises is swallowed and the program goes on.                            *)
(* The per-request channel appears here as one state with atomic           *)
(* decisions; DecisionHandoff checks that the real one, with its locks,    *)
(* events and timers, behaves that way.                                    *)
(*                                                                         *)
(* Code: src/server/delegation_controller.py, worker_runner.py,            *)
(* delegation_job_store.py, pending_request_store.py and the capture       *)
(* channel of resolution_registry.py.                                      *)
(***************************************************************************)
EXTENDS Naturals, FiniteSets

CONSTANTS MaxJobs,         \* bound: jobs started
          MaxRequests,     \* bound: server requests of one runtime
          MaxCrashes,      \* bound: crashes of the server process
          MaxFaults,       \* bound: local writes that raise
          IntentMayFail    \* can the intent write of decide() raise?

ASSUME JobAssumption ==
    /\ MaxJobs \in Nat \ {0}
    /\ MaxRequests \in Nat
    /\ MaxCrashes \in Nat
    /\ MaxFaults \in Nat
    /\ IntentMayFail \in BOOLEAN

VARIABLES
    store,     \* DelegationJobStore, replayed
    psr,       \* PendingRequestStore, replayed, by wire id
    creation,  \* last journal phase of job_creation, by job
    approval,  \* last journal phase of approval_resolution, by job and id
    outcome,   \* the delegation_terminal outcome record of a job
    lineage,   \* status of the job's CollaborationHandle
    torn,      \* the files that end in a partial line
    lost,      \* history: jobs with a record missing from a file since the
               \* server started, with the program going on without it
    runtime,   \* ExecutionRuntimeRegistry: is the job's runtime in it?
    registry,  \* ResolutionRegistry._entries, by wire id
    channel,   \* ResolutionRegistry._capture_channels, by job
    worker,    \* the worker thread of a job
    main,      \* the MCP server's only request thread
    crashes, faults

files    == <<torn, lost>>
durable  == <<store, psr, creation, approval, outcome, lineage, files>>
volatile == <<runtime, registry, channel, worker, main>>
counters == <<crashes, faults>>
vars     == <<durable, volatile, counters>>

Jobs     == 1..MaxJobs
Requests == 1..MaxRequests  \* a runtime numbers its requests from the start

Active   == {"queued", "running", "needs_escalation"}
Terminal == {"completed", "failed", "canceled", "unknown"}
Phases   == {"none", "intent", "dispatched", "completed"}
Files    == {"jobs", "requests", "journal", "lineage", "outcomes"}

JobRecord ==
    [status    : Active \cup Terminal \cup {"absent"},
     promotion : {"none", "pending", "discarded"},
     parked    : Requests \cup {0}]

RequestRecord ==
    [status : {"absent", "pending", "resolved", "canceled"},
     job    : Jobs \cup {0}]

(* Approval and denial differ in the payload, and are handled alike.       *)
Verdicts == {"operator", "timeout", "abort", "none"}

RegistryEntry ==
    [state   : {"absent", "awaiting", "reserved", "decided"},
     verdict : Verdicts,
     armed   : BOOLEAN]                        \* is the timer still to fire?

NoEntry == [state |-> "absent", verdict |-> "none", armed |-> FALSE]

(* _CaptureReadyChannel: closed, open without an outcome, or resolved.     *)
Outcomes == {"parked", "terminal", "empty", "failed"}
Channel  == [state : Outcomes \cup {"closed", "open"},
             request : Requests \cup {0}]

Closed == [state |-> "closed", request |-> 0]

(***************************************************************************)
(* A worker: where it is in its turn, its handler or its clean-up; the     *)
(* request it is handling (the last its runtime made), how it was decided  *)
(* and whether the App Server took the answer or the interrupt; the        *)
(* _ServerRequestHandlerState of the turn; and how the clean-up ends.      *)
(***************************************************************************)
HandlerSteps == {"parking", "escalating", "registering", "announcing",
                 "waiting", "intending", "resuming", "dispatching",
                 "responding", "recording", "unparking", "completing",
                 "discarding"}
SettleSteps  == {"settling", "settle_outcome", "settle_lineage",
                 "settle_release", "settle_announce"}
FinalSteps   == {"finalizing", "final_escalation", "final_lineage",
                 "final_release", "final_outcome"}
WorkerSteps  == {"none", "spawned", "turn", "interrupting", "interrupted",
                 "finished"} \cup HandlerSteps \cup SettleSteps \cup FinalSteps

(* Approvals that can be answered with "cancel", user-input requests that  *)
(* cannot, requests that do not parse, requests of an unknown kind.        *)
ParkableKinds == {"cancelable", "input"}
UnknownKinds  == {"unparsable", "foreign"}

Worker ==
    [pc       : WorkerSteps,
     request  : Requests \cup {0},
     kind     : ParkableKinds \cup UnknownKinds,
     verdict  : Verdicts,
     accepted : BOOLEAN,
     captured : Requests \cup {0},         \* captured_request
     blank    : BOOLEAN,                   \* captured_request_parse_failed
     unknown  : BOOLEAN,                   \* interrupted_by_unknown
     final    : Terminal \cup {"needs_escalation"},  \* how the job ends
     announce : Outcomes]                  \* what is announced afterwards

NoWorker ==
    [pc |-> "none", request |-> 0, kind |-> "foreign", verdict |-> "none",
     accepted |-> FALSE, captured |-> 0, blank |-> FALSE, unknown |-> FALSE,
     final |-> "unknown", announce |-> "empty"]

MainSteps == {"idle", "gate_runtimes", "gate_journal", "bootstrapping",
              "bootstrapped", "registering", "lineage", "queueing",
              "completing", "spawning", "waiting", "replying",
              "cleaning_handle", "cleaning_job",
              "deciding", "reserved", "intended", "discarding",
              "recover_creation", "recover_created_job", "recover_closing",
              "recover_approval", "recover_orphans", "recover_orphan_handle",
              "recover_outcomes", "recover_canceled"}

Main == [pc : MainSteps, job : Jobs, request : Requests \cup {0}]

MainIdle == [pc |-> "idle", job |-> 1, request |-> 0]

(* The steps of a worker that append to a file.                            *)
WorkerWrites ==
    [jobs     |-> {"spawned", "parking", "escalating", "resuming",
                   "unparking", "settling", "finalizing"},
     requests |-> {"turn", "interrupted", "recording"},
     journal  |-> {"intending", "dispatching", "completing"},
     lineage  |-> {"settle_lineage", "final_lineage"},
     outcomes |-> {"settle_outcome", "final_outcome"}]

TypeOK ==
    /\ store    \in [Jobs -> JobRecord]
    /\ psr      \in [Requests -> RequestRecord]
    /\ creation \in [Jobs -> Phases \cup {"lost"}]
    /\ approval \in [Jobs -> [Requests -> Phases]]
    /\ outcome  \in [Jobs -> Terminal \cup {"none", "lost"}]
    /\ lineage  \in [Jobs -> {"none", "active", "completed", "unknown"}]
    /\ torn     \in SUBSET Files
    /\ lost     \in [Files -> SUBSET Jobs]
    /\ runtime  \in [Jobs -> BOOLEAN]
    /\ registry \in [Requests -> RegistryEntry]
    /\ channel  \in [Jobs -> Channel]
    /\ worker   \in [Jobs -> Worker]
    /\ main     \in Main
    /\ crashes  \in 0..MaxCrashes
    /\ faults   \in 0..MaxFaults

Init ==
    /\ store = [j \in Jobs |->
                  [status |-> "absent", promotion |-> "none", parked |-> 0]]
    /\ psr = [r \in Requests |-> [status |-> "absent", job |-> 0]]
    /\ creation = [j \in Jobs |-> "none"]
    /\ approval = [j \in Jobs |-> [r \in Requests |-> "none"]]
    /\ outcome = [j \in Jobs |-> "none"]
    /\ lineage = [j \in Jobs |-> "none"]
    /\ torn = {}
    /\ lost = [f \in Files |-> {}]
    /\ runtime = [j \in Jobs |-> FALSE]
    /\ registry = [r \in Requests |-> NoEntry]
    /\ channel = [j \in Jobs |-> Closed]
    /\ worker = [j \in Jobs |-> NoWorker]
    /\ main = MainIdle
    /\ crashes = 0
    /\ faults = 0

----------------------------------------------------------------------------
(* The stores.                                                             *)

(* One record about job j is appended to file f.  After a partial line it  *)
(* is part of that line, which replay() skips.                             *)
Appends(f, j) ==
    /\ torn' = torn \ {f}
    /\ lost' = IF f \in torn THEN [lost EXCEPT ![f] = @ \cup {j}] ELSE lost

(* The append raises: nothing of the record is in the file, or a part.     *)
AppendRaises(f) == torn' \in {torn, torn \cup {f}}

(* It raises in a best-effort block, which goes on without the record.     *)
Swallows(f, j) ==
    /\ AppendRaises(f)
    /\ lost' = [lost EXCEPT ![f] = @ \cup {j}]

(* An update of a job or a handle that is not in its store is skipped by   *)
(* the replay.                                                             *)
PutJob(j, record) ==
    /\ store' = IF "jobs" \in torn \/ store[j].status = "absent"
                  THEN store ELSE [store EXCEPT ![j] = record]
    /\ Appends("jobs", j)

PutHandle(j, status) ==
    /\ lineage' = IF "lineage" \in torn \/ lineage[j] = "none"
                    THEN lineage ELSE [lineage EXCEPT ![j] = status]
    /\ Appends("lineage", j)

PutRequest(j, r, record) ==
    /\ psr' = IF "requests" \in torn THEN psr ELSE [psr EXCEPT ![r] = record]
    /\ Appends("requests", j)

(* A job whose intent record is lost is not in the journal, but its id is  *)
(* used.                                                                   *)
WritesCreation(j, phase) ==
    /\ creation' = [creation EXCEPT ![j] =
                       IF "journal" \notin torn THEN phase
                       ELSE IF @ = "none" THEN "lost" ELSE @]
    /\ Appends("journal", j)

WritesApproval(j, r, phase) ==
    /\ approval' = IF "journal" \in torn
                     THEN approval ELSE [approval EXCEPT ![j][r] = phase]
    /\ Appends("journal", j)

(* Fault: the status is written where the promotion state belongs.         *)
TransitionTwice(j, status) ==
    PutJob(j, [store[j] EXCEPT !.status = status,
                               !.promotion = IF status = "completed"
                                               THEN status ELSE "none"])

(* update_status_and_promotion() as _persist_job_transition() calls it: a  *)
(* completed job becomes promotable, any other loses its promotion state.  *)
Transition(j, status) ==
    PutJob(j, [store[j] EXCEPT !.status = status,
                               !.promotion = IF status = "completed"
                                               THEN "pending" ELSE "none"])

(* append_delegation_outcome_once(), of the status found in the store.     *)
(* After a lost line the key is in memory and not in the file.             *)
OutcomeDue(j) == store[j].status \in Terminal /\ outcome[j] = "none"

EmitOutcome(j) ==
    IF OutcomeDue(j)
      THEN /\ outcome' = [outcome EXCEPT ![j] =
                 IF "outcomes" \in torn THEN "lost" ELSE store[j].status]
           /\ Appends("outcomes", j)
      ELSE UNCHANGED <<outcome, files>>

(* list_user_attention_required(); completed without a promotion state is  *)
(* taken for a corrupt record.                                             *)
NeedsAttention(j) ==
    /\ store[j].status # "absent"
    /\ store[j].promotion # "discarded"
    /\ ~ (store[j].status = "completed" /\ store[j].promotion = "none")

Unresolved(phase) == phase \in {"intent", "dispatched"}

(* _project_pending_escalation() gives a view.                             *)
Projects(j) ==
    /\ store[j].status \notin Terminal
    /\ store[j].parked # 0
    /\ psr[store[j].parked].status = "pending"

----------------------------------------------------------------------------
(* The capture-ready channel and the per-request channel.                  *)

(* _deliver_capture_outcome(): only the first announcement counts, and     *)
(* none does when no channel is open.                                      *)
Announce(j, what, r) ==
    channel' = IF channel[j].state = "open"
                 THEN [channel EXCEPT ![j] = [state |-> what, request |-> r]]
                 ELSE channel

(* signal_internal_abort()                                                 *)
Abort(r) ==
    registry' = IF registry[r].state = "awaiting"
                  THEN [registry EXCEPT ![r] =
                         [state |-> "decided", verdict |-> "abort",
                          armed |-> FALSE]]
                  ELSE registry

(* The timer fires: it decides an awaiting entry, and is spent in any      *)
(* case.  discard() and commit_signal() disarm it.                         *)
TimerFires(r) ==
    /\ registry[r].armed
    /\ registry' = [registry EXCEPT ![r] =
          IF @.state = "awaiting"
            THEN [state |-> "decided", verdict |-> "timeout", armed |-> FALSE]
            ELSE [@ EXCEPT !.armed = FALSE]]
    /\ UNCHANGED <<durable, runtime, channel, worker, main, counters>>

----------------------------------------------------------------------------
(* The worker: the turn and the App Server's requests.                     *)

(* The status turn/completed carries.                                      *)
TurnResults == {"completed", "interrupted", "failed"}

At(j, pc)  == worker[j].pc = pc
GoTo(j, pc) == worker' = [worker EXCEPT ![j].pc = pc]

(* The turn is over, and its state gone: what is left is how it ends.      *)
Ends(j, pc, final, announce) ==
    worker' = [worker EXCEPT
        ![j] = [NoWorker EXCEPT !.pc = pc, !.final = final,
                                !.announce = announce]]

(* An exception leaves the turn or the finalizer: the job is settled as    *)
(* unknown and the runner announces a failure.                             *)
Fails(j) == Ends(j, "settling", "unknown", "failed")

(* _persist_job_transition(), which asserts that the job is in the store.  *)
Persists(j, status, pc) ==
    /\ Transition(j, status)
    /\ IF store[j].status = "absent" THEN Fails(j) ELSE GoTo(j, pc)

(* _execute_live_turn(): the first write, then turn/start.                 *)
BeginsTurn(j) ==
    /\ At(j, "spawned")
    /\ Transition(j, "running")
    /\ GoTo(j, "turn")
    /\ UNCHANGED <<psr, creation, approval, outcome, lineage, runtime,
                   registry, channel, main, counters>>

(* Fault: a record of the same wire id is not replaced.                    *)
ParkableArrivesAgain(j, kind) ==
    LET r == worker[j].request + 1 IN
    /\ At(j, "turn")
    /\ r \in Requests
    /\ IF psr[r].status = "absent"
         THEN PutRequest(j, r, [status |-> "pending", job |-> j])
         ELSE UNCHANGED <<psr, files>>
    /\ worker' = [worker EXCEPT
          ![j] = [@ EXCEPT !.pc = "parking", !.request = r, !.kind = kind,
                           !.captured = r]]
    /\ UNCHANGED <<store, creation, approval, outcome, lineage, runtime,
                   registry, channel, main, counters>>

(* _handle_server_request(), parkable: the record is created, over an      *)
(* older one of the same wire id, and the request captured.                *)
ParkableArrives(j, kind) ==
    LET r == worker[j].request + 1 IN
    /\ At(j, "turn")
    /\ r \in Requests
    /\ PutRequest(j, r, [status |-> "pending", job |-> j])
    /\ worker' = [worker EXCEPT
          ![j] = [@ EXCEPT !.pc = "parking", !.request = r, !.kind = kind,
                           !.captured = r]]
    /\ UNCHANGED <<store, creation, approval, outcome, lineage, runtime,
                   registry, channel, main, counters>>

(* A request that cannot be parked is recorded and captured only if it is  *)
(* the first of its turn.                                                  *)
UnknownArrives(j, kind) ==
    LET r     == worker[j].request + 1
        first == worker[j].captured = 0 IN
    /\ At(j, "turn")
    /\ r \in Requests
    /\ IF first
         THEN PutRequest(j, r, [status |-> "pending", job |-> j])
         ELSE UNCHANGED <<psr, files>>
    /\ worker' = [worker EXCEPT
          ![j] = [@ EXCEPT !.pc = "interrupting", !.request = r,
                           !.kind = kind, !.unknown = TRUE,
                           !.captured = IF first THEN r ELSE worker[j].captured,
                           !.blank = worker[j].blank
                                       \/ (first /\ kind = "unparsable")]]
    /\ UNCHANGED <<store, creation, approval, outcome, lineage, runtime,
                   registry, channel, main, counters>>

(* turn/interrupt works.  For a request that did not parse the job is      *)
(* settled as unknown at once, with the turn still to end; the other kind  *)
(* leaves that to the finalizer.                                           *)
Interrupts(j) ==
    /\ At(j, "interrupting")
    /\ worker' = [worker EXCEPT
          ![j] = IF @.kind = "unparsable"
                   THEN [@ EXCEPT !.pc = "settling", !.final = "unknown",
                                  !.announce = "terminal"]
                   ELSE [@ EXCEPT !.pc = "interrupted"]]
    /\ UNCHANGED <<durable, runtime, registry, channel, main, counters>>

(* The interrupt fails, or the transport does.                             *)
TurnRaises(j) ==
    /\ worker[j].pc \in {"turn", "interrupting", "interrupted"}
    /\ Fails(j)
    /\ UNCHANGED <<durable, runtime, registry, channel, main, counters>>

----------------------------------------------------------------------------
(* The worker: parking a request, and handling its decision.               *)

Parks(j) ==
    /\ At(j, "parking")
    /\ PutJob(j, [store[j] EXCEPT !.parked = worker[j].request])
    /\ GoTo(j, "escalating")
    /\ UNCHANGED <<psr, creation, approval, outcome, lineage, runtime,
                   registry, channel, main, counters>>

Escalates(j) ==
    /\ At(j, "escalating")
    /\ Persists(j, "needs_escalation", "registering")
    /\ UNCHANGED <<psr, creation, approval, outcome, lineage, runtime,
                   registry, channel, main, counters>>

(* Fault: the timer is made but not started.                               *)
RegistersUnarmed(j) ==
    LET r == worker[j].request IN
    /\ At(j, "registering")
    /\ registry[r].state = "absent"
    /\ registry' = [registry EXCEPT ![r] =
          [state |-> "awaiting", verdict |-> "none", armed |-> FALSE]]
    /\ GoTo(j, "announcing")
    /\ UNCHANGED <<durable, runtime, channel, main, counters>>

(* register() raises for an id that is still registered, which settles the *)
(* job as unknown.                                                         *)
Registers(j) ==
    LET r == worker[j].request IN
    /\ At(j, "registering")
    /\ IF registry[r].state = "absent"
         THEN /\ registry' = [registry EXCEPT ![r] =
                    [state |-> "awaiting", verdict |-> "none",
                     armed |-> TRUE]]
              /\ GoTo(j, "announcing")
         ELSE /\ Fails(j)
              /\ UNCHANGED registry
    /\ UNCHANGED <<durable, runtime, channel, main, counters>>

AnnouncesPark(j) ==
    /\ At(j, "announcing")
    /\ Announce(j, "parked", worker[j].request)
    /\ GoTo(j, "waiting")
    /\ UNCHANGED <<durable, runtime, registry, main, counters>>

(* wait() returns.  An operator's decision has its intent record already.  *)
Wakes(j) ==
    LET entry == registry[worker[j].request] IN
    /\ At(j, "waiting")
    /\ entry.state = "decided"
    /\ worker' = [worker EXCEPT
          ![j] = [@ EXCEPT !.verdict = entry.verdict,
                           !.pc = IF entry.verdict = "operator"
                                    THEN "resuming" ELSE "intending"]]
    /\ UNCHANGED <<durable, runtime, registry, channel, main, counters>>

WritesPhase(j, phase) == WritesApproval(j, worker[j].request, phase)

(* The intent record of a timeout or an abort, with no decision in it.     *)
WritesIntent(j) ==
    /\ At(j, "intending")
    /\ WritesPhase(j, "intent")
    /\ GoTo(j, IF worker[j].verdict = "abort" THEN "dispatching"
                                              ELSE "resuming")
    /\ UNCHANGED <<store, psr, creation, outcome, lineage, runtime, registry,
                   channel, main, counters>>

Resumes(j) ==
    /\ At(j, "resuming")
    /\ Transition(j, "running")
    /\ GoTo(j, "dispatching")
    /\ UNCHANGED <<psr, creation, approval, outcome, lineage, runtime,
                   registry, channel, main, counters>>

WritesDispatched(j) ==
    /\ At(j, "dispatching")
    /\ WritesPhase(j, "dispatched")
    /\ GoTo(j, IF worker[j].verdict = "abort" THEN "recording"
                                              ELSE "responding")
    /\ UNCHANGED <<store, psr, creation, outcome, lineage, runtime, registry,
                   channel, main, counters>>

(* session.respond(), or interrupt_turn() for a user-input request that    *)
(* timed out: it works or it raises.                                       *)
Responds(j, works) ==
    /\ At(j, "responding")
    /\ worker' = [worker EXCEPT ![j] = [@ EXCEPT !.pc = "recording",
                                                 !.accepted = works]]
    /\ UNCHANGED <<durable, runtime, registry, channel, main, counters>>

(* The records of a decision: one if it was not delivered, and two if it   *)
(* was, the second of which changes the status.  A record about a request  *)
(* that is not in the store is skipped by the replay.                      *)
Delivered(w) == w.verdict = "operator" /\ w.accepted

MarkRequest(r, status) ==
    psr' = IF psr[r].status = "absent"
             THEN psr ELSE [psr EXCEPT ![r].status = status]

(* Fault: a decision that was delivered is recorded and not resolved.      *)
RecordsDispatch(j) ==
    LET r == worker[j].request IN
    /\ At(j, "recording")
    /\ IF Delivered(worker[j])
         THEN /\ torn' = torn \ {"requests"}
              /\ UNCHANGED <<psr, lost>>
         ELSE /\ IF "requests" \in torn
                   THEN UNCHANGED psr ELSE MarkRequest(r, "canceled")
              /\ Appends("requests", j)
    /\ GoTo(j, "unparking")
    /\ UNCHANGED <<store, creation, approval, outcome, lineage, runtime,
                   registry, channel, main, counters>>

(* record_response_dispatch() and mark_resolved() for a decision that was  *)
(* delivered; record_timeout(), record_dispatch_failure() and              *)
(* record_internal_abort() cancel.                                         *)
RecordsAnswer(j) ==
    LET r == worker[j].request IN
    /\ At(j, "recording")
    /\ IF Delivered(worker[j])
         THEN /\ MarkRequest(r, "resolved")
              /\ torn' = torn \ {"requests"}
              /\ UNCHANGED lost
         ELSE /\ IF "requests" \in torn
                   THEN UNCHANGED psr ELSE MarkRequest(r, "canceled")
              /\ Appends("requests", j)
    /\ GoTo(j, "unparking")
    /\ UNCHANGED <<store, creation, approval, outcome, lineage, runtime,
                   registry, channel, main, counters>>

Unparks(j) ==
    /\ At(j, "unparking")
    /\ PutJob(j, [store[j] EXCEPT !.parked = 0])
    /\ GoTo(j, "completing")
    /\ UNCHANGED <<psr, creation, approval, outcome, lineage, runtime,
                   registry, channel, main, counters>>

WritesCompleted(j) ==
    /\ At(j, "completing")
    /\ WritesPhase(j, "completed")
    /\ GoTo(j, "discarding")
    /\ UNCHANGED <<store, psr, creation, outcome, lineage, runtime, registry,
                   channel, main, counters>>

(* discard().  The turn goes on if the App Server has its answer; a        *)
(* user-input request that timed out ends the job as canceled; whatever    *)
(* was not delivered, and an abort, ends it as unknown.                    *)
Discards(j) ==
    LET w == worker[j] IN
    /\ At(j, "discarding")
    /\ registry' = [registry EXCEPT ![w.request] = NoEntry]
    /\ IF w.verdict = "abort" \/ ~ w.accepted
         THEN Ends(j, "settling", "unknown", "empty")
         ELSE IF w.verdict = "timeout" /\ w.kind = "input"
         THEN Ends(j, "settling", "canceled", "empty")
         ELSE worker' = [worker EXCEPT
                 ![j] = [@ EXCEPT !.pc = "turn", !.accepted = FALSE,
                                  !.verdict = "none"]]
    /\ UNCHANGED <<durable, runtime, channel, main, counters>>

----------------------------------------------------------------------------
(* The worker: settling a job outside the finalizer                        *)
(* (_mark_execution_unknown_and_cleanup and the inline cancel clean-up).   *)

(* _mark_execution_unknown_and_cleanup() swallows every exception; the     *)
(* inline clean-up of a canceled job and the branch of a request that did  *)
(* not parse do not swallow that of the first write.                       *)
MarksUnknown(w) == w.final = "unknown" /\ w.announce # "terminal"

Settles(j) ==
    /\ At(j, "settling")
    /\ IF MarksUnknown(worker[j])
         THEN Transition(j, "unknown") /\ GoTo(j, "settle_outcome")
         ELSE Persists(j, worker[j].final, "settle_outcome")
    /\ UNCHANGED <<psr, creation, approval, outcome, lineage, runtime,
                   registry, channel, main, counters>>

SettlesOutcome(j) ==
    /\ At(j, "settle_outcome")
    /\ EmitOutcome(j)
    /\ GoTo(j, "settle_lineage")
    /\ UNCHANGED <<store, psr, creation, approval, lineage, runtime,
                   registry, channel, main, counters>>

(* After a request that did not parse the turn is still to be finalized.   *)
AfterSettling(j) ==
    GoTo(j, IF worker[j].announce = "terminal" THEN "settle_announce"
                                               ELSE "settle_release")

SettlesLineage(j) ==
    /\ At(j, "settle_lineage")
    /\ PutHandle(j, IF worker[j].final = "canceled" THEN "completed"
                                                    ELSE "unknown")
    /\ AfterSettling(j)
    /\ UNCHANGED <<store, psr, creation, approval, outcome, runtime,
                   registry, channel, main, counters>>

(* runtime_registry.release() and session.close().                         *)
SettlesRuntime(j) ==
    /\ At(j, "settle_release")
    /\ runtime' = [runtime EXCEPT ![j] = FALSE]
    /\ GoTo(j, "settle_announce")
    /\ UNCHANGED <<durable, registry, channel, main, counters>>

SettlesAnnouncement(j) ==
    /\ At(j, "settle_announce")
    /\ Announce(j, worker[j].announce, 0)
    /\ IF worker[j].announce = "terminal"
         THEN GoTo(j, "interrupted")
         ELSE Ends(j, "finished", "unknown", "empty")
    /\ UNCHANGED <<durable, runtime, registry, main, counters>>

----------------------------------------------------------------------------
(* The worker: _finalize_turn().                                           *)

(* The Captured-Request Terminal Guard.  A captured request that is still  *)
(* pending or not in the store falls through to the derivation by kind: an *)
(* unknown one was interrupted; of the others a record is lost             *)
(* (FinalizerFindsAnswer).                                                 *)
FinalStatus(j, result) ==
    LET w        == worker[j]
        snapshot == psr[w.captured].status IN
    IF w.captured = 0
      THEN IF result = "interrupted" THEN "unknown" ELSE result
    ELSE IF snapshot = "resolved"
      THEN IF result = "completed" THEN "completed" ELSE "unknown"
    ELSE IF snapshot = "canceled" THEN "canceled"
    ELSE IF w.unknown THEN "unknown"
    ELSE IF w.kind = "input" /\ result = "completed" THEN "completed"
    ELSE "needs_escalation"

(* The captured request is still pending and did parse.                    *)
ResolveDue(j) ==
    LET c == worker[j].captured IN
    c # 0 /\ ~ worker[j].blank /\ psr[c].status = "pending"

(* turn/completed arrives: the snapshot is read, and a captured request    *)
(* that is still pending marked resolved unless it did not parse.          *)
TurnEnds(j, result) ==
    LET c == worker[j].captured IN
    /\ worker[j].pc \in {"turn", "interrupted"}
    /\ IF ResolveDue(j)
         THEN PutRequest(j, c, [psr[c] EXCEPT !.status = "resolved"])
         ELSE UNCHANGED <<psr, files>>
    /\ worker' = [worker EXCEPT
          ![j] = [NoWorker EXCEPT !.pc = "finalizing",
                                  !.unknown = worker[j].unknown,
                                  !.final = FinalStatus(j, result)]]
    /\ UNCHANGED <<store, creation, approval, outcome, lineage, runtime,
                   registry, channel, main, counters>>

Finalizes(j) ==
    /\ At(j, "finalizing")
    /\ Persists(j, worker[j].final,
                IF worker[j].final = "needs_escalation"
                  THEN "final_escalation" ELSE "final_lineage")
    /\ UNCHANGED <<psr, creation, approval, outcome, lineage, runtime,
                   registry, channel, main, counters>>

AfterFinalizing(j) == Ends(j, "settle_announce", "unknown", "empty")

(* The audit event of an escalation; the runtime stays, the worker ends.   *)
FinalizesEscalation(j) ==
    /\ At(j, "final_escalation")
    /\ AfterFinalizing(j)
    /\ UNCHANGED <<durable, runtime, registry, channel, main, counters>>

FinalizesLineage(j) ==
    /\ At(j, "final_lineage")
    /\ PutHandle(j, IF worker[j].unknown THEN "unknown" ELSE "completed")
    /\ GoTo(j, "final_release")
    /\ UNCHANGED <<store, psr, creation, approval, outcome, runtime,
                   registry, channel, main, counters>>

FinalizesRuntime(j) ==
    /\ At(j, "final_release")
    /\ runtime' = [runtime EXCEPT ![j] = FALSE]
    /\ GoTo(j, "final_outcome")
    /\ UNCHANGED <<durable, registry, channel, main, counters>>

FinalizesOutcome(j) ==
    /\ At(j, "final_outcome")
    /\ EmitOutcome(j)
    /\ AfterFinalizing(j)
    /\ UNCHANGED <<store, psr, creation, approval, lineage, runtime,
                   registry, channel, main, counters>>

(* Fault: the exception ends the worker and nobody settles the job.        *)
WriteKillsWorker(j) ==
    /\ faults < MaxFaults
    /\ faults' = faults + 1
    /\ worker[j].pc \in HandlerSteps
    /\ GoTo(j, "finished")
    /\ UNCHANGED <<durable, runtime, registry, channel, main, crashes>>

(* A write raises, or session.close() does after the runtime was released  *)
(* ("final_outcome"), or the audit event of an escalation.  The job is     *)
(* settled as unknown; an entry of the ResolutionRegistry stays behind.    *)
(* The first write of the worker is outside every handler: nothing is      *)
(* settled.                                                                *)
WriteRaises(j) ==
    /\ faults < MaxFaults
    /\ faults' = faults + 1
    /\ \/ /\ worker[j].pc \in {"final_escalation", "final_outcome"}
          /\ Fails(j)
          /\ UNCHANGED torn
       \/ \E f \in {"jobs", "requests", "journal", "lineage"} :
             /\ worker[j].pc \in WorkerWrites[f] \ {"spawned", "settle_lineage"}
             /\ ~ (At(j, "settling") /\ MarksUnknown(worker[j]))
             /\ AppendRaises(f)
             /\ Fails(j)
       \/ /\ At(j, "spawned")
          /\ AppendRaises("jobs")
          /\ Ends(j, "settle_announce", "unknown", "failed")
    /\ UNCHANGED <<store, psr, creation, approval, outcome, lineage, lost,
                   runtime, registry, channel, main, crashes>>

(* A write of a clean-up raises and is swallowed: the clean-up goes on.    *)
WriteIsSwallowed(j) ==
    /\ faults < MaxFaults
    /\ faults' = faults + 1
    /\ \/ /\ At(j, "settling") /\ MarksUnknown(worker[j])
          /\ Swallows("jobs", j)
          /\ GoTo(j, "settle_outcome")
       \/ /\ At(j, "settle_outcome") /\ OutcomeDue(j)
          /\ Swallows("outcomes", j)
          /\ GoTo(j, "settle_lineage")
       \/ /\ At(j, "settle_lineage")
          /\ Swallows("lineage", j)
          /\ AfterSettling(j)
       \/ /\ At(j, "final_outcome") /\ OutcomeDue(j)
          /\ Swallows("outcomes", j)
          /\ AfterFinalizing(j)
    /\ UNCHANGED <<store, psr, creation, approval, outcome, lineage, runtime,
                   registry, channel, main, crashes>>

WorkerStep(j) ==
    \/ BeginsTurn(j)
    \/ \E kind \in ParkableKinds : ParkableArrives(j, kind)
    \/ \E kind \in UnknownKinds : UnknownArrives(j, kind)
    \/ Interrupts(j)
    \/ TurnRaises(j)
    \/ Parks(j) \/ Escalates(j) \/ Registers(j) \/ AnnouncesPark(j)
    \/ Wakes(j)
    \/ WritesIntent(j) \/ Resumes(j) \/ WritesDispatched(j)
    \/ \E works \in BOOLEAN : Responds(j, works)
    \/ RecordsAnswer(j) \/ Unparks(j) \/ WritesCompleted(j) \/ Discards(j)
    \/ Settles(j) \/ SettlesOutcome(j) \/ SettlesLineage(j)
    \/ SettlesRuntime(j) \/ SettlesAnnouncement(j)
    \/ \E result \in TurnResults : TurnEnds(j, result)
    \/ Finalizes(j) \/ FinalizesEscalation(j) \/ FinalizesLineage(j)
    \/ FinalizesRuntime(j) \/ FinalizesOutcome(j)

----------------------------------------------------------------------------
(* The main thread: start().                                               *)

Busy(pc) == main.pc = pc
Continue(pc) == main' = [main EXCEPT !.pc = pc]

(* The busy gate reads three sources, one after the other.  A job id is a  *)
(* fresh uuid: the next number.                                            *)
GateReadsJobs(j) ==
    /\ Busy("idle")
    /\ creation[j] = "none"
    /\ \A i \in Jobs : i < j => creation[i] # "none"
    /\ \A i \in Jobs : ~ NeedsAttention(i)
    /\ main' = [MainIdle EXCEPT !.pc = "gate_runtimes", !.job = j]
    /\ UNCHANGED <<durable, runtime, registry, channel, worker, counters>>

(* Fault: runtimes are not looked at.                                      *)
GateSkipsRuntimes ==
    /\ Busy("gate_runtimes")
    /\ Continue("gate_journal")
    /\ UNCHANGED <<durable, runtime, registry, channel, worker, counters>>

GateReadsRuntimes ==
    /\ Busy("gate_runtimes")
    /\ main' = IF \E j \in Jobs : runtime[j]
                 THEN MainIdle ELSE [main EXCEPT !.pc = "gate_journal"]
    /\ UNCHANGED <<durable, runtime, registry, channel, worker, counters>>

(* The gate's last source, and the intent record if it lets the job pass.  *)
WritesCreationIntent ==
    /\ Busy("gate_journal")
    /\ IF \E j \in Jobs : Unresolved(creation[j])
         THEN /\ main' = MainIdle
              /\ UNCHANGED <<creation, files>>
         ELSE /\ WritesCreation(main.job, "intent")
              /\ Continue("bootstrapping")
    /\ UNCHANGED <<store, psr, approval, outcome, lineage, runtime, registry,
                   channel, worker, counters>>

(* Worktree, App Server process and thread; when that fails start() raises *)
(* and the intent record stays.                                            *)
Bootstraps(works) ==
    /\ Busy("bootstrapping")
    /\ IF works THEN Continue("bootstrapped") ELSE main' = MainIdle
    /\ UNCHANGED <<durable, runtime, registry, channel, worker, counters>>

WritesCreationDispatched ==
    /\ Busy("bootstrapped")
    /\ WritesCreation(main.job, "dispatched")
    /\ Continue("registering")
    /\ UNCHANGED <<store, psr, approval, outcome, lineage, runtime, registry,
                   channel, worker, counters>>

RegistersRuntime ==
    /\ Busy("registering")
    /\ runtime' = [runtime EXCEPT ![main.job] = TRUE]
    /\ Continue("lineage")
    /\ UNCHANGED <<durable, registry, channel, worker, counters>>

CreatesHandle ==
    /\ Busy("lineage")
    /\ lineage' = IF "lineage" \in torn
                    THEN lineage ELSE [lineage EXCEPT ![main.job] = "active"]
    /\ Appends("lineage", main.job)
    /\ Continue("queueing")
    /\ UNCHANGED <<store, psr, creation, approval, outcome, runtime, registry,
                   channel, worker, counters>>

CreatesJob ==
    /\ Busy("queueing")
    /\ store' = IF "jobs" \in torn
                  THEN store ELSE [store EXCEPT ![main.job].status = "queued"]
    /\ Appends("jobs", main.job)
    /\ Continue("completing")
    /\ UNCHANGED <<psr, creation, approval, outcome, lineage, runtime,
                   registry, channel, worker, counters>>

WritesCreationCompleted ==
    /\ Busy("completing")
    /\ WritesCreation(main.job, "completed")
    /\ Continue("spawning")
    /\ UNCHANGED <<store, psr, approval, outcome, lineage, runtime, registry,
                   channel, worker, counters>>

CleaningJob == IF store[main.job].status # "absent"
                 THEN [main EXCEPT !.pc = "cleaning_job"] ELSE MainIdle

(* A write of the committed start raises, the last one after an audit      *)
(* event: what has been stored is marked unknown, the journal and the      *)
(* runtime are left as they are.                                           *)
StartRaises ==
    /\ faults < MaxFaults
    /\ faults' = faults + 1
    /\ \/ main.pc \in {"bootstrapped", "completing"} /\ AppendRaises("journal")
       \/ Busy("lineage") /\ AppendRaises("lineage")
       \/ Busy("queueing") /\ AppendRaises("jobs")
    /\ main' = IF lineage[main.job] # "none"
                 THEN [main EXCEPT !.pc = "cleaning_handle"]
                 ELSE CleaningJob
    /\ UNCHANGED <<store, psr, creation, approval, outcome, lineage, lost,
                   runtime, registry, channel, worker, crashes>>

CleansHandle ==
    /\ Busy("cleaning_handle")
    /\ PutHandle(main.job, "unknown")
    /\ main' = CleaningJob
    /\ UNCHANGED <<store, psr, creation, approval, outcome, runtime, registry,
                   channel, worker, counters>>

CleansJob ==
    /\ Busy("cleaning_job")
    /\ Transition(main.job, "unknown")
    /\ main' = MainIdle
    /\ UNCHANGED <<psr, creation, approval, outcome, lineage, runtime,
                   registry, channel, worker, counters>>

(* Both writes are best-effort.                                            *)
CleaningIsSwallowed ==
    /\ faults < MaxFaults
    /\ faults' = faults + 1
    /\ \/ /\ Busy("cleaning_handle")
          /\ Swallows("lineage", main.job)
          /\ main' = CleaningJob
       \/ /\ Busy("cleaning_job")
          /\ Swallows("jobs", main.job)
          /\ main' = MainIdle
    /\ UNCHANGED <<store, psr, creation, approval, outcome, lineage, runtime,
                   registry, channel, worker, crashes>>

(* The intent record of a start, or the write of a discard, raises and     *)
(* leaves a partial line: the call has no other effect.                    *)
CallRaises ==
    /\ faults < MaxFaults
    /\ faults' = faults + 1
    /\ \/ /\ Busy("gate_journal")
          /\ \A j \in Jobs : ~ Unresolved(creation[j])
          /\ torn' = torn \cup {"journal"}
       \/ /\ Busy("discarding")
          /\ torn' = torn \cup {"jobs"}
    /\ main' = MainIdle
    /\ UNCHANGED <<store, psr, creation, approval, outcome, lineage, lost,
                   runtime, registry, channel, worker, crashes>>

(* Fault: the channel is not opened before the worker is spawned, but when *)
(* start() begins to wait.                                                 *)
SpawnsUnopened ==
    /\ Busy("spawning")
    /\ worker' = [worker EXCEPT ![main.job] = [NoWorker EXCEPT
                                                 !.pc = "spawned"]]
    /\ Continue("waiting")
    /\ UNCHANGED <<durable, runtime, registry, channel, counters>>

(* open_capture_channel() and spawn_worker().                              *)
Spawns ==
    /\ Busy("spawning")
    /\ channel' = [channel EXCEPT ![main.job].state = "open"]
    /\ worker' = [worker EXCEPT ![main.job] = [NoWorker EXCEPT
                                                 !.pc = "spawned"]]
    /\ Continue("waiting")
    /\ UNCHANGED <<durable, runtime, registry, counters>>

(* wait_for_parked() returns an outcome, or its time elapses while there   *)
(* is none; in both cases it closes the channel.  Then start() reads the   *)
(* job again and returns.                                                  *)
WaitReturns ==
    LET c == channel[main.job] IN
    /\ Busy("waiting")
    /\ main' = IF c.state = "parked"
                 THEN [main EXCEPT !.pc = "replying", !.request = c.request]
                 ELSE MainIdle
    /\ channel' = [channel EXCEPT ![main.job] = Closed]
    /\ UNCHANGED <<durable, runtime, registry, worker, counters>>

(* A parked request that cannot be shown any more is aborted.              *)
Replies ==
    /\ Busy("replying")
    /\ IF Projects(main.job) THEN UNCHANGED registry ELSE Abort(main.request)
    /\ main' = MainIdle
    /\ UNCHANGED <<durable, runtime, channel, worker, counters>>

----------------------------------------------------------------------------
(* The main thread: decide(), poll() and discard().                        *)

(* decide(), validation.  Status, request and runtime are read before the  *)
(* reservation.                                                            *)
Validates(j, r) ==
    /\ Busy("idle")
    /\ store[j].status = "needs_escalation"
    /\ psr[r].status # "absent" /\ psr[r].job = j
    /\ runtime[j]
    /\ main' = [MainIdle EXCEPT !.pc = "deciding", !.job = j, !.request = r]
    /\ UNCHANGED <<durable, runtime, registry, channel, worker, counters>>

(* Without a reservation the decision is rejected.                         *)
Reserves ==
    LET r == main.request IN
    /\ Busy("deciding")
    /\ IF registry[r].state = "awaiting"
         THEN /\ registry' = [registry EXCEPT ![r].state = "reserved"]
              /\ Continue("reserved")
         ELSE /\ main' = MainIdle
              /\ UNCHANGED registry
    /\ UNCHANGED <<durable, runtime, channel, worker, counters>>

WritesDecisionIntent ==
    /\ Busy("reserved")
    /\ WritesApproval(main.job, main.request, "intent")
    /\ Continue("intended")
    /\ UNCHANGED <<store, psr, creation, outcome, lineage, runtime, registry,
                   channel, worker, counters>>

(* The write raises, with nothing of the record in the file, a part of it  *)
(* or all of it.                                                           *)
DecisionIntentRaises ==
    LET r == main.request IN
    /\ IntentMayFail
    /\ faults < MaxFaults
    /\ faults' = faults + 1
    /\ Busy("reserved")
    /\ registry' = [registry EXCEPT ![r].state = "awaiting"]
    /\ \/ AppendRaises("journal") /\ UNCHANGED <<approval, lost>>
       \/ WritesApproval(main.job, r, "intent")
    /\ main' = MainIdle
    /\ UNCHANGED <<store, psr, creation, outcome, lineage, runtime, channel,
                   worker, crashes>>

Commits ==
    /\ Busy("intended")
    /\ registry' = [registry EXCEPT ![main.request] =
          [state |-> "decided", verdict |-> "operator", armed |-> FALSE]]
    /\ main' = MainIdle
    /\ UNCHANGED <<durable, runtime, channel, worker, counters>>

(* poll() finds the pending request of the job, cannot make a view of it   *)
(* (its kind is not one that can be shown), and aborts it.                 *)
PollAborts(j) ==
    /\ Busy("idle")
    /\ store[j].status = "needs_escalation"
    /\ Projects(j)
    /\ Abort(store[j].parked)
    /\ UNCHANGED <<durable, runtime, channel, worker, main, counters>>

Discardable(j) ==
    \/ store[j].promotion = "pending"
    \/ /\ store[j].status \in (Terminal \ {"completed"})
                                \cup {"needs_escalation"}
       /\ store[j].promotion = "none"

(* discard() reads the job and then writes its promotion state.            *)
DiscardReads(j) ==
    /\ Busy("idle")
    /\ Discardable(j)
    /\ main' = [MainIdle EXCEPT !.pc = "discarding", !.job = j]
    /\ UNCHANGED <<durable, runtime, registry, channel, worker, counters>>

DiscardWrites ==
    /\ Busy("discarding")
    /\ PutJob(main.job, [store[main.job] EXCEPT !.promotion = "discarded"])
    /\ main' = MainIdle
    /\ UNCHANGED <<psr, creation, approval, outcome, lineage, runtime,
                   registry, channel, worker, counters>>

(* Calls of the user, and the rest of a call that has begun.               *)
Call ==
    \/ \E j \in Jobs : GateReadsJobs(j)
    \/ \E j \in Jobs, r \in Requests : Validates(j, r)
    \/ \E j \in Jobs : PollAborts(j)
    \/ \E j \in Jobs : DiscardReads(j)

Continues ==
    \/ GateReadsRuntimes \/ WritesCreationIntent
    \/ \E works \in BOOLEAN : Bootstraps(works)
    \/ WritesCreationDispatched \/ RegistersRuntime \/ CreatesHandle
    \/ CreatesJob \/ WritesCreationCompleted
    \/ StartRaises \/ CleansHandle \/ CleansJob \/ CleaningIsSwallowed
    \/ CallRaises
    \/ Spawns \/ WaitReturns \/ Replies
    \/ Reserves \/ WritesDecisionIntent \/ DecisionIntentRaises \/ Commits
    \/ DiscardWrites

----------------------------------------------------------------------------
(* Fault: the sweep takes running jobs for the only orphans.               *)
OrphanedRunning(j) == store[j].status = "running"

Orphaned(j) == store[j].status \in {"running", "needs_escalation"}

(* Somebody is appending a record to the file.                             *)
WorkerWriting(j, f) ==
    /\ worker[j].pc \in WorkerWrites[f]
    /\ f = "outcomes" => OutcomeDue(j)
    /\ At(j, "interrupted") => ResolveDue(j)

MainWriting(f) ==
    LET j == main.job IN
    \/ /\ f = "jobs"
       /\ \/ main.pc \in {"queueing", "cleaning_job", "discarding"}
          \/ /\ Busy("recover_created_job")
             /\ store[j].status \in {"queued", "running"}
          \/ Busy("recover_orphans") /\ Orphaned(j)
    \/ /\ f = "journal"
       /\ \/ main.pc \in {"bootstrapped", "completing", "reserved",
                          "recover_closing"}
          \/ /\ Busy("gate_journal")
             /\ \A i \in Jobs : ~ Unresolved(creation[i])
          \/ /\ Busy("recover_approval")
             /\ \E r \in Requests : /\ r = main.request + 1
                                    /\ Unresolved(approval[j][r])
    \/ /\ f = "lineage"
       /\ \/ main.pc \in {"lineage", "cleaning_handle"}
          \/ /\ main.pc \in {"recover_orphan_handle", "recover_canceled"}
             /\ lineage[j] = "active"
          \/ /\ Busy("recover_creation")
             /\ Unresolved(creation[j]) /\ lineage[j] = "active"
    \/ f = "outcomes" /\ Busy("recover_outcomes") /\ OutcomeDue(j)

(* The server process dies, or recover_startup() raises, and is started    *)
(* again for the same session: everything volatile is gone, a record that  *)
(* was being written may be in the file in part, and recover_startup()     *)
(* runs before any call is served.                                         *)
Crash ==
    /\ crashes < MaxCrashes
    /\ crashes' = crashes + 1
    /\ \E parts \in SUBSET {f \in Files : \/ MainWriting(f)
                                         \/ \E j \in Jobs : WorkerWriting(j, f)} :
          torn' = torn \cup parts
    /\ lost' = [f \in Files |-> {}]
    /\ outcome' = [j \in Jobs |->
                     IF outcome[j] = "lost" THEN "none" ELSE outcome[j]]
    /\ runtime' = [j \in Jobs |-> FALSE]
    /\ registry' = [r \in Requests |-> NoEntry]
    /\ channel' = [j \in Jobs |-> Closed]
    /\ worker' = [j \in Jobs |-> NoWorker]
    /\ main' = [MainIdle EXCEPT !.pc = "recover_creation"]
    /\ UNCHANGED <<store, psr, creation, approval, lineage, faults>>

(* recover_startup() makes its passes job by job (main.job), and tries     *)
(* each write once.                                                        *)
Onward(pc, nextPass) ==
    main' = IF main.job < MaxJobs
              THEN [MainIdle EXCEPT !.pc = pc, !.job = main.job + 1]
              ELSE [MainIdle EXCEPT !.pc = nextPass]

(* job_creation: what an unfinished start has stored is marked unknown,    *)
(* handle first, and the journal closed.                                   *)
RecoversHandle ==
    LET j == main.job IN
    /\ Busy("recover_creation")
    /\ IF Unresolved(creation[j]) /\ lineage[j] = "active"
         THEN PutHandle(j, "unknown") ELSE UNCHANGED <<lineage, files>>
    /\ IF Unresolved(creation[j])
         THEN Continue("recover_created_job")
         ELSE Onward("recover_creation", "recover_approval")
    /\ UNCHANGED <<store, psr, creation, approval, outcome, runtime, registry,
                   channel, worker, counters>>

RecoversCreatedJob ==
    LET j == main.job IN
    /\ Busy("recover_created_job")
    /\ IF store[j].status \in {"queued", "running"}
         THEN Transition(j, "unknown") ELSE UNCHANGED <<store, files>>
    /\ Continue("recover_closing")
    /\ UNCHANGED <<psr, creation, approval, outcome, lineage, runtime,
                   registry, channel, worker, counters>>

ClosesCreation ==
    /\ Busy("recover_closing")
    /\ WritesCreation(main.job, "completed")
    /\ Onward("recover_creation", "recover_approval")
    /\ UNCHANGED <<store, psr, approval, outcome, lineage, runtime, registry,
                   channel, worker, counters>>

(* approval_resolution: the journal is closed, nothing is sent again.      *)
ClosesApproval ==
    LET r == main.request + 1 IN
    /\ Busy("recover_approval")
    /\ IF r \in Requests /\ Unresolved(approval[main.job][r])
         THEN WritesApproval(main.job, r, "completed")
         ELSE UNCHANGED <<approval, files>>
    /\ IF r < MaxRequests
         THEN main' = [main EXCEPT !.request = r]
         ELSE Onward("recover_approval", "recover_orphans")
    /\ UNCHANGED <<store, psr, creation, outcome, lineage, runtime, registry,
                   channel, worker, counters>>

(* A job with no runtime to serve it becomes unknown, then its handle.     *)
RecoversOrphan ==
    LET j == main.job IN
    /\ Busy("recover_orphans")
    /\ IF Orphaned(j)
         THEN /\ Transition(j, "unknown")
              /\ Continue("recover_orphan_handle")
         ELSE /\ UNCHANGED <<store, files>>
              /\ Onward("recover_orphans", "recover_outcomes")
    /\ UNCHANGED <<psr, creation, approval, outcome, lineage, runtime,
                   registry, channel, worker, counters>>

RecoversOrphanHandle ==
    LET j == main.job IN
    /\ Busy("recover_orphan_handle")
    /\ IF lineage[j] = "active"
         THEN PutHandle(j, "unknown") ELSE UNCHANGED <<lineage, files>>
    /\ Onward("recover_orphans", "recover_outcomes")
    /\ UNCHANGED <<store, psr, creation, approval, outcome, runtime, registry,
                   channel, worker, counters>>

(* The sweep over terminal jobs: the outcome record, a best-effort write   *)
(* here too, and the handle of a canceled job.                             *)
AfterOutcome ==
    IF store[main.job].status = "canceled"
      THEN Continue("recover_canceled")
      ELSE Onward("recover_outcomes", "idle")

RecoversOutcome ==
    /\ Busy("recover_outcomes")
    /\ EmitOutcome(main.job)
    /\ AfterOutcome
    /\ UNCHANGED <<store, psr, creation, approval, lineage, runtime, registry,
                   channel, worker, counters>>

OutcomeIsSwallowed ==
    /\ faults < MaxFaults
    /\ faults' = faults + 1
    /\ Busy("recover_outcomes")
    /\ OutcomeDue(main.job)
    /\ Swallows("outcomes", main.job)
    /\ AfterOutcome
    /\ UNCHANGED <<store, psr, creation, approval, outcome, lineage, runtime,
                   registry, channel, worker, crashes>>

RecoversCanceledHandle ==
    LET j == main.job IN
    /\ Busy("recover_canceled")
    /\ IF lineage[j] = "active"
         THEN PutHandle(j, "completed") ELSE UNCHANGED <<lineage, files>>
    /\ Onward("recover_outcomes", "idle")
    /\ UNCHANGED <<store, psr, creation, approval, outcome, runtime, registry,
                   channel, worker, counters>>

RecoveryStep ==
    \/ RecoversHandle \/ RecoversCreatedJob \/ ClosesCreation
    \/ ClosesApproval
    \/ RecoversOrphan \/ RecoversOrphanHandle
    \/ RecoversOutcome \/ OutcomeIsSwallowed \/ RecoversCanceledHandle

----------------------------------------------------------------------------
(* Nothing runs: the server waits for a call.                              *)
Quiescent ==
    /\ Busy("idle")
    /\ \A j \in Jobs : worker[j].pc \in {"none", "finished"}
    /\ UNCHANGED vars

Next ==
    \/ \E j \in Jobs : WorkerStep(j) \/ WriteRaises(j) \/ WriteIsSwallowed(j)
    \/ \E r \in Requests : TimerFires(r)
    \/ Call
    \/ Continues
    \/ Crash
    \/ RecoveryStep
    \/ Quiescent

Spec == Init /\ [][Next]_vars

(* Threads and timers run on, the App Server ends a turn or dies, a call   *)
(* that has begun returns, recovery goes on.  Nobody has to call, and      *)
(* nothing has to fail.                                                    *)
Fairness ==
    /\ \A j \in Jobs : WF_vars(WorkerStep(j))
    /\ \A r \in Requests : WF_vars(TimerFires(r))
    /\ WF_vars(Continues)
    /\ WF_vars(RecoveryStep)

FairSpec == Spec /\ Fairness

----------------------------------------------------------------------------
Recovering == main.pc \in {"recover_creation", "recover_created_job",
                           "recover_closing", "recover_approval",
                           "recover_orphans", "recover_orphan_handle",
                           "recover_outcomes", "recover_canceled"}

Live(j) == worker[j].pc \notin {"none", "finished"}

(* The busy gate, read in three parts while a worker runs, lets a job      *)
(* start only when no other job has a runtime or is queued, running or     *)
(* waiting for a decision.  The one job it may overlook is one whose end   *)
(* is missing from the job store, and that was discarded.                  *)
OneLiveJob ==
    ~ Recovering =>
        Cardinality({j \in Jobs :
            \/ runtime[j]
            \/ store[j].status = "queued"
            \/ /\ store[j].status \in {"running", "needs_escalation"}
               /\ j \notin lost["jobs"]}) <= 1

(* A request that can be decided is the one that a worker waits on, in the *)
(* store it is pending, and it is the one its job is parked on and waits   *)
(* for, unless a record about the job is missing from that store: decide() *)
(* and poll() read the stores, the worker and the timer use the registry.  *)
OpenRequestIsParked ==
    \A r \in Requests : registry[r].state \in {"awaiting", "reserved"} =>
        \E j \in Jobs :
            /\ worker[j].pc \in {"announcing", "waiting"}
            /\ worker[j].request = r
            /\ j \notin lost["requests"] =>
                  psr[r] = [status |-> "pending", job |-> j]
            /\ j \notin lost["jobs"] =>
                  /\ store[j].parked = r
                  /\ store[j].status = "needs_escalation"

(* Outside recovery, a job that the store shows as running or waiting for  *)
(* a decision has a runtime that decide() will find and a worker at work.  *)
(* It lacks both if the record of its end is missing, and the worker if a  *)
(* record of its request is.                                               *)
ActiveJobIsServed ==
    \A j \in Jobs :
        /\ store[j].status \in {"running", "needs_escalation"}
        /\ ~ Recovering
        /\ j \notin lost["jobs"]
        => runtime[j] /\ (Live(j) \/ j \in lost["requests"])

(* start() is told the truth and in time: by the time its worker blocks or *)
(* ends, an outcome is there; an empty turn has left the job terminal, its *)
(* runtime released; a turn ended by an unknown request has left it        *)
(* unknown; and a parked request was stored: unless a record that says so  *)
(* is missing.                                                             *)
StartIsTold ==
    main.pc = "waiting" =>
        LET j == main.job
            c == channel[j].state IN
        /\ worker[j].pc \in {"waiting", "finished"} => c \in Outcomes
        /\ c = "empty" /\ j \notin lost["requests"] => ~ runtime[j]
        /\ c \in {"empty", "terminal"}
              /\ j \notin lost["jobs"] \cup lost["requests"]
              => store[j].status \in Terminal
        /\ c = "parked" /\ j \notin lost["requests"] =>
              psr[channel[j].request].job = j

(* "under Packet 1, every non-parse-failed capture path should have        *)
(* written a terminal status before the finalizer runs": true of requests  *)
(* that could be parked, unless the write fell on a partial line.          *)
FinalizerFindsAnswer ==
    \A j \in Jobs :
        /\ At(j, "turn")
        /\ worker[j].captured # 0
        /\ j \notin lost["requests"]
        => psr[worker[j].captured] \in
              [status : {"resolved", "canceled"}, job : {j}]

(* What recover_startup() leaves: no record unresolved in the journal, no  *)
(* job that claims to be served, an outcome record for every terminal job: *)
(* but for the one record about the job that was itself not written.       *)
RecoveryIsComplete ==
    [][ Recovering /\ main'.pc = "idle" =>
          \A j \in Jobs :
             /\ j \notin lost'["journal"] =>
                   /\ ~ Unresolved(creation'[j])
                   /\ \A r \in Requests : ~ Unresolved(approval'[j][r])
             /\ j \notin lost'["jobs"] =>
                   store'[j].status \notin {"running", "needs_escalation"}
             /\ store'[j].status \in Terminal /\ j \notin lost'["outcomes"]
                   => outcome'[j] \in Terminal ]_vars

(* A job that runs or waits for a decision gets a terminal status, however *)
(* often the server crashes, or a record about it is lost.                 *)
JobTerminates ==
    \A j \in Jobs : store[j].status \in {"running", "needs_escalation"}
        ~> \/ store[j].status \in Terminal
           \/ j \in lost["jobs"] \cup lost["requests"]

(* "discarded" is a terminal promotion state (_TERMINAL_PROMOTION_STATES). *)
DiscardIsFinal ==
    [][ \A j \in Jobs : store[j].promotion = "discarded" =>
          store'[j].promotion = "discarded" ]_vars

(* The crash window of the first turn is recovered by orphan detection     *)
(* (start(), :800-802): after recovery no job claims to be in progress.    *)
RecoverySettlesEveryJob ==
    [][ Recovering /\ main'.pc = "idle" =>
          \A j \in Jobs : store'[j].status \notin Active ]_vars

============================================================================
