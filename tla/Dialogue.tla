------------------------------ MODULE Dialogue ------------------------------
(***************************************************************************)
(* The advisory dialogues of one session: start, reply and read, the       *)
(* journaled life of a turn, the repair after a failed dispatch, and the   *)
(* recovery of a restarted server in its two phases.  The server serves    *)
(* one call at a time; what it meets between two durable steps is a crash, *)
(* an App Server that fails, or a write that raises.                       *)
(*                                                                         *)
(* The prompt of every turn has a number of its own, which stands both for *)
(* its context size and for the id of the remote turn it becomes.          *)
(*                                                                         *)
(* Code: src/server/dialogue.py, src/server/turn_store.py,                 *)
(* src/server/lineage_store.py, and of src/server/control_plane.py the     *)
(* cache of advisory runtimes.                                             *)
(***************************************************************************)
EXTENDS Naturals, Sequences, FiniteSets

CONSTANTS Dialogues,     \* collaboration ids of the session
          MaxPrompts,    \* bound: turns dispatched in all
          MaxCrashes,    \* bound: ends of the server process
          MaxFaults,     \* bound: failing calls and writes
          FaultKinds     \* which of the AllFaultKinds may happen

AllFaultKinds == {"runtime",   \* the App Server fails or drops a call
                  "artifact",  \* a write of a turn's local artifacts raises
                  "first",     \* so does the dispatched record of turn 1
                  "later",     \* or of a later turn
                  "record",    \* or any other record of a start or a recovery
                  "torn",      \* a line of the local store is left without end
                  "exit"}      \* an orderly end removes the session's stores

ASSUME DialogueAssumption ==
    /\ MaxPrompts \in Nat \ {0}
    /\ MaxCrashes \in Nat
    /\ MaxFaults \in Nat
    /\ FaultKinds \subseteq AllFaultKinds

VARIABLES
    thread,     \* remote: the completed turns of each dialogue's thread
    journal,    \* last record of every key, in order of first appearance
    handle,     \* lineage store
    turnFile,   \* lines of turn_metadata.jsonl
    unended,    \* does its last line lack a newline?
    audits,     \* dialogue_turn audit events, by turn
    outcomes,   \* dialogue_turn outcome records, by turn
    runtime,    \* the cached advisory runtime, 0: none
    server,     \* has this process recovered the dialogues?
    call,       \* what the server is doing
    todo,       \* phase 1: journal entries left to reconcile
    reattach,   \* phase 2: handles left to reattach
    prompts, runtimes, crashes, faults      \* counters

disk     == <<journal, handle, turnFile, unended, audits, outcomes>>
memory   == <<runtime, server, call, todo, reattach>>
counters == <<prompts, runtimes, crashes, faults>>
vars     == <<thread, disk, memory, counters>>

Prompts  == 1..MaxPrompts
Runtimes == 1..(1 + MaxCrashes + MaxFaults)  \* one more for each that is lost

Entry == [op : {"thread_creation", "turn_dispatch"}, of : Dialogues,
          runtime : Runtimes \cup {0}, seq : 0..MaxPrompts,
          size : 0..MaxPrompts, phase : {"intent", "dispatched", "completed"}]
Line  == [of : Dialogues, seq : Prompts, size : Prompts, valid : BOOLEAN]

StartSteps    == {"starting", "started", "creating", "closing_start"}
ReplySteps    == {"running", "ran", "repairing", "resuming"}
FinalSteps    == {"storing", "auditing", "reporting", "closing"}
RecoverySteps == {"binding", "closing_thread"}

Idle == [pc |-> "idle", of |-> "none", entry |-> <<>>, turn |-> 0,
         caller |-> "none"]

TypeOK ==
    /\ thread \in [Dialogues -> Seq(Prompts)]
    /\ journal \in Seq(Entry)
    /\ handle \in [Dialogues -> [status : {"none", "active", "unknown"},
                                 runtime : Runtimes \cup {0}]]
    /\ turnFile \in Seq(Line)
    /\ unended \in BOOLEAN
    /\ audits \in [Prompts -> Nat]
    /\ outcomes \in [Prompts -> Nat]
    /\ runtime \in Runtimes \cup {0}
    /\ server \in {"cold", "reconciling", "reattaching", "ready"}
    /\ call.pc \in {"idle"} \cup StartSteps \cup ReplySteps \cup FinalSteps
                   \cup RecoverySteps
    /\ call.pc # "idle" => call.of \in Dialogues /\ call.entry \in Entry
    /\ todo \subseteq DOMAIN journal
    /\ reattach \subseteq Dialogues
    /\ prompts \in 0..MaxPrompts
    /\ runtimes \in 0..(1 + MaxCrashes + MaxFaults)
    /\ crashes \in 0..MaxCrashes
    /\ faults \in 0..MaxFaults

Init ==
    /\ thread = [d \in Dialogues |-> <<>>]
    /\ journal = <<>>
    /\ handle = [d \in Dialogues |-> [status |-> "none", runtime |-> 0]]
    /\ turnFile = <<>>
    /\ unended = FALSE
    /\ audits = [p \in Prompts |-> 0]
    /\ outcomes = [p \in Prompts |-> 0]
    /\ runtime = 0
    /\ server = "cold"
    /\ call = Idle
    /\ todo = {}
    /\ reattach = {}
    /\ prompts = 0
    /\ runtimes = 0
    /\ crashes = 0
    /\ faults = 0

At(pc)    == call.pc = pc
GoTo(pc)  == call' = [call EXCEPT !.pc = pc]
Serving   == server = "ready" /\ At("idle")

Fault(kind) == /\ kind \in FaultKinds
               /\ faults < MaxFaults
               /\ faults' = faults + 1

----------------------------------------------------------------------------
(* The stores.                                                             *)

SameKey(e, f) == /\ e.op = f.op /\ e.of = f.of
                 /\ e.runtime = f.runtime /\ e.seq = f.seq

(* write_phase(): the replay keeps the last record of each key.            *)
WritePhase(e) ==
    journal' = IF \E i \in DOMAIN journal : SameKey(journal[i], e)
                 THEN [i \in DOMAIN journal |->
                          IF SameKey(journal[i], e) THEN e ELSE journal[i]]
                 ELSE Append(journal, e)

(* The completed marker keeps the key and drops the rest.                  *)
Complete(e) == WritePhase([e EXCEPT !.phase = "completed", !.size = 0])

Unresolved == {i \in DOMAIN journal : journal[i].phase # "completed"}

(* Fault: quarantine drops the handle instead of its status.               *)
SetStatusDrops(d, status) ==
    handle' = [handle EXCEPT ![d].status =
                  IF status = "unknown" THEN "none" ELSE status]

(* Fault: a status no reader of the store knows.                           *)
SetStatusCrashed(d, status) == handle' = [handle EXCEPT ![d].status = "crashed"]

SetStatus(d, status) == handle' = [handle EXCEPT ![d].status = status]
Rebind(d, status)    == handle' = [handle EXCEPT ![d] =
                                      [status |-> status, runtime |-> runtime']]

(* An append behind a line without newline spoils both.                    *)
Appended(line) ==
    IF unended THEN [turnFile EXCEPT ![Len(turnFile)].valid = FALSE]
               ELSE Append(turnFile, line)

Readable(d) == {i \in DOMAIN turnFile : turnFile[i].valid /\ turnFile[i].of = d}
Recorded(d) == {turnFile[i].seq : i \in Readable(d)}
SizeOf(d, s) ==
    turnFile[CHOOSE i \in Readable(d) :
                /\ turnFile[i].seq = s
                /\ \A j \in Readable(d) : turnFile[j].seq = s => j <= i].size
Diagnosed   == \E i \in DOMAIN turnFile : ~ turnFile[i].valid

(* Fault: the last completed turn is not asked for.                        *)
MetadataAlmostComplete(d) ==
    \A s \in DOMAIN thread[d] : s < Len(thread[d]) => s \in Recorded(d)

(* _local_metadata_complete_for_completed_turns()                          *)
MetadataComplete(d) ==
    IF thread[d] = <<>> THEN Recorded(d) = {}
                        ELSE DOMAIN thread[d] \subseteq Recorded(d)

----------------------------------------------------------------------------
(* The cache of the control plane.                                         *)

(* get_advisory_runtime(): the cached runtime answers, or a new one does.  *)
GetRuntime == /\ runtime' = IF runtime # 0 THEN runtime ELSE runtimes + 1
              /\ runtimes' = IF runtime # 0 THEN runtimes ELSE runtimes + 1

(* It raises.  A cached runtime that fails its probe is dropped, one for   *)
(* which the version cannot be told is kept.                               *)
NoRuntime == /\ Fault("runtime")
             /\ runtime' \in {runtime, 0}
             /\ UNCHANGED runtimes

(* It answers, and the call that follows raises.                           *)
CallRaises == Fault("runtime") /\ GetRuntime

Invalidate == runtime' = 0 /\ UNCHANGED runtimes
----------------------------------------------------------------------------
(* dialogue.start                                                          *)

ThreadEntry(d, phase) == [op |-> "thread_creation", of |-> d, runtime |-> 0,
                          seq |-> 0, size |-> 0, phase |-> phase]
Started(d) == \E i \in DOMAIN journal :
                 journal[i].op = "thread_creation" /\ journal[i].of = d

StartIntent(d) ==
    /\ Serving
    /\ ~ Started(d)
    /\ GetRuntime
    /\ WritePhase(ThreadEntry(d, "intent"))
    /\ call' = [Idle EXCEPT !.pc = "starting", !.of = d,
                            !.entry = ThreadEntry(d, "intent")]
    /\ UNCHANGED <<thread, handle, turnFile, unended, audits, outcomes, server,
                   todo, reattach, prompts, crashes, faults>>

(* thread/start, then the dispatched record.                               *)
StartThread ==
    /\ At("starting")
    /\ WritePhase(ThreadEntry(call.of, "dispatched"))
    /\ GoTo("creating")
    /\ UNCHANGED <<thread, handle, turnFile, unended, audits, outcomes, runtime,
                   server, todo, reattach, counters>>

StartThreadRaises ==
    /\ At("starting")
    /\ Fault("runtime")
    /\ Invalidate
    /\ call' = Idle
    /\ UNCHANGED <<thread, disk, server, todo, reattach, prompts, crashes>>

StartCreatesHandle ==
    /\ At("creating")
    /\ handle' = [handle EXCEPT ![call.of] =
                    [status |-> "active", runtime |-> runtime]]
    /\ GoTo("closing_start")
    /\ UNCHANGED <<thread, journal, turnFile, unended, audits, outcomes, runtime,
                   server, todo, reattach, counters>>

StartCompletes ==
    /\ At("closing_start")
    /\ Complete(ThreadEntry(call.of, "completed"))
    /\ call' = Idle
    /\ UNCHANGED <<thread, handle, turnFile, unended, audits, outcomes, runtime,
                   server, todo, reattach, counters>>

----------------------------------------------------------------------------
(* dialogue.reply                                                          *)

(* _next_turn_sequence(): an empty and sound local store is trusted, any   *)
(* other one is compared with the remote thread.                           *)
FastPath(d)     == Recorded(d) = {} /\ ~ Diagnosed
(* Fault: the number of the last completed turn, not of the next one.      *)
LastSequence(d) == IF FastPath(d) \/ thread[d] = <<>>
                     THEN 1 ELSE Len(thread[d])
NextSequence(d) == IF FastPath(d) THEN 1 ELSE Len(thread[d]) + 1

ReplyIntent(d) ==
    /\ Serving
    /\ handle[d].status = "active"
    /\ prompts < MaxPrompts
    /\ NextSequence(d) <= MaxPrompts
    /\ GetRuntime
    /\ FastPath(d) \/ MetadataComplete(d)
    /\ prompts' = prompts + 1
    /\ LET e == [op |-> "turn_dispatch", of |-> d, runtime |-> runtime',
                 seq |-> NextSequence(d), size |-> prompts', phase |-> "intent"]
       IN  /\ WritePhase(e)
           /\ call' = [Idle EXCEPT !.pc = "running", !.of = d, !.entry = e]
    /\ UNCHANGED <<thread, handle, turnFile, unended, audits, outcomes, server,
                   todo, reattach, crashes, faults>>

(* The local metadata does not cover the remote turns.                     *)
ReplyQuarantines(d) ==
    /\ Serving
    /\ handle[d].status = "active"
    /\ GetRuntime
    /\ ~ FastPath(d) /\ ~ MetadataComplete(d)
    /\ SetStatus(d, "unknown")
    /\ UNCHANGED <<thread, journal, turnFile, unended, audits, outcomes, server,
                   call, todo, reattach, prompts, crashes, faults>>

TurnCompletes == thread' = [thread EXCEPT ![call.of] = Append(@, call.entry.size)]

(* run_advisory_turn() returns.                                            *)
RunTurn ==
    /\ At("running")
    /\ TurnCompletes
    /\ call' = [call EXCEPT !.pc = "ran", !.turn = call.entry.size]
    /\ UNCHANGED <<disk, runtime, server, todo, reattach, counters>>

(* It raises, whether or not the remote turn has completed.  The session   *)
(* is closed, so that a turn still running is over as well.                *)
RunTurnRaises ==
    /\ At("running")
    /\ Fault("runtime")
    /\ TurnCompletes \/ UNCHANGED thread
    /\ Invalidate
    /\ GoTo("repairing")
    /\ UNCHANGED <<disk, server, todo, reattach, prompts, crashes>>

WriteDispatched ==
    /\ At("ran")
    /\ LET e == [call.entry EXCEPT !.phase = "dispatched"]
       IN  /\ WritePhase(e)
           /\ call' = [call EXCEPT !.pc = "storing", !.entry = e,
                                   !.caller = "reply"]
    /\ UNCHANGED <<thread, handle, turnFile, unended, audits, outcomes, runtime,
                   server, todo, reattach, counters>>

(* _best_effort_repair_turn() finds fewer completed turns than it needs,   *)
(* or cannot read the thread.                                              *)
Confirmed(e) == Len(thread[e.of]) >= e.seq

RepairUnconfirmed ==
    /\ At("repairing")
    /\ \/ ~ Confirmed(call.entry) /\ GetRuntime /\ UNCHANGED faults
       \/ NoRuntime
       \/ CallRaises
    /\ SetStatus(call.of, "unknown")
    /\ call' = Idle
    /\ UNCHANGED <<thread, journal, turnFile, unended, audits, outcomes, server,
                   todo, reattach, prompts, crashes>>

RepairConfirmed ==
    /\ At("repairing")
    /\ Confirmed(call.entry)
    /\ GetRuntime
    /\ call' = [call EXCEPT !.pc = "storing", !.caller = "repair",
                            !.turn = thread[call.of][call.entry.seq]]
    /\ UNCHANGED <<thread, disk, server, todo, reattach, prompts, crashes, faults>>

(* _resume_handle_inline()                                                 *)
ResumeInline ==
    /\ At("resuming")
    /\ GetRuntime
    /\ Rebind(call.of, "active")
    /\ call' = Idle
    /\ UNCHANGED <<thread, journal, turnFile, unended, audits, outcomes, server,
                   todo, reattach, prompts, crashes, faults>>

ResumeInlineFails ==
    /\ At("resuming")
    /\ NoRuntime \/ CallRaises
    /\ SetStatus(call.of, "unknown")
    /\ call' = Idle
    /\ UNCHANGED <<thread, journal, turnFile, unended, audits, outcomes, server,
                   todo, reattach, prompts, crashes>>

----------------------------------------------------------------------------
(* _finalize_confirmed_turn(), for a reply, a repair or the recovery.      *)

FinalizeStores ==
    /\ At("storing")
    /\ turnFile' = Appended([of |-> call.of, seq |-> call.entry.seq,
                             size |-> call.entry.size, valid |-> TRUE])
    /\ unended' = FALSE
    /\ GoTo("auditing")
    /\ UNCHANGED <<thread, journal, handle, audits, outcomes, runtime, server,
                   todo, reattach, counters>>

(* Fault: the logs are not asked whether they have the turn already.       *)
Again(log, turn) == [log EXCEPT ![turn] = @ + 1]

(* append_dialogue_audit_event_once(), append_dialogue_outcome_once():     *)
(* once per turn id, whichever process has written it.                     *)
Once(log, turn) == IF log[turn] = 0 THEN [log EXCEPT ![turn] = 1] ELSE log

FinalizeAudits ==
    /\ At("auditing")
    /\ audits' = Once(audits, call.turn)
    /\ GoTo("reporting")
    /\ UNCHANGED <<thread, journal, handle, turnFile, unended, outcomes, runtime,
                   server, todo, reattach, counters>>

FinalizeReports ==
    /\ At("reporting")
    /\ outcomes' = Once(outcomes, call.turn)
    /\ GoTo("closing")
    /\ UNCHANGED <<thread, journal, handle, turnFile, unended, audits, runtime,
                   server, todo, reattach, counters>>

(* Where the recovery goes on: all but the first entry are left.           *)
Rest      == {i \in todo : \E j \in todo : j < i}
NextEntry == call' = Idle /\ todo' = Rest

FinalizeCompletes ==
    /\ At("closing")
    /\ Complete(call.entry)
    /\ \/ call.caller = "reply"    /\ call' = Idle /\ UNCHANGED todo
       \/ call.caller = "repair"   /\ GoTo("resuming") /\ UNCHANGED todo
       \/ call.caller = "recovery" /\ NextEntry
    /\ UNCHANGED <<thread, handle, turnFile, unended, audits, outcomes, runtime,
                   server, reattach, counters>>

(* An append to the local store is interrupted: the line has no newline,   *)
(* and may be whole otherwise.                                             *)
Tears(whole) ==
    /\ At("storing")
    /\ turnFile' = Appended([of |-> call.of, seq |-> call.entry.seq,
                             size |-> call.entry.size, valid |-> whole])
    /\ unended' = TRUE

(* Any of the four writes raises, that of the local store perhaps with a   *)
(* part of its line in the file: every caller quarantines the handle.      *)
FinalizeRaises ==
    /\ call.pc \in FinalSteps
    /\ Fault("artifact")
    /\ \/ UNCHANGED <<turnFile, unended>>
       \/ "torn" \in FaultKinds /\ Tears(FALSE)
    /\ SetStatus(call.of, "unknown")
    /\ IF call.caller = "recovery" THEN NextEntry
                                   ELSE call' = Idle /\ UNCHANGED todo
    /\ UNCHANGED <<thread, journal, audits, outcomes, runtime,
                   server, reattach, prompts, runtimes, crashes>>

----------------------------------------------------------------------------
(* recover_startup(): the first call that needs the dialogues runs it, and *)
(* runs it again when it has raised.                                       *)

Abandon == /\ server' = "cold" /\ call' = Idle
           /\ todo' = {} /\ reattach' = {}

(* Phase 1 works on the entries that are unresolved when it begins, in the *)
(* order of the journal; none of them changes before its turn.             *)
BeginRecovery ==
    /\ server = "cold"
    /\ server' = "reconciling"
    /\ todo' = Unresolved
    /\ reattach' = Dialogues
    /\ UNCHANGED <<thread, disk, runtime, call, counters>>

Reconciling(i, op) == /\ server = "reconciling" /\ At("idle")
                      /\ i \in todo /\ i \notin Rest
                      /\ journal[i].op = op

HasHandle(e) == handle[e.of].status # "none"

(* The intent of a start: nothing was dispatched.                          *)
RecoverThreadIntent(i) ==
    /\ Reconciling(i, "thread_creation") /\ journal[i].phase = "intent"
    /\ Complete(journal[i])
    /\ todo' = Rest
    /\ UNCHANGED <<thread, handle, turnFile, unended, audits, outcomes, runtime,
                   server, call, reattach, counters>>

(* A dispatched start: read and resume the thread, then bind its handle.   *)
RecoverThread(i) ==
    /\ Reconciling(i, "thread_creation") /\ journal[i].phase = "dispatched"
    /\ GetRuntime
    /\ call' = [Idle EXCEPT !.pc = "binding", !.of = journal[i].of,
                            !.entry = journal[i]]
    /\ UNCHANGED <<thread, disk, server, todo, reattach, prompts, crashes, faults>>

(* The recovery raises: the runtime fails while a thread is bound, or a    *)
(* turn's dialogue has no handle ("Recovery integrity failure").           *)
RecoveryRaises(i) ==
    /\ \/ /\ Reconciling(i, "thread_creation") /\ journal[i].phase = "dispatched"
          /\ NoRuntime \/ CallRaises
       \/ /\ Reconciling(i, "turn_dispatch")
          /\ ~ HasHandle(journal[i])
          /\ UNCHANGED <<runtime, runtimes, faults>>
    /\ Abandon
    /\ UNCHANGED <<thread, disk, prompts, crashes>>

(* create(), or update_runtime(), which leaves the status alone.           *)
RecoverHandle ==
    /\ At("binding")
    /\ handle' = [handle EXCEPT ![call.of] =
          [status  |-> IF @.status = "none" THEN "active" ELSE @.status,
           runtime |-> runtime]]
    /\ GoTo("closing_thread")
    /\ UNCHANGED <<thread, journal, turnFile, unended, audits, outcomes, runtime,
                   server, todo, reattach, counters>>

RecoverThreadCompletes ==
    /\ At("closing_thread")
    /\ Complete(call.entry)
    /\ NextEntry
    /\ reattach' = reattach \ {call.of}
    /\ UNCHANGED <<thread, handle, turnFile, unended, audits, outcomes, runtime,
                   server, counters>>

(* A turn: whatever its phase, the remote thread is asked.                 *)
RecoverTurnUnconfirmed(i) ==
    /\ Reconciling(i, "turn_dispatch")
    /\ HasHandle(journal[i])
    /\ \/ ~ Confirmed(journal[i]) /\ GetRuntime /\ UNCHANGED faults
       \/ NoRuntime
       \/ CallRaises
    /\ SetStatus(journal[i].of, "unknown")
    /\ todo' = Rest
    /\ UNCHANGED <<thread, journal, turnFile, unended, audits, outcomes, server,
                   call, reattach, prompts, crashes>>

(* Fault: the entry of a confirmed turn is passed over.                    *)
RecoverTurnSkips(i) ==
    /\ Reconciling(i, "turn_dispatch")
    /\ HasHandle(journal[i])
    /\ Confirmed(journal[i])
    /\ GetRuntime
    /\ todo' = Rest
    /\ UNCHANGED <<thread, disk, server, call, reattach, prompts, crashes, faults>>

RecoverTurnConfirmed(i) ==
    /\ Reconciling(i, "turn_dispatch")
    /\ HasHandle(journal[i])
    /\ Confirmed(journal[i])
    /\ GetRuntime
    /\ LET e == journal[i]
       IN  call' = [Idle EXCEPT !.pc = "storing", !.of = e.of, !.entry = e,
                                !.turn = thread[e.of][e.seq],
                                !.caller = "recovery"]
    /\ UNCHANGED <<thread, disk, server, todo, reattach, prompts, crashes, faults>>

(* Phase 2 takes the handles that phase 1 has not bound already.           *)
BeginReattach ==
    /\ server = "reconciling" /\ At("idle") /\ todo = {}
    /\ server' = "reattaching"
    /\ reattach' = {d \in reattach : handle[d].status # "none"}
    /\ UNCHANGED <<thread, disk, runtime, call, todo, counters>>

(* update_runtime(), and update_status() for a handle that was unknown; or *)
(* quarantine.                                                             *)
Reattach(d) ==
    /\ server = "reattaching" /\ d \in reattach
    /\ GetRuntime
    /\ IF MetadataComplete(d) THEN Rebind(d, "active")
                              ELSE SetStatus(d, "unknown")
    /\ reattach' = reattach \ {d}
    /\ UNCHANGED <<thread, journal, turnFile, unended, audits, outcomes, server,
                   call, todo, prompts, crashes, faults>>

ReattachFails(d) ==
    /\ server = "reattaching" /\ d \in reattach
    /\ NoRuntime \/ CallRaises
    /\ SetStatus(d, "unknown")
    /\ reattach' = reattach \ {d}
    /\ UNCHANGED <<thread, journal, turnFile, unended, audits, outcomes, server,
                   call, todo, prompts, crashes>>

EndRecovery ==
    /\ server = "reattaching" /\ reattach = {}
    /\ server' = "ready"
    /\ UNCHANGED <<thread, disk, runtime, call, todo, reattach, counters>>

----------------------------------------------------------------------------
(* What happens to the server.                                             *)

(* A journal or lineage write raises outside every try block: the call     *)
(* ends, or the recovery, with what it has done so far.                    *)
WriteRaises ==
    /\ call.pc \in {"starting", "creating", "closing_start", "ran", "binding",
                    "closing_thread"}
    /\ Fault(IF ~ At("ran") THEN "record"
             ELSE IF call.entry.seq = 1 THEN "first" ELSE "later")
    /\ IF server = "ready" THEN call' = Idle /\ UNCHANGED <<server, todo, reattach>>
                           ELSE Abandon
    /\ UNCHANGED <<thread, disk, runtime, prompts, runtimes, crashes>>

(* dialogue.read: every completed remote turn needs a local record.        *)
ReadSucceeds(d) == DOMAIN thread[d] \subseteq Recorded(d)

(* Status, consultation and read share the advisory runtime; any of them   *)
(* may start it, or find it broken and drop it.                            *)
OtherCall ==
    /\ Serving
    /\ \/ GetRuntime /\ UNCHANGED faults
       \/ Fault("runtime") /\ Invalidate
    /\ UNCHANGED <<thread, disk, server, call, todo, reattach, prompts, crashes>>

(* The process dies: a turn in flight may have completed, and an append    *)
(* may have left a line without its end.                                   *)
Dies ==
    /\ (At("running") /\ TurnCompletes) \/ UNCHANGED thread
    /\ \/ UNCHANGED <<turnFile, unended, faults>>
       \/ Fault("torn") /\ \E whole \in BOOLEAN : Tears(whole)
    /\ UNCHANGED handle

(* Or run() returns and the stores of the session are removed; its journal *)
(* stays.                                                                  *)
Returns ==
    /\ Serving
    /\ Fault("exit")
    /\ handle' = [d \in Dialogues |-> [status |-> "none", runtime |-> 0]]
    /\ turnFile' = <<>>
    /\ unended' = FALSE
    /\ UNCHANGED thread

ServerEnds ==
    /\ server # "cold"
    /\ crashes < MaxCrashes
    /\ crashes' = crashes + 1
    /\ Dies \/ Returns
    /\ runtime' = 0
    /\ Abandon
    /\ UNCHANGED <<journal, audits, outcomes, prompts, runtimes>>

Start == \/ \E d \in Dialogues : StartIntent(d)
         \/ StartThread \/ StartThreadRaises \/ StartCreatesHandle
         \/ StartCompletes

Reply == \/ \E d \in Dialogues : ReplyIntent(d) \/ ReplyQuarantines(d)
         \/ RunTurn \/ RunTurnRaises \/ WriteDispatched
         \/ RepairUnconfirmed \/ RepairConfirmed
         \/ ResumeInline \/ ResumeInlineFails

Finalize == \/ FinalizeStores \/ FinalizeAudits \/ FinalizeReports
            \/ FinalizeCompletes \/ FinalizeRaises

Recover == \/ BeginRecovery
           \/ \E i \in todo :
                 \/ RecoverThreadIntent(i) \/ RecoverThread(i)
                 \/ RecoveryRaises(i)
                 \/ RecoverTurnUnconfirmed(i) \/ RecoverTurnConfirmed(i)
           \/ RecoverHandle \/ RecoverThreadCompletes
           \/ BeginReattach
           \/ \E d \in Dialogues : Reattach(d) \/ ReattachFails(d)
           \/ EndRecovery

Next == Start \/ Reply \/ Finalize \/ Recover
        \/ WriteRaises \/ OtherCall \/ ServerEnds

Spec == Init /\ [][Next]_vars

(* A call that is being served goes on, and a restarted server recovers.   *)
Goes == \/ StartThread \/ StartCreatesHandle \/ StartCompletes
        \/ RunTurn \/ WriteDispatched \/ RepairUnconfirmed \/ RepairConfirmed
        \/ ResumeInline \/ Finalize \/ Recover

FairSpec == Spec /\ WF_vars(Goes)

----------------------------------------------------------------------------
(* Properties.                                                             *)

(* The write ordering of a turn, whoever finalizes it: a turn whose        *)
(* journal entry is completed is recorded locally under its number, or the *)
(* store shows that it has lost a line, and has one audit event and one    *)
(* outcome of the remote turn of that number.                              *)
CompletedTurnIsFinalized ==
    \A i \in DOMAIN journal :
        LET e == journal[i]
        IN  e.op = "turn_dispatch" /\ e.phase = "completed"
            => /\ e.seq \in DOMAIN thread[e.of]
               /\ e.seq \in Recorded(e.of) \/ Diagnosed
               /\ audits[thread[e.of][e.seq]] = 1
               /\ outcomes[thread[e.of][e.seq]] = 1

(* A dialogue that is offered for the next reply can be read: each of its  *)
(* remote turns, whatever failed before, has its local record.  Excepted   *)
(* are a turn whose dispatched record raised, so that its entry is still   *)
(* an intent, and a store that shows the loss of a line: then the next     *)
(* reply does not trust the store, and finds out.                          *)
Undispatched(d) == {s \in DOMAIN thread[d] :
                       \E i \in DOMAIN journal :
                          /\ journal[i].op = "turn_dispatch"
                          /\ journal[i].phase = "intent"
                          /\ journal[i].of = d /\ journal[i].seq = s}
ActiveDialogueIsReadable ==
    \A d \in Dialogues :
        Serving /\ handle[d].status = "active"
        => \/ ReadSucceeds(d)
           \/ /\ \/ DOMAIN thread[d] \ Recorded(d) \subseteq Undispatched(d)
                 \/ Diagnosed
              /\ ~ FastPath(d)

(* reply() gives a turn the number it will have in the remote thread.      *)
TurnNumberIsNext ==
    At("running") => call.entry.seq = Len(thread[call.of]) + 1

(* An entry that recovery would find unresolved names a dialogue with a    *)
(* handle: the integrity failure that would stop recovery for good cannot  *)
(* arise.                                                                  *)
RecoverableEntries ==
    \A i \in DOMAIN journal :
        journal[i].op = "turn_dispatch" /\ journal[i].phase # "completed"
        => HasHandle(journal[i])

(* The size recorded for a turn is that of its own prompt: it can be that  *)
(* of another one only when an attempt at the same turn number was given   *)
(* up as unconfirmed before.                                               *)
SizeIsOfTurnNumber ==
    \A d \in Dialogues : \A s \in Recorded(d) \cap DOMAIN thread[d] :
        SizeOf(d, s) # thread[d][s]
        => Cardinality({i \in DOMAIN journal :
              journal[i].op = "turn_dispatch"
              /\ journal[i].of = d /\ journal[i].seq = s}) > 1

(* Once nothing fails any more, a restarted server comes to serve the      *)
(* dialogues again, with every remote turn recorded that an unresolved     *)
(* entry accounts for.                                                     *)
Owed(d, s) == /\ s \in DOMAIN thread[d] \ Recorded(d)
              /\ \E i \in Unresolved : journal[i].of = d /\ journal[i].seq = s
RecoveryHeals ==
    (server = "cold" /\ faults = MaxFaults)
        ~> (server = "ready"
            /\ \A d \in Dialogues : \A s \in Prompts : ~ Owed(d, s))
=============================================================================
