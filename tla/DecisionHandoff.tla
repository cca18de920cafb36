-------------------------- MODULE DecisionHandoff --------------------------
(***************************************************************************)
(* The threads that meet in the ResolutionRegistry:                        *)
(*   - a worker parks a request, blocks in wait(), handles the resolution  *)
(*     it is given and discards the entry                                  *)
(*     (delegation_controller.py, _handle_server_request);                 *)
(*   - the MCP main thread, strictly serial (mcp_server.py:352-357), runs  *)
(*     decide() for the operator, or aborts a request whose projection     *)
(*     failed (poll() and start());                                        *)
(*   - the timer of each registered entry.                                 *)
(* The worker that parked an entry is named by the entry's generation: it  *)
(* waits on the event of that generation only.  App Server request ids     *)
(* start over with every runtime, so an id comes back after its discard.   *)
(***************************************************************************)
EXTENDS ResolutionRegistry

CONSTANTS MaxIntentFailures,  \* bound: intent writes of decide() that raise
          HandlerMayFail      \* can a write in the worker's handler raise?

ASSUME HandoffAssumption ==
    /\ MaxIntentFailures \in Nat
    /\ HandlerMayFail \in BOOLEAN

VARIABLES worker,   \* the parked worker of each generation
          main,     \* the main thread inside decide() or an abort
          intent,   \* decision of the last approval_resolution intent record
          failures  \* intent writes that have raised so far

vars == <<entries, nextGeneration, event, timer, worker, main, intent,
          failures>>

OperatorVerdicts == {"approve", "deny"}

WorkerStates == {"none", "waiting", "woken", "handling", "left", "failed"}

NoWorker == [pc |-> "none", got |-> NoResolution]

MainStates == {"idle", "reserved", "intended", "signaling"}

MainIdle == [pc |-> "idle", request |-> AnyRequest, token |-> 0,
             verdict |-> "deny"]

(* The request a generation was registered for: its timer holds it.        *)
RequestOf(g) == timer[g].request

Worker == [pc : WorkerStates, got : Resolutions]
Main   == [pc : MainStates, request : Requests,
           token : Generations \cup {0}, verdict : OperatorVerdicts]

TypeOK ==
    /\ RegistryTypeOK
    /\ worker \in [Generations -> Worker]
    /\ main \in Main
    /\ intent \in [Generations -> OperatorVerdicts \cup {"none"}]
    /\ failures \in 0..MaxIntentFailures

Init ==
    /\ RegistryInit
    /\ worker = [g \in Generations |-> NoWorker]
    /\ main = MainIdle
    /\ intent = [g \in Generations |-> "none"]
    /\ failures = 0

----------------------------------------------------------------------------
(* The worker.                                                             *)

(* register() and the lock section of wait() that fetches the event.       *)
Park(r) ==
    /\ Register(r)
    /\ worker' = [worker EXCEPT ![nextGeneration + 1].pc = "waiting"]
    /\ UNCHANGED <<main, intent, failures>>

(* event.wait() returns.                                                   *)
Wakes(g) ==
    /\ worker[g].pc = "waiting"
    /\ event[g]
    /\ worker' = [worker EXCEPT ![g].pc = "woken"]
    /\ UNCHANGED <<registryVars, main, intent, failures>>

(* wait() takes the lock again and returns entry.pending of whatever entry *)
(* is registered under the request id.                                     *)
TakesResolution(g) ==
    /\ worker[g].pc = "woken"
    /\ worker' = [worker EXCEPT ![g] =
                     [pc  |-> "handling",
                      got |-> entries[RequestOf(g)].pending]]
    /\ UNCHANGED <<registryVars, main, intent, failures>>

(* The handler's store and journal writes are done: registry.discard().    *)
Leaves(g) ==
    /\ worker[g].pc = "handling"
    /\ Discard(RequestOf(g))
    /\ worker' = [worker EXCEPT ![g].pc = "left"]
    /\ UNCHANGED <<nextGeneration, event, main, intent, failures>>

(* One of those writes raises: the exception leaves the handler and the    *)
(* turn, and no one calls discard().                                       *)
HandlerRaises(g) ==
    /\ HandlerMayFail
    /\ worker[g].pc = "handling"
    /\ worker' = [worker EXCEPT ![g].pc = "failed"]
    /\ UNCHANGED <<registryVars, main, intent, failures>>

WorkerStep(g) ==
    \/ Wakes(g)
    \/ TakesResolution(g)
    \/ Leaves(g)
    \/ HandlerRaises(g)

----------------------------------------------------------------------------
(* The main thread.                                                        *)

(* decide(), step 2.  When reserve() returns None the decision is rejected *)
(* as request_already_decided and nothing changes.                         *)
DecideReserves(r, verdict) ==
    /\ main.pc = "idle"
    /\ CanReserve(r)
    /\ Reserve(r, Resolution(verdict))
    /\ main' = [pc |-> "reserved", request |-> r,
                token |-> entries[r].generation, verdict |-> verdict]
    /\ UNCHANGED <<nextGeneration, event, timer, worker, intent, failures>>

(* decide(), step 3: the intent record is appended and fsynced.            *)
DecideWritesIntent ==
    /\ main.pc = "reserved"
    /\ intent' = [intent EXCEPT ![main.token] = main.verdict]
    /\ main' = [main EXCEPT !.pc = "intended"]
    /\ UNCHANGED <<registryVars, worker, failures>>

(* decide(), step 3: the write raises.  The line may have reached the file *)
(* (a failed fsync) or not.                                                *)
DecideIntentFails ==
    /\ failures < MaxIntentFailures
    /\ failures' = failures + 1
    /\ main.pc = "reserved"
    /\ AbortReservation(main.request, main.token)
    /\ \/ intent' = [intent EXCEPT ![main.token] = main.verdict]
       \/ UNCHANGED intent
    /\ main' = MainIdle
    /\ UNCHANGED <<nextGeneration, event, timer, worker>>

(* Fault: the commit does not wait for the journal write.                  *)
DecideCommitsEarly ==
    /\ main.pc \in {"reserved", "intended"}
    /\ entries' = CommittedEntries(main.request, main.token)
    /\ timer' = CommittedTimers(main.request, main.token)
    /\ main' = IF CommitTakesEffect(main.request, main.token)
                 THEN [main EXCEPT !.pc = "signaling"]
                 ELSE MainIdle
    /\ UNCHANGED <<nextGeneration, event, worker, intent, failures>>

(* decide(), step 4: commit_signal() up to the release of the lock.        *)
DecideCommits ==
    /\ main.pc = "intended"
    /\ entries' = CommittedEntries(main.request, main.token)
    /\ timer' = CommittedTimers(main.request, main.token)
    /\ main' = IF CommitTakesEffect(main.request, main.token)
                 THEN [main EXCEPT !.pc = "signaling"]
                 ELSE MainIdle
    /\ UNCHANGED <<nextGeneration, event, worker, intent, failures>>

(* poll() and start() call signal_internal_abort() when the request cannot *)
(* be projected.                                                           *)
AbortsRequest(r) ==
    /\ main.pc = "idle"
    /\ InternalAbort(r)
    /\ main' = [main EXCEPT !.pc = "signaling", !.request = r,
                            !.token = entries[r].generation]
    /\ UNCHANGED <<nextGeneration, event, worker, intent, failures>>

MainSignals ==
    /\ main.pc = "signaling"
    /\ SetEvent(main.token)
    /\ main' = MainIdle
    /\ UNCHANGED <<entries, nextGeneration, timer, worker, intent, failures>>

(* The main thread does not stop in the middle of a call.                  *)
MainContinues ==
    \/ DecideWritesIntent
    \/ DecideIntentFails
    \/ DecideCommits
    \/ MainSignals

----------------------------------------------------------------------------
TimerRuns(g) == TimerStep(g) /\ UNCHANGED <<worker, main, intent, failures>>

(* Every thread has returned and no further request can be parked, because *)
(* the bound is reached or every id is taken by an entry left behind.      *)
Quiescent ==
    /\ main.pc = "idle"
    /\ \/ nextGeneration = MaxGeneration
       \/ \A r \in Requests : entries[r].state # "absent"
    /\ \A g \in Generations :
          /\ worker[g].pc \in {"none", "left", "failed"}
          /\ timer[g].pc \in {"unset", "canceled", "done"}
    /\ UNCHANGED vars

Next ==
    \/ \E r \in Requests : Park(r)
    \/ \E g \in Generations : WorkerStep(g)
    \/ \E g \in Generations : TimerRuns(g)
    \/ \E r \in Requests, v \in OperatorVerdicts : DecideReserves(r, v)
    \/ \E r \in Requests : AbortsRequest(r)
    \/ MainContinues
    \/ Quiescent

(* Threads that have something to run do run; the operator need not call.  *)
Fairness ==
    /\ \A g \in Generations : WF_vars(WorkerStep(g)) /\ WF_vars(TimerRuns(g))
    /\ WF_vars(MainContinues)

Spec     == Init /\ [][Next]_vars
FairSpec == Spec /\ Fairness

----------------------------------------------------------------------------
(* Whoever holds a reservation token (the main thread between reserve()    *)
(* and commit_signal() or abort_reservation(), a timer between reserve()   *)
(* and commit_signal()) holds the current entry, still reserved and still  *)
(* carrying the holder's own resolution.  So commit_signal() never raises  *)
(* (:272-276) and never meets a stale token (:266-271), even though a      *)
(* timer may carry the id of an entry long discarded.                      *)
ReservationIsExclusive ==
    /\ main.pc \in {"reserved", "intended"} =>
          /\ CommitTakesEffect(main.request, main.token)
          /\ entries[main.request].pending = Resolution(main.verdict)
    /\ \A g \in Generations : timer[g].pc = "claimed" =>
          /\ CommitTakesEffect(RequestOf(g), timer[g].token)
          /\ entries[RequestOf(g)].pending = TimeoutResolution(g)

(* The two assertions of wait() (:314-316): a worker whose event has fired *)
(* finds its own entry, decided, with a resolution in it.                  *)
WakeHasResolution ==
    \A g \in Generations : worker[g].pc = "woken" =>
        /\ entries[RequestOf(g)].generation = g
        /\ entries[RequestOf(g)].state \in {"consuming", "aborted"}
        /\ entries[RequestOf(g)].pending.by \in Verdicts

(* Journal before dispatch: when a worker acts on an operator's verdict,   *)
(* the last intent record of that request holds the same verdict, however  *)
(* many earlier attempts failed and whatever they left in the journal.     *)
OperatorVerdictIsJournaled ==
    \A g \in Generations :
        worker[g].got.by \in OperatorVerdicts => intent[g] = worker[g].got.by

(***************************************************************************)
(* The inductive invariant behind the four invariants above: how entries,  *)
(* generations, workers, events and the threads that are about to set an   *)
(* event hang together.                                                    *)
(***************************************************************************)
Decided(r) == entries[r].state \in {"consuming", "aborted"}

(* Is generation g the one registered under its request id now?            *)
Current(g) == entries[RequestOf(g)].generation = g

Registered == 1..nextGeneration

(* Generations are handed out in order, one worker and one timer each.     *)
GenerationInv ==
    \A g \in Generations :
        /\ g \in Registered <=> worker[g].pc # "none"
        /\ g \notin Registered =>
              ~ event[g] /\ timer[g].pc = "unset"

EntryInv ==
    \A r \in Requests :
        /\ entries[r].state = "absent" => entries[r] = NoEntry
        /\ entries[r].state # "absent" =>
              /\ entries[r].generation \in Registered
              /\ RequestOf(entries[r].generation) = r
        /\ entries[r].state = "awaiting" => entries[r].pending = NoResolution
        /\ entries[r].state \in {"reserved", "consuming", "aborted"} =>
              entries[r].pending.by \in Verdicts

(* A worker's entry stays until the worker itself discards it, and it has  *)
(* been decided once the worker is awake.                                  *)
WorkerInv ==
    \A g \in Generations :
        /\ worker[g].pc \in {"waiting", "woken", "handling", "failed"}
              <=> Current(g)
        /\ worker[g].pc \in {"woken", "handling", "failed"}
              => Decided(RequestOf(g))
        /\ worker[g].pc \in {"none", "waiting", "woken"}
              => worker[g].got = NoResolution

(* An event is set, or about to be set, only for a decided entry.          *)
EventInv ==
    /\ \A g \in Generations :
          event[g] /\ Current(g) => Decided(RequestOf(g))
    /\ main.pc = "signaling" =>
          /\ main.token \in Registered
          /\ Current(main.token) => Decided(RequestOf(main.token))
    /\ \A g \in Generations : timer[g].pc = "committed" =>
          /\ timer[g].token \in Registered
          /\ Current(timer[g].token) => Decided(RequestOf(timer[g].token))

(* The intent record of an operator's verdict is there before the entry is *)
(* decided, and no later attempt overwrites it.                            *)
JournalInv ==
    /\ main.pc = "intended" => intent[main.token] = main.verdict
    /\ \A r \in Requests :
          Decided(r) /\ entries[r].pending.by \in OperatorVerdicts =>
              intent[entries[r].generation] = entries[r].pending.by
    /\ OperatorVerdictIsJournaled

HandoffInv ==
    /\ TypeOK
    /\ GenerationInv
    /\ EntryInv
    /\ WorkerInv
    /\ EventInv
    /\ ReservationIsExclusive
    /\ JournalInv

(* Every parked request is resolved in the end, if only by its timer, and  *)
(* its worker gets out of wait() and finishes.                             *)
ParkedRequestFinishes ==
    \A g \in Generations :
        worker[g].pc = "waiting" ~> worker[g].pc \in {"left", "failed"}

(* The same when intent writes may fail: the worker of a parked request is *)
(* left waiting only if a write failed and its one-shot timer ran, found   *)
(* the entry reserved, and is spent.                                       *)
TimerIsSpent(g) == failures > 0 /\ timer[g].pc = "done" /\ ~ event[g]

ParkedFinishesOrTimerSpent ==
    \A g \in Generations :
        worker[g].pc = "waiting"
          ~> worker[g].pc \in {"left", "failed"} \/ TimerIsSpent(g)

(* What the parking of generation g shows of its decision: the entry's     *)
(* until the worker has been handed it, then the worker's copy.            *)
DecisionOf(g) ==
    CASE worker[g].pc = "none" -> "closed"
      [] worker[g].pc \in {"handling", "left", "failed"} -> worker[g].got.by
      [] worker[g].pc \in {"waiting", "woken"} ->
            IF Decided(RequestOf(g)) THEN entries[RequestOf(g)].pending.by
                                     ELSE "open"

Delivered(g) == worker[g].pc \in {"handling", "left", "failed"}

Abstract == INSTANCE RequestDecision WITH
    Parkings  <- Generations,
    decision  <- [g \in Generations |-> DecisionOf(g)],
    delivered <- [g \in Generations |-> Delivered(g)]

(* The detailed registry implements the one-decision channel: each parking *)
(* of a request gets one decision, whichever threads race for it, and its  *)
(* worker is handed that decision and no other, once.                      *)
DecidesOnce == Abstract!Spec
============================================================================
