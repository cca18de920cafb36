------------------------- MODULE ResolutionRegistry -------------------------
(***************************************************************************)
(* The per-request channel of src/server/resolution_registry.py: one entry *)
(* per parked approval request, a compare-and-set that only one decider    *)
(* wins, a threading.Event that wakes the worker, and a one-shot timer.    *)
(*                                                                         *)
(* This module has the shared state and what each method does to it in one *)
(* critical section of the registry lock.  DecisionHandoff has the threads *)
(* that call the methods.  An event and a timer are objects of their own   *)
(* that outlive the entry, so both are indexed by the generation the entry *)
(* was given when it was registered.                                       *)
(***************************************************************************)
EXTENDS Naturals

CONSTANTS Requests,         \* request ids (the wire ids of the App Server)
          MaxGeneration     \* bound: how many registrations are explored

ASSUME RegistryAssumption ==
    /\ Requests # {}
    /\ MaxGeneration \in Nat

VARIABLES entries,          \* _entries, by request id
          nextGeneration,   \* _next_generation
          event,            \* threading.Event of each generation: is it set?
          timer             \* threading.Timer of each generation

registryVars == <<entries, nextGeneration, event, timer>>

Generations == 1..MaxGeneration

(***************************************************************************)
(* A resolution: who decided, and for a timeout the generation of the      *)
(* timer that built it.  The payload and the kind are not told apart here. *)
(***************************************************************************)
Verdicts     == {"approve", "deny", "timeout", "abort"}
NoResolution == [by |-> "nobody", timer |-> 0]
(* Fault: a resolution is built without its timer field.                   *)
BareResolution(verdict) == [by |-> verdict]

Resolution(verdict)  == [by |-> verdict, timer |-> 0]
TimeoutResolution(g) == [by |-> "timeout", timer |-> g]

Resolutions == [by : Verdicts \cup {"nobody"}, timer : Generations \cup {0}]

EntryStates == {"absent", "awaiting", "reserved", "consuming", "aborted"}

NoEntry == [state |-> "absent", generation |-> 0, pending |-> NoResolution]

(***************************************************************************)
(* A timer thread: waiting for its interval ("armed"), or inside           *)
(* _timer_fire: called ("expired"), past the lookup ("looked_up"), holding *)
(* a reservation ("claimed"), past the commit ("committed").  "token" is   *)
(* the generation of the reservation it holds.                             *)
(***************************************************************************)
TimerStates ==
    {"unset", "armed", "canceled", "expired", "looked_up", "claimed",
     "committed", "done"}

AnyRequest == CHOOSE r \in Requests : TRUE
NoTimer    == [pc |-> "unset", request |-> AnyRequest, token |-> 0]

Entry == [state : EntryStates, generation : Generations \cup {0},
          pending : Resolutions]
Timer == [pc : TimerStates, request : Requests, token : Generations \cup {0}]

RegistryTypeOK ==
    /\ entries \in [Requests -> Entry]
    /\ nextGeneration \in Generations \cup {0}
    /\ event \in [Generations -> BOOLEAN]
    /\ timer \in [Generations -> Timer]

RegistryInit ==
    /\ entries = [r \in Requests |-> NoEntry]
    /\ nextGeneration = 0
    /\ event = [g \in Generations |-> FALSE]
    /\ timer = [g \in Generations |-> NoTimer]

----------------------------------------------------------------------------
(* Timer.cancel(): it stops a timer that still waits; a callback that has  *)
(* started runs on.                                                        *)
Canceled(timers, g) ==
    [timers EXCEPT ![g].pc = IF @ = "armed" THEN "canceled" ELSE @]

(* register(): a duplicate id raises before anything changes.              *)
Register(r) ==
    /\ entries[r].state = "absent"
    /\ nextGeneration < MaxGeneration
    /\ nextGeneration' = nextGeneration + 1
    /\ entries' = [entries EXCEPT ![r] =
                      [state      |-> "awaiting",
                       generation |-> nextGeneration + 1,
                       pending    |-> NoResolution]]
    /\ timer' = [timer EXCEPT ![nextGeneration + 1] =
                      [pc |-> "armed", request |-> r, token |-> 0]]
    /\ UNCHANGED event

(* Fault: reserve() only checks that the entry exists.                     *)
CanReserveAnything(r) == entries[r].state # "absent"

(* Fault: a second decider may claim a reserved entry.                     *)
CanReserveReserved(r) == entries[r].state \in {"awaiting", "reserved"}

(* reserve() returns None, and changes nothing, unless this holds.         *)
CanReserve(r) == entries[r].state = "awaiting"

(* reserve(): awaiting -> reserved.  The token is the entry's generation.  *)
Reserve(r, resolution) ==
    entries' = [entries EXCEPT ![r].state = "reserved",
                               ![r].pending = resolution]

(* The two checks of commit_signal(): a stale token makes it a no-op, an   *)
(* entry that is not reserved makes it raise.  Neither sets the event.     *)
CommitTakesEffect(r, token) ==
    /\ entries[r].generation = token
    /\ entries[r].state = "reserved"

(* commit_signal() under the lock: reserved -> consuming, timer canceled.  *)
(* The caller sets the event after it has released the lock.               *)
CommittedEntries(r, token) ==
    IF CommitTakesEffect(r, token)
      THEN [entries EXCEPT ![r].state = "consuming"]
      ELSE entries

CommittedTimers(r, token) ==
    IF CommitTakesEffect(r, token) THEN Canceled(timer, token) ELSE timer

(* abort_reservation(): reserved -> awaiting.  No timer is armed again.    *)
AbortReservation(r, token) ==
    entries' = IF CommitTakesEffect(r, token)
                 THEN [entries EXCEPT ![r].state = "awaiting",
                                      ![r].pending = NoResolution]
                 ELSE entries

(* Fault: the abort forgets to leave its resolution in the entry.          *)
InternalAbortWithoutReason(r) ==
    /\ entries[r].state = "awaiting"
    /\ entries' = [entries EXCEPT ![r].state = "aborted"]
    /\ timer' = Canceled(timer, entries[r].generation)

(* signal_internal_abort() under the lock: awaiting -> aborted.            *)
InternalAbort(r) ==
    /\ entries[r].state = "awaiting"
    /\ entries' = [entries EXCEPT ![r].state = "aborted",
                                  ![r].pending = Resolution("abort")]
    /\ timer' = Canceled(timer, entries[r].generation)

(* Fault: discard() marks the entry as gone but leaves it in the registry. *)
DiscardKeepsEntry(r) ==
    /\ entries' = [entries EXCEPT ![r].state = "absent"]
    /\ timer' = IF entries[r].state = "absent"
                  THEN timer
                  ELSE Canceled(timer, entries[r].generation)

(* discard(): pops the entry, whatever its state, and cancels its timer.   *)
Discard(r) ==
    /\ entries' = [entries EXCEPT ![r] = NoEntry]
    /\ timer' = IF entries[r].state = "absent"
                  THEN timer
                  ELSE Canceled(timer, entries[r].generation)

(* The last statement of commit_signal() and signal_internal_abort().      *)
SetEvent(g) == event' = [event EXCEPT ![g] = TRUE]

----------------------------------------------------------------------------
(* threading.Timer: the interval is over and _timer_fire is called.        *)
TimerExpires(g) ==
    /\ timer[g].pc = "armed"
    /\ timer' = [timer EXCEPT ![g].pc = "expired"]
    /\ UNCHANGED <<entries, nextGeneration, event>>

(* _timer_fire, first critical section: any entry under the id will do.    *)
TimerLooksUp(g) ==
    /\ timer[g].pc = "expired"
    /\ timer' = [timer EXCEPT ![g].pc =
                    IF entries[timer[g].request].state = "absent"
                      THEN "done" ELSE "looked_up"]
    /\ UNCHANGED <<entries, nextGeneration, event>>

(* _timer_fire calls reserve(): it either gets a token or gives up.        *)
TimerReserves(g) ==
    LET r == timer[g].request IN
    /\ timer[g].pc = "looked_up"
    /\ \/ /\ CanReserve(r)
          /\ Reserve(r, TimeoutResolution(g))
          /\ timer' = [timer EXCEPT ![g].pc = "claimed",
                                    ![g].token = entries[r].generation]
       \/ /\ ~ CanReserve(r)
          /\ timer' = [timer EXCEPT ![g].pc = "done"]
          /\ UNCHANGED entries
    /\ UNCHANGED <<nextGeneration, event>>

(* _timer_fire calls commit_signal().                                      *)
TimerCommits(g) ==
    LET r == timer[g].request
        t == timer[g].token IN
    /\ timer[g].pc = "claimed"
    /\ entries' = CommittedEntries(r, t)
    /\ timer' = [CommittedTimers(r, t) EXCEPT ![g].pc =
                    IF CommitTakesEffect(r, t) THEN "committed" ELSE "done"]
    /\ UNCHANGED <<nextGeneration, event>>

(* Fault: the timer commits its timeout but does not set the event.        *)
TimerForgetsSignal(g) ==
    /\ timer[g].pc = "committed"
    /\ timer' = [timer EXCEPT ![g].pc = "done"]
    /\ UNCHANGED <<entries, nextGeneration, event>>

TimerSignals(g) ==
    /\ timer[g].pc = "committed"
    /\ SetEvent(timer[g].token)
    /\ timer' = [timer EXCEPT ![g].pc = "done"]
    /\ UNCHANGED <<entries, nextGeneration>>

TimerStep(g) ==
    \/ TimerExpires(g)
    \/ TimerLooksUp(g)
    \/ TimerReserves(g)
    \/ TimerCommits(g)
    \/ TimerSignals(g)
============================================================================
