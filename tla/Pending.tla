------------------------------ MODULE Pending ------------------------------
(***************************************************************************)
(* The request registry of a pool (poolmgr/pool.go): RegisterRequest with  *)
(* its 30 s timer, UnregisterRequest, BroadcastToSSE and the goroutine     *)
(* responseDispatcher, used by the handlers that write a JSON-RPC request  *)
(* to a backend process and select on the response channel and on a        *)
(* timeout of their own.                                                   *)
(*                                                                         *)
(* pendingRequests maps an id to the request registered last under it; the *)
(* ids of tools/call come from the client, so two requests of one pool may *)
(* carry the same id.  Time passes in ticks of 10 s or more: a timer that  *)
(* is due and a goroutine that can run have run before the next tick, and  *)
(* two that can run at the same time run in either order.                  *)
(***************************************************************************)
EXTENDS Naturals, Sequences

CONSTANTS
    Requests,      \* request-handling goroutines, one request each
    Ids,           \* JSON-RPC ids
    NoRequest,     \* no entry in pendingRequests
    RegisterTicks, \* the 30 s of RegisterRequest's timer
    Timeouts,      \* timeouts of the handlers' own selects, in ticks
    BroadcastCap   \* capacity of broadcastCh

ASSUME RequestsAssumption == NoRequest \notin Requests
ASSUME TicksAssumption ==
    RegisterTicks \in Nat \ {0} /\ Timeouts \subseteq Nat \ {0}
ASSUME CapAssumption == BroadcastCap \in Nat \ {0}

VARIABLES
    id,          \* the id each request carries
    timeout,     \* the timeout of each request's select
    pending,     \* pendingRequests: id -> the registered request
    respCh,      \* what each response channel buffers: the answer to a request
    chClosed,    \* requests whose response channel is closed
    timer,       \* RegisterRequest's timer: "off", "armed", "done"
    age, waited, \* ticks since RegisterRequest, and of the handler's select
    pc,          \* "idle", "writing", "waiting", "leaving", "done"
    got,         \* the request whose answer the handler received
    answered,    \* requests the backend has answered
    died,        \* requests whose process exited before answering
    broadcastCh, \* answers on their way to the dispatcher
    shut         \* Shutdown has closed broadcastCh

registryVars == <<id, timeout, pending, respCh, chClosed, timer, age, waited, pc,
                  got, answered, died, broadcastCh, shut>>
config == <<id, timeout>>
clocks == <<age, waited>>

RegistryTypeOK ==
    /\ id \in [Requests -> Ids] /\ timeout \in [Requests -> Timeouts]
    /\ pending \in [Ids -> Requests \cup {NoRequest}]
    /\ respCh \in [Requests -> Requests \cup {NoRequest}]
    /\ chClosed \in SUBSET Requests
    /\ timer \in [Requests -> {"off", "armed", "done"}]
    /\ age \in [Requests -> Nat] /\ waited \in [Requests -> Nat]
    /\ pc \in [Requests -> {"idle", "writing", "waiting", "leaving", "done"}]
    /\ got \in [Requests -> Requests \cup {NoRequest}]
    /\ answered \in SUBSET Requests /\ died \in SUBSET Requests
    /\ broadcastCh \in Seq(Requests) /\ shut \in BOOLEAN

RegistryInit ==
    /\ id \in [Requests -> Ids]
    /\ timeout \in [Requests -> Timeouts]
    /\ pending = [i \in Ids |-> NoRequest]
    /\ respCh = [r \in Requests |-> NoRequest]
    /\ chClosed = {}
    /\ timer = [r \in Requests |-> "off"]
    /\ age = [r \in Requests |-> 0] /\ waited = [r \in Requests |-> 0]
    /\ pc = [r \in Requests |-> "idle"]
    /\ got = [r \in Requests |-> NoRequest]
    /\ answered = {} /\ died = {} /\ broadcastCh = <<>> /\ shut = FALSE

(***************************************************************************)
(* The handler.                                                            *)
(***************************************************************************)

\* A second registration of an id replaces the entry and leaves the first
\* request's timer running.
RegisterRequest(r) ==
    /\ pc[r] = "idle"
    /\ pending' = [pending EXCEPT ![id[r]] = r]
    /\ timer' = [timer EXCEPT ![r] = "armed"]
    /\ pc' = [pc EXCEPT ![r] = "writing"]
    /\ UNCHANGED <<config, shut, respCh, chClosed, clocks, got, answered, died,
                   broadcastCh>>

\* proc.Stdin.Write has no deadline: it returns when the process has read enough
\* of its pipe, or has exited.  The select and its timeout begin then.
WriteRequest(r) ==
    /\ pc[r] = "writing"
    /\ pc' = [pc EXCEPT ![r] = "waiting"]
    /\ UNCHANGED <<config, shut, pending, respCh, chClosed, timer, clocks, got,
                   answered, died, broadcastCh>>

Leave(r) == pc[r] = "waiting" /\ pc' = [pc EXCEPT ![r] = "leaving"]

SelectResponse(r) ==
    /\ respCh[r] # NoRequest
    /\ Leave(r)
    /\ got' = [got EXCEPT ![r] = respCh[r]]
    /\ respCh' = [respCh EXCEPT ![r] = NoRequest]
    /\ UNCHANGED <<config, shut, pending, chClosed, timer, clocks, answered, died,
                   broadcastCh>>

\* A closed channel still delivers what it buffers.
SelectClosed(r) ==
    /\ r \in chClosed /\ respCh[r] = NoRequest
    /\ Leave(r)
    /\ UNCHANGED <<config, shut, pending, respCh, chClosed, timer, clocks, got, answered,
                   died, broadcastCh>>

\* Mutant: the timeout is honoured only while the request is registered.
SelectTimeoutMutant(r) ==
    /\ waited[r] >= timeout[r] /\ pending[id[r]] = r
    /\ Leave(r)
    /\ UNCHANGED <<config, shut, pending, respCh, chClosed, timer, clocks, got, answered,
                   died, broadcastCh>>

SelectTimeout(r) ==
    /\ waited[r] >= timeout[r]
    /\ Leave(r)
    /\ UNCHANGED <<config, shut, pending, respCh, chClosed, timer, clocks, got, answered,
                   died, broadcastCh>>

\* Mutant: the entry is left in the map.
UnregisterRequestMutant(r) ==
    /\ pc[r] = "leaving"
    /\ timer' = [timer EXCEPT ![r] = "done"]
    /\ pc' = [pc EXCEPT ![r] = "done"]
    /\ UNCHANGED <<config, shut, pending, respCh, chClosed, clocks, got, answered,
                   died, broadcastCh>>

\* Whatever request is registered under the id is removed and its timer
\* stopped, the caller's own or another's.  Stop comes too late for a timer
\* whose callback already waits for pendingMu.
UnregisterRequest(r) ==
    /\ pc[r] = "leaving"
    /\ LET q == pending[id[r]]
       IN  \/ timer' = [x \in Requests |->
                           IF x = q /\ timer[x] = "armed" THEN "done" ELSE timer[x]]
           \/ /\ q # NoRequest /\ timer[q] = "armed" /\ age[q] >= RegisterTicks
              /\ UNCHANGED timer
    /\ pending' = [pending EXCEPT ![id[r]] = NoRequest]
    /\ pc' = [pc EXCEPT ![r] = "done"]
    /\ UNCHANGED <<config, shut, respCh, chClosed, clocks, got, answered, died,
                   broadcastCh>>

\* Mutant: the timer closes the channel and leaves the entry in the map.
RegisterTimerFiresMutant(r) ==
    /\ timer[r] = "armed" /\ age[r] >= RegisterTicks
    /\ timer' = [timer EXCEPT ![r] = "done"]
    /\ chClosed' = chClosed \cup ({pending[id[r]]} \ {NoRequest})
    /\ UNCHANGED <<config, shut, pending, respCh, clocks, pc, got, answered, died,
                   broadcastCh>>

\* The 30 s timer closes the channel of whatever request has the id.
RegisterTimerFires(r) ==
    /\ timer[r] = "armed" /\ age[r] >= RegisterTicks
    /\ timer' = [timer EXCEPT ![r] = "done"]
    /\ chClosed' = chClosed \cup ({pending[id[r]]} \ {NoRequest})
    /\ pending' = [pending EXCEPT ![id[r]] = NoRequest]
    /\ UNCHANGED <<config, shut, respCh, clocks, pc, got, answered, died,
                   broadcastCh>>

(***************************************************************************)
(* The backend, captureStdout and the dispatcher.                          *)
(***************************************************************************)

\* The process answers; captureStdout hands the line to BroadcastToSSE, which
\* drops it when the channel is full.  Once the pool is shut down the send
\* panics, captureStdout recovers and ends: the answer is lost.
BackendAnswers(r) ==
    /\ pc[r] # "idle" /\ r \notin answered \cup died
    /\ answered' = answered \cup {r}
    /\ broadcastCh' = IF ~shut /\ Len(broadcastCh) < BroadcastCap
                      THEN Append(broadcastCh, r) ELSE broadcastCh
    /\ UNCHANGED <<config, shut, pending, respCh, chClosed, timer, clocks, pc, got,
                   died>>

BackendDies(r) ==
    /\ pc[r] # "idle" /\ r \notin answered \cup died
    /\ died' = died \cup {r}
    /\ UNCHANGED <<config, shut, pending, respCh, chClosed, timer, clocks, pc, got,
                   answered, broadcastCh>>

\* Shutdown closes the channel under the requests that wait; the dispatcher
\* still empties it.
Shutdown ==
    /\ ~shut /\ shut' = TRUE
    /\ UNCHANGED <<config, pending, respCh, chClosed, timer, clocks, pc, got,
                   answered, died, broadcastCh>>

\* Mutant: the answer goes to any registered request.
ResponseDispatcherMutant ==
    /\ broadcastCh # <<>>
    /\ broadcastCh' = Tail(broadcastCh)
    /\ \E i \in Ids :
          /\ pending[i] # NoRequest
          /\ respCh' = [respCh EXCEPT ![pending[i]] = Head(broadcastCh)]
    /\ UNCHANGED <<config, shut, pending, chClosed, timer, clocks, pc, got,
                   answered, died>>

\* The answer goes to the request registered under its id, if there is one
\* and its channel has room.
ResponseDispatcher ==
    /\ broadcastCh # <<>>
    /\ broadcastCh' = Tail(broadcastCh)
    /\ LET r == Head(broadcastCh)
           q == pending[id[r]]
       IN  respCh' = IF q # NoRequest /\ respCh[q] = NoRequest
                     THEN [respCh EXCEPT ![q] = r] ELSE respCh
    /\ UNCHANGED <<config, shut, pending, chClosed, timer, clocks, pc, got,
                   answered, died>>

(***************************************************************************)
(* Time.                                                                   *)
(***************************************************************************)

\* The write of r can return, because its process has read it or has exited.
CanReturn(r) == pc[r] = "writing" /\ r \in answered \cup died

\* The goroutine of r, or the callback of its timer, can run.
Ready(r) == \/ timer[r] = "armed" /\ age[r] >= RegisterTicks
            \/ /\ pc[r] = "waiting"
               /\ waited[r] >= timeout[r] \/ respCh[r] # NoRequest \/ r \in chClosed
            \/ pc[r] = "leaving"

\* A tick is long: whatever can run at its start has run.
Tick ==
    /\ \E r \in Requests : timer[r] = "armed" \/ pc[r] = "waiting"
    /\ \A r \in Requests : ~Ready(r)
    /\ broadcastCh = <<>>
    /\ age' = [r \in Requests |-> IF timer[r] = "armed" THEN age[r] + 1 ELSE age[r]]
    /\ waited' = [r \in Requests |-> IF pc[r] = "waiting" THEN waited[r] + 1 ELSE waited[r]]
    /\ UNCHANGED <<config, shut, pending, respCh, chClosed, timer, pc, got,
                   answered, died, broadcastCh>>

RequestStep(r) ==
    \/ SelectResponse(r) \/ SelectClosed(r) \/ SelectTimeout(r) \/ UnregisterRequest(r)

RegistryNext ==
    \/ \E r \in Requests :
          RegisterRequest(r) \/ WriteRequest(r) \/ RequestStep(r) \/ RegisterTimerFires(r)
          \/ BackendAnswers(r) \/ BackendDies(r)
    \/ ResponseDispatcher \/ Shutdown \/ Tick

RegistrySpec == RegistryInit /\ [][RegistryNext]_registryVars

\* Handlers and timers run, time passes; a backend need not answer, and as long
\* as its process lives it need not read either.
FairRegistrySpec ==
    /\ RegistrySpec
    /\ \A r \in Requests : WF_registryVars(RequestStep(r))
                         /\ WF_registryVars(RegisterTimerFires(r))
                         /\ WF_registryVars(CanReturn(r) /\ WriteRequest(r))
    /\ WF_registryVars(ResponseDispatcher) /\ WF_registryVars(Tick)

(***************************************************************************)
(* Properties.                                                             *)
(***************************************************************************)

\* The dispatcher never sends on, and a timer never closes, a channel that is
\* already closed: a channel leaves pendingRequests in the step that closes
\* it, whatever requests share its id.  Either would panic the bridge.
RegisteredIsOpen == \A i \in Ids : pending[i] # NoRequest => pending[i] \notin chClosed

\* No other request of the pool carries the id of r.
Alone(r) == \A q \in Requests : id[q] = id[r] => q = r

\* A handler whose id no other request carries only ever receives the answer
\* to its own request, whatever the others do to each other.
OwnAnswer == \A r \in Requests : Alone(r) => got[r] \in {r, NoRequest}

\* Every request ends, with or without an answer, even when ids collide and
\* another handler is stuck, provided its own write to the process returns.
RequestsEnd ==
    \A r \in Requests :
        []<>(pc[r] # "writing") => ((pc[r] \in {"writing", "waiting"}) ~> (pc[r] = "done"))

\* The registry drains: an entry does not outlive its request for ever, though
\* a request may remove or lose the entry of another.
RegistryDrains ==
    \A i \in Ids : (pending[i] # NoRequest) ~> (pending[i] = NoRequest)
=============================================================================
