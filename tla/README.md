# Verification of Switchboard

Switchboard is a SIP application server written in Go. It consists of a
signaling process (`cmd/signaling`), any number of RTP managers
(`cmd/rtpmanager`) that it drives over gRPC, and a read-only web UI. This
directory holds TLA+ models of its state-changing parts, the TLC runs that check
them on small instances and TLAPS proofs for every size of them. `PROJECT.json`
lists components, runs, mutants, the map from definitions to source lines,
findings, hazards and theorems.

## Inventory

| component | state | operations | module |
|---|---|---|---|
| port pool | available and allocated RTP/RTCP pairs | Allocate, Release | RtpManager |
| media session manager | sessions by id, session of a call | CreateSession, UpdateRemoteEndpoint, DestroySession, PlayAudio, StopAudio, CloseAll | RtpManager |
| media bridge manager | bridges by id, bridge of a session, UDP sockets | CreateBridge, DestroyBridge, DestroyBySession | RtpManager |
| playback | a goroutine per playback, `activeCalls` | Play, Stop, streamAudio | RtpManager |
| RTP manager server, process | handlers under way, shutdown | the gRPC requests, GracefulStop | RtpManager |
| dialog manager | dialogs by Call-ID with expiry, ACK watchers, re-INVITE flags | responses, ACK, BYE, CANCEL, Terminate, SendReINVITE | Dialog; B2BUA and Drain use it |
| INVITE/ACK/BYE/CANCEL handlers | a handler and a dialplan goroutine per call | HandleINVITE, executeDialplan, ... | Dialog |
| TTL store | map with expiry, cleanup goroutine | Get, Set, Delete, cleanup | Dialog, Location |
| B2BUA | legs, bridges, the originator's maps, termination callbacks | Dial, Originate, Hangup, Start, Stop, WaitForTermination | B2BUA, Drain |
| resolvers | none: lookups in the location store | CanResolve, Resolve | Resolver, used by Dialplan |
| media pool | health and drain state of nodes, session affinity | selectMember, health checks, CreateSession, CreateSessionOnNode, DestroySession, PlayAudio, BridgeMedia, UnbridgeMedia, StartDrain, CompleteDrain, CancelDrain | Drain, Dialplan |
| drain coordinator, migrator | active drains, migration goroutines | StartDrain, runDrain, MigrateSession, CancelDrain | Drain |
| location service, REGISTER handler | bindings by address of record, with two levels of expiry | Register, Unregister, Lookup | Location, Registrar |
| dialplan | routes, a goroutine per call with its session | Reload, Execute, Dial, PlayAudio, Hangup | Dialplan; the inside of Dial in B2BUA |
| event publishers | a buffered channel, closed flag | Publish, Close | not modelled: nothing constructs one |
| codecs, WAV, SDP, config, API, UI, generated gRPC | - | signal processing, formatting, read-only views | not modelled |

**Interaction.** A SIP request runs a handler in a goroutine of its own. The
INVITE handler creates a dialog, asks the pool for a media session (a gRPC call),
answers, and starts a dialplan goroutine whose dial action originates a second
leg and blocks until the bridge between the legs ends. Legs and bridges tell
each other of their end through callbacks in the goroutine that started the
teardown. The end of a dialog starts the `onTerminated` callback, which destroys
its media session. An operator starts drains over HTTP; they send re-INVITEs for
calls that are up and exchange their media sessions under the running dialplan.

**What is hard.** Nothing holds a lock across a message or an RPC (except
`Bridge.Start`), so every handler acts on state it read earlier. The same call
may be ended at once by both parties, the dialplan, the ACK timer, a drain and
the shutdown. Resources (ports, sockets, media sessions, map entries) are
released by callbacks that run once, from one of several places. All of it is
in memory: there is no crash recovery to model, and a restart loses all calls.
`PROJECT.json` lists the hazards line by line.

**What makes each component correct.**
RTP manager: no port is leaked or given twice, both pairs of maps agree, sockets
follow their owners, a destroyed session falls silent. Dialogs: an active call
can be found, an ended one stays ended, its context is done and its media
session is destroyed. B2BUA: a hangup of either party at any moment ends both
legs, the relay and the dial action. Drain: calls that are not part of a failed
migration keep their media; both legs of a bridge move or neither does; a drain
never hangs and accounts for what it found; a bridge ends with its call.
Dialplan: a call runs the route that the file means, a dial finds whoever is
registered, a prompt is refused only for cause, and when the call is over so is
everything it started, in both processes.
Location: an accepted binding is found until it expires, is removed or is
replaced by a newer one.

## Modules

The MC modules add only model values and symmetry; no configuration replaces a
definition. Definitions named `Mutant: ...` in a comment are the plausible bugs
used to show that a property can fail; no specification uses them.

**RtpManager.tla** (`internal/rtpmanager`, `cmd/rtpmanager`). One critical
section is one action, so `Server.BridgeMedia` is three (copy endpoint A, copy
endpoint B, create the bridge) and a playback runs through
found / starting / streaming / closing / ending. `sess` keeps the objects of
destroyed sessions, which goroutines may still hold; `sessions` is the manager's
map. `bound` is the table of UDP sockets. Session ids never repeat (`uuid.New`).
Left out: audio, packets, counters and `Session.State`, which no decision reads.

**Dialog.tla** (`signaling/dialog`, `routing`, `store`, `app`). A dialog is named by
the INVITE that made it; `store` is the manager's map by Call-ID. `Manager.terminate`
is a task of several steps (wait for the answer to the BYE, mark, store again), so
several of them can overlap. `Env` says what the environment may do: end a call
before its media session is known, hang up from elsewhere, lose a DestroySession
request, outlast the 4 hour entry of the registry.

**B2BUA.tla** (`signaling/b2bua`, `dialplan/session.go`). One inbound call and one
dial. `todo[t]` is the stack of steps goroutine `t` has to execute:
`Leg.Hangup`, its teardown handler, its callbacks, `Bridge.Stop`, which hangs up
the legs again, and so on. This keeps the recursion of the code and its
interleavings without a program counter per function. The dialog manager's
`Terminate` appears with the steps module Dialog gives it. The code only logs the
errors of its RPCs and carries on, so the model does: a DestroySession may fail, after
which the pool has forgotten the session and the RTP manager may still have it (`"lost"`);
UnbridgeMedia may fail and Stop completes all the same (`"kept"`); a BridgeMedia or a
CreateSession that fails or is cut off by the caller's BYE may have been executed, and
its id is unknown (`"stray"`, `"lost"`). `Env` says which RPCs may fail; the cut by the
end of the dialog's context needs no entry of `Env`. `TypeOK` documents the variables;
no run has it as a property.

**Drain.tla** (`signaling/drain`, `mediaclient/pool.go`, `SendReINVITE`, and of the
B2BUA what a drain meets). A migration is a goroutine per session found on the node.
A single call and a bridged one run the same steps over one or two legs. The calls
themselves are set up while drains run: an inbound call selects a node and creates
its session there, dials a callee (whose leg has a session and no dialog until it
answers) and is bridged to it by the ids the legs keep. `health` is the health of a
node with the one counter that can change it, fed by health checks and by failed
creations. `client` is the session the far end sends to, `rtp` the sessions and
`relay` the bridged pairs the RTP managers hold (all external); `handle` is the id
the dialplan and the leg have kept; `stranded` marks the calls a migration left
without media, which the code does not undo, and those it gave a session after their
end had been handled, which nothing destroys any more. Every RPC may fail on a node in
`Flaky`, whatever the pool takes its health to be: a DestroySession that fails is
forgotten by the pool, an UnbridgeMedia that fails leaves the relay while Stop goes on, a BridgeMedia
that fails may have been executed. A dialog that is over drops out of the registry
after a short TTL, so that a migration may find it or not, and it is no owner of a
session once its callback has run. An RPC and the update of the pool's
indices after it are one step: until the update every reader of the indices sees
what it saw before the RPC, so the RPC can be taken to happen together with it.
Only graceful mode is modelled: `app.go:123` gives the migrator no other.

**Resolver.tla** (`b2bua/*_resolver.go`, `Store.LookupByUser`). Pure operators: which
targets a resolver takes, what each of the four lookups of `UserResolver` finds, and
which contacts may come first. `Primary` follows the code, which ranks a binding
without a q-value last; `Rank` is the documented order, in which it counts as 1.0.

**Dialplan.tla** extends RtpManager and Resolver: the composition of the two
processes around one prompt. The executor matches a route, checks the context before
every action, plays, dials or hangs up; `PlayAudio` opens a stream whose server end
is the handler of RtpManager and waits for its final event or for the end of the
dialog's context. Between two lookups of a dial registrations come and go. The call
can end, be migrated to another node, or have its DestroySession request lost at any
moment, and the RTP manager may be shut down. `RtpManager`'s step that lets a stream
break at any time is restricted to what this client does: it breaks when the call
is over. Route ids, priorities beyond their order and file contents are left out.

**Location.tla** and **Registrar.tla** (`signaling/location`, `routing/register.go`).
Location has the map of maps with two levels of expiry, the cleanup goroutine and
the handler that applies contacts one by one. Registrar is the abstract
specification, one function of bindings; the refinement mapping is `Lookup`.

**RtpManagerProofs.tla** (ports, sessions, calls), **RtpMediaProofs.tla** (bridges,
sockets, playbacks), **DialogProofs.tla**, **B2BUAProofs.tla**, **LocationProofs.tla**,
**DrainProofs.tla** (types, nodes), **DrainMediaProofs.tla** (calls, their sessions and
bridges during drains, and what a drain leaves behind) and **DialplanProofs.tla**: the
theorems about the modules they are named after.

## Runs

| run | instance | checks |
|---|---|---|
| `rtp_bridge` | 2 calls, 3 session ids, 2 BridgeMedia requests, ports 3..8 (2 pairs, odd minimum) | port accounting, disjoint pairs, both pairs of maps, sockets |
| `rtp_play` | 1 call, 2 sessions in a row on one pair of ports, 2 playbacks | a destroyed session's playback has its context done and ends; tracking; one final event |
| `dialog_call` | 1 INVITE, up to 3 ends of the call at a time, fairness | registry, media session never orphaned, 200 OK decided |
| `dialog_reuse` | 2 INVITEs with one Call-ID, lost RPCs, expired entries, early ends | an ended dialog is cancelled and stays ended |
| `dialog_leak` | 1 INVITE, early CANCEL | **violated**: `MediaOwned` |
| `b2bua_safe` | 1 dial; caller, callee and a drain may end it, RPCs may fail | bridge watched, B media owned or lost by an RPC, callee released, stopped bridge silent |
| `b2bua_live` | the same without the drain, fairness | a hangup of either party ends the call everywhere |
| `b2bua_eager` | the callee may hang up as soon as its dialog is registered | **violated**: `CalleeHangupEndsCall` |
| `drain_calls` | 2 nodes, a call that dials another, 4 session ids, 2 drains, 3 disruptions | settled calls keep their media, legs move together, drains account for sessions and do not hang, nodes stay in the operator's hands, no orphaned index entry or media bridge but the exceptions the properties name |
| `drain_stale` | 2 nodes, 1 call, 1 drain | **violated**: `DialplanFollows` |
| `dialplan` | 1 call, 2 prompts, 3 route files, 4 dial targets, 4 registrations, fairness | the right route, prompts refused only for cause, dials find who is registered, an ended call unwinds, the shutdown completes |
| `location` | 1 address, 2 devices, 2 Call-IDs, 2 CSeqs, 2 contacts per request, 5 expires values | Location implements Registrar; the entry covers its bindings |

All runs switch deadlock checking off because these systems may come to rest: all
calls over, all ids used, the clock at its bound.

### Bounds

*RTP manager.* Interference is between two users of one port, one call or one bridge.
Three session ids over two pairs let a pair pass from a destroyed session to a new one
while a bridge request still holds the old endpoint; two playbacks over one pair and
two successive sessions do the same for playbacks. The two runs keep bridges and
playbacks apart, the state space of both together being out of reach; that
`SocketOwnership` holds between a bridge and a playback is proved (`SocketsOwned`).
The runs leave out the remote endpoint `"badip"`, a further way for a bridge to fail;
the theorems include it. *Dialog.* `MaxTasks` bounds how many ends of a call are
handled at once: three allow an end that begins before, during and after another's
mark. *B2BUA.* One dial, because its state is per call; each goroutine that can end a
call occurs once. In both passing runs (4.2 million and 0.5 million states) every RPC
may fail; no code acts on the outcome of a DestroySession, so where it may fail
`"lost"` leaves open whether the session is still there. *Drain.* Two nodes give a
drain one target; a second drain may go back the other way. `MaxDisruptions` is a
budget for drains, their cancellations and timeouts, failed checks and failed RPCs:
three allow a drain with two faults or two drains with one (1.0 million states). Two
failures make a node unhealthy and one success heals it, so a failed creation and a
failed check can add up. Calls begin and end freely. `Sid` bounds the sessions ever
created: once used up, further creations are refused, as the code allows anyway; four
allow both legs one migration. *Dialplan.* One call, since calls share only the routes
and the port pool, which `rtp_bridge` covers; two prompts, so that one can meet the
end of the other. The route files have two routes of equal priority that cover one
number, a disabled route of higher priority, a route that ends with a number (`*2`), a
file without a default and an invalid one. The registrations differ in host, device
and q-value, one has none, and one is another user's. *Location.* Time runs to 4 with
lifetimes 2 and 3, so bindings of one entry expire at different times and entries are
made again after cleanup. One handler suffices for the store: it takes arbitrary
contacts one at a time, in any order and with any CSeq, so a second handler adds no
sequence of store operations that one cannot produce.

Two runs restrict the environment on purpose. `dialog_call` lets a call be ended
only once its media session is known, because the earlier case is `dialog_leak`;
`b2bua_live` and `b2bua_safe` hold the callee's BYE back until the leg is answered,
because the earlier case is `b2bua_eager`. Drains do not overlap (`Overlap = FALSE`):
`docs/DEPLOYMENT.md` asks the operator to scale down one RTP manager at a time, and
with overlap a rollback of one drain can destroy the session another has just
given the call.

### Fairness

Weak fairness of the steps of goroutines that can run: the Go scheduler provides
it. SIP transactions, dials and UnbridgeMedia have timeouts; the other RPCs end with
their context or, DestroySession, by the connection's keepalive when the RTP manager is
gone. So their steps are fair too, and each may end with an error. Never fair: anything the far ends, the operator or a file's length decide
(ACK, BYE, CANCEL, responses, starting or cancelling drains, the end of an audio
file). In `b2bua_live` the dial goroutine is fair as a whole: it waits for the
callee no longer than the dial timeout, and so is the executor in `dialplan`. There
the handlers, callbacks and playback goroutines are fair, but no prompt has to end.
That drains do not hang is an invariant (`DrainRuns`: a step is ENABLED), which
needs no fairness.

## Findings

* `dialog_leak`: a CANCEL while `CreateSession` is under way runs the termination
  callback before the session id is recorded; the session is never destroyed.
* `b2bua_eager`: `handle2xx` moves the leg to Answered whatever its state is, so a
  callee that hung up meanwhile is bridged and the caller keeps a call to nobody.
* `drain_stale`: a migration gives the dialog a new media session, but the dialplan
  keeps the id it read when the call started.

Other behaviour of the code that the models have and no property claims is in the
notes of the hazards: the second BYE to a callee, the `legs` entries of failed
dials, a drain that failed and blocks its node, the session a cancelled rollback
leaves on an RTP manager, a late 200 OK after a CANCEL. Others, which properties
exempt by name:

* A playback that is cancelled sends no final event and does not close its channel:
  its handler (`server.go:128`) waits for ever, also when the client is gone, and
  `GracefulStop` waits for the handler (`StopCompletes`).
* The Completed event goes out before the playback leaves `activeCalls`: the next
  prompt can be refused, which ends the call (`RefusedForCause`).
* The media bridge of a migrated call has an id that nobody keeps, so it outlives
  the call (`RelayEnds`); a caller migrated while its callee rings loses the bridge
  (`BridgedTogether`).
* A migration that gives a session to a call whose end has been handled leaks it: the
  callback has destroyed the old one and the dialog is over (`SessionsNamed`).
* Errors of DestroySession and UnbridgeMedia are logged and nothing is tried again, and
  a BridgeMedia or CreateSession cut off by the end of the call may have been executed:
  the session or the relay stays at the RTP manager (`BMediaOwned`, `StoppedIsSilent`,
  `CallerHangupEndsCall`, `CalleeHangupEndsCall`, `RelayEnds`).
* `docs/DIALPLAN.md:61` gives the pattern `*500` as "Ends with 500", and line 55
  calls the matching "glob-style", but `route.go:47-52` knows a `*` at the end only and compares `*500`
  literally, so such a route never runs. `Covers` has the documented sense; `BestRoute`
  exempts the routes with a `*` before the end, of which the run has one.
* `b2bua/lookup.go:69` says a q-value "Default is 1.0 if not specified", as do
  `location/interface.go:23` and `LookupOne` (`store.go:213-215`), but
  `user_resolver.go:84` sorts by the raw value and puts a binding without one last.
  `DialsRegistered` ranks as documented (`Rank`) and exempts the bindings without a
  q-value, of which the run has one at the address of another.
* A drain without a target leaves its entry on the Active node, which can then not
  be drained; a CancelDrain between the two steps of `Pool.CompleteDrain` leaves the
  node Disabled without an entry, and nothing enables it again (`NodeRecovers`).
* Two statements that no run is about: `docs/DIALPLAN.md:49` gives a route's
  priority "default: 100", but a missing priority is 0 and comes first; `pool.go:51` calls the threshold one of "failed
  health checks", but failed creations count too.

## Proofs

Every theorem holds for every value of the constants that satisfies the ASSUMEs of
its module; hypotheses beyond those are named with the theorem. Each is proved from
an inductive invariant, action by action, and every such invariant was checked by
TLC before it was proved.

### The RTP manager

| theorem | states |
|---|---|
| `TypeCorrect` | `Spec => []TypeOK` |
| `PortsAccounted` | `Spec => []PortAccounting` |
| `PairsStayDisjoint` | `Spec => []PairsDisjoint` |
| `CallsIndexed` | `Spec => []CallIndex` |
| `BridgesIndexed` | `Spec => []BridgeIndex` |
| `SocketsOwned` | `Spec => []SocketOwnership` |
| `TrackedAreRunning` | `Spec => []TrackedIsRunning` |
| `DestroySilences` | `Spec => []SilentAfterDestroy` |
| `FinalEventOnce` | `Spec => OneFinalEvent`, an action property |

Assumed of the constants: the ports are numbers with a positive minimum, `None` is
new, request ids are distinct, remote endpoints are of the three kinds. The range may
be empty or odd at either end.

*Ports and calls* (`RtpManagerProofs`). The invariant is `TypeOK` with `SessInv`, the
conjunction of `LiveSessions`, `PortAccounting` and `CallIndex`. Port accounting is
not inductive alone: that destroying a session returns *its* port and clears *its*
call's entry needs to know that live sessions have a call and a real port
(`LiveSessions`) and that the call index and the sessions agree in both directions
(`CallIndex`). `PairsStayDisjoint` adds arithmetic: different even ports have
disjoint pairs (`PairsApart`), and `NewPortPool`'s ports are even with their
successor in range (`PortsEven`).

*Bridges and playbacks* (`RtpMediaProofs`). `SessionLife` says what the object of a
session is worth to the goroutines that still hold it: its context is done exactly
when it has left the manager's map. `BridgeInv` relates the two maps of the bridge
manager and the sockets of a bridge, `PlayInv` the stages of a playback goroutine with
its entry in `activeCalls`, its sockets and the events sent. `SocketOwnership` needs
both at once, because a bridge and a playback bind the same ports: a bind of either
succeeds only where neither has a socket, so owners stay unique. This is the case no
run covers.

### Dialogs

| theorem | states |
|---|---|
| `DialogTypeCorrect` | `Spec => []TypeOK` |
| `EndedStaysCancelled` | `Spec => []EndedIsCancelled` |
| `EndStaysFinal` | `Spec => EndIsFinal`, an action property |
| `ActiveRegistered` | `Spec => []AllRegistered`, for Call-IDs used once and entries that do not outlive their 4 hours |
| `SessionsOwned` | `Spec => []MediaOwned`, for Call-IDs used once, no call ended before its media session is known, no lost DestroySession |

The hypotheses of the last two are those of the run `dialog_call`, and they cannot be
dropped: `dialog_leak` and `dialog_reuse` reach the states they exclude.

Type correctness needs `Handling`, a fact about the handlers (past CreateFromInvite a
handler has a dialog), because a handler changes the dialog it holds and not the one
the registry names. `EndedIsCancelled` is not inductive: the state is marked by a
goroutine that cancelled the context in an earlier step. `MarkersCancelled` carries
that fact over the steps between, and `Unborn` says that a handler that has yet to
store its dialog has not made it, so that `NewDialog` never overwrites one that ended.
The three together are `EndInv`. One lemma, `EndSteps`, goes through the actions once
and shows that each either makes a dialog or keeps the others within bounds (`Kept`);
the invariant and the action property both follow from it. `RegInv` adds which
goroutine may still delete or store an entry; `Stages` and `SessionKnown` say at
which stage of a call which variable knows its media session, so that whichever
goroutine ends the call finds it.

### The B2BUA

| theorem | states |
|---|---|
| `TypeCorrect` | `Spec => []TypeOK` |
| `BridgeIsWatched` | `Spec => []BridgeWatched` |
| `CalleeMediaIsOwned` | `Spec => []BMediaOwned` |
| `CalleeIsReleased` | `Spec => []CalleeReleased` |
| `StoppedBridgeIsSilent` | `Spec => []StoppedIsSilent` |
| `LegsStayDown` | no step brings a Failed or Destroyed leg back, for `"eager" \notin Env` |

They hold for every `Env`: a drain or the shutdown may end either side's dialog, or
both, beside the two parties, every RPC may fail, and all but the last theorem include
the eager callee of `b2bua_eager`. What `BMediaOwned` and `StoppedIsSilent` allow a failed
RPC is tied to it: without `"session"` in `Env` no session is lost but by the end of the
caller's dialog, without `"bridge"` no recorded relay outlives its Stop. `LegsStayDown` cannot, because `handle2xx` then revives the leg of a
callee that has hung up. The run `b2bua_safe` has one drain, failing RPCs and no eager callee; all of
`Env` together is more than TLC gets through in five minutes, and it checked the
invariant for each member of `Env` alone.

Goroutines are lists of steps, and a step may put others before the rest. The proofs
look at the *set* of steps due (`Due`): `Effect(h, S)` says what executing h does to the
state and which steps S it adds (`ExecuteFacts`), and the actions that start a goroutine
add the steps of its list (`Begun`). The invariant `IInv` is `TypeOK` with

* `Quiet`: a goroutine that may still be started has nothing to do, so starting it
  loses no step of another end of the call;
* `Stages`: what the dial action has reached (legs, media, bridge, relay) at each `pc`;
* `Timely`: no Stop before there is a bridge to stop, no UnbridgeMedia before media is
  bridged, no hangup of a callee that has not answered;
* `Silenced`: while recorded media is relayed (`"up"`), the end of a Stop comes after an UnbridgeMedia in
  the same goroutine. This is the one fact that needs the order of steps;
* `Excused`: what is left at the RTP manager was left by an RPC that `Env` or the end of
  the caller's dialog made fail;
* `Watched`: `BridgeWatched` already while Start holds the bridge's lock: a leg that
  ends between the check of its state and Active has its notification still due;
* `Attributed`: only a callee that has hung up, or was sent a BYE, is taken for one that
  has, by its leg, its dialog's context or a step due. `CalleeReleased` needs it, since
  a leg that ended with RemoteBYE is sent none;
* `BMediaOwned` and `CalleeReleased` themselves.

### Location

| theorem | states |
|---|---|
| `LocationTypes` | `Spec => []TypeOK` |
| `EntriesCover` | `Spec => []EntryCovers` |
| `LocationRefines` | `Spec => ImplementsRegistrar`, the refinement |

Assumed: `Config` (lifetimes are positive numbers and ordered, the expires values are
numbers or absent) and `NoneIsFresh`. The invariant `LocInv` is the shape of the store
with `EntryCovers`. The refinement rests on it: `Lookup` reads the bindings of an
entry only while the entry itself has not expired, so that an unexpired binding is
found at all is exactly that its entry outlives it. With it every step of the store
maps to a step of Registrar or, for the cleanup goroutine, to a stutter.

### Drains

| theorem | states |
|---|---|
| `DrainTypeCorrect` | `Spec => []TypeOK` |
| `NodesRecover` | `Spec => []NodeRecovers`, for drains that do not overlap |
| `CallsStayHeard` | `Spec => []CallHeard`, for drains that do not overlap |
| `SessionsStayNamed` | `Spec => []SessionsNamed`, for drains that do not overlap |
| `BridgedCallsStayTogether` | `Spec => []BridgedTogether`, for drains that do not overlap |
| `MediaBridgesEnd` | `Spec => []RelayEnds`, for drains that do not overlap |
| `DrainsAccount` | `Spec => []DrainAccounts`, for drains that do not overlap |

Assumed: `EnoughIds` (the calls' first sessions have distinct names), `OneCaller` (a
leg that a call dials is that call's only, as the originator makes a leg per dial),
`NoChains` (a dialled leg dials nobody: only an inbound INVITE runs a dialplan),
`CalleesLater` (a callee is dialled after its caller is there), `None` is new, and the
positive thresholds. The types need the stages of migrations and operations (`Migs`, `Ops`,
`Handles`): which field of a migration is set depends on how far it has come.
`NodesRecover` uses `NodeInv`: between its steps a drain has the entry it made, and
nothing else may take a node out of service. That is false as soon as drains overlap:
one drain's CancelDrain then meets another's entry, and TLC shows a node left
Disabled.

*Calls and their sessions* (`DrainMediaProofs`), for any number of calls, sessions and
concurrent migrations of a drain. Neither property is inductive: what is true of a
call while it is being moved has to be carried from step to step of its migration.
`MediaInv` says

* `Ids`, `CallOK`: a session id is not used twice, the pool knows a session where it
  is, and the ids a call holds are of sessions made for it (`Owns`). So a step that
  acts on one call leaves the sessions of the others alone (`OnlyCall`), which is the
  frame of all that follows.
* `OpOK`: the sessions a drain found are on its node, and its target is another one.
  A session created for a migration is therefore none of those it found.
* `LegOK`: for leg i of a migration, by its step, which session the dialog names, which
  one the far end sends to, and which the pool knows. Until all legs have moved the
  old sessions stay; a rollback strands the legs whose far end had moved.
* `Apart`: no two migrations are of the same call. MigrateSession finds a call by its
  session id, and SetSessionID changes the id while other migrations still look theirs
  up: `NotMoving` shows from `OpOK` and `LegOK` that the call is then found under a new
  id, which no migration of the drain looks for. Here `OneCaller` and the absence of a
  second drain are used.
* `Heard`: a call that is up, not stranded and in no migration is heard.

`Named` is `SessionsNamed` with the migrations' new sessions cut down to those they
have yet to deal with (`Pending`), a call counting as an owner until it is `Over`: its
end has been handled and no migration has given it a session since; without that a rollback could be done with a
session the pool still has. That SetSessionID takes a name from a session the pool has
already forgotten is `LegOK` for the step before it. TLC checked both invariants on the
instance of `drain_calls` and on three calls with two migrations at a time.

*Bridges and outcomes.* The last three theorems rest on `MediaInv` and on a summary of
the steps: each is a step of one call (`CallStepped`), of one migration
(`MigStepped`, by what it does to the pool, the calls and the relays) or of the
operations and nodes (`OpStepped`), which leave calls and sessions alone.

* `RelayInv`: no two calls ever hold the same session id, as dialog, handle or new
  session of a migration (`OneOwner`); the media bridge a Bridge has recorded is one of
  the session its caller's leg keeps (`BridgeOK`); every media bridge is recorded, or a migration
  that is done made it, or the Bridge's own RPC failed (`RelayOK`). So what a stopped call's sessions still relay was
  recorded by nobody.
* `TogetherInv`: a migration's new sessions are on the target of its drain (`NewAt`);
  the session the leg of a moved callee keeps is one the pool has forgotten, unless a
  migration under way takes the callee back to it, so a Bridge started late on stale ids is
  refused (`CalleeAt`); outside the steps between the last answer of a
  migration and its BridgeMedia, the sessions the two dialogs name are relayed to each
  other (`Relayed`). UnbridgeMedia of *another* call does not end this relay by
  `OneOwner`.
* `AccountInv`, for a drain that has counted no failure: its node stays out of rotation
  and is nobody's target (`Closed`); a session it found stays there as long as it
  exists, has a migration once the drain has left its first step, and is forgotten by
  the pool once that migration has succeeded (`SnapOK`); and if a callee was found and
  its caller is still on the node, the caller was found too (`CallerFound`), because a
  callee has a session only after its caller (`Dialled`) and no session comes to the
  node. A skipped callee is left alone for its caller's migration, and this is why that
  migration exists.

TLC checked the three invariants on the instance of `drain_calls`. The proof
sharpened `DrainAccounts`: that the caller or the callee has ended is no reason of its
own for a session to stay; that the caller's session is off the node is the only one.

### The dialplan

| theorem | states |
|---|---|
| `DialplanRefines` | `DialplanSpec => Spec`: every behaviour of the composition is one of the RTP manager |
| `DialplanTypes` | `DialplanSpec => []CallTypeOK` |
| `RouteIsBest` | `DialplanSpec => []BestRoute` |
| `RefusalsHaveCause` | `DialplanSpec => RefusedForCause`, an action property |
| `DialsFindRegistered` | `DialplanSpec => DialsRegistered`, an action property |

Assumed: a route file is a sequence of routes whose priorities are integers and whose
patterns take numbers (`RouteFiles`, `Numbers`), `None` is no route, the targets are
those the resolvers tell apart, bindings name an address (`Targets`, `Bindings`), and
a domain is a host (`DomainIsHost`).

By `DialplanRefines` all theorems about the RTP manager hold in the composition, and
its invariants are the base (`RtpInv`) of `CallInv`: the route table is sorted
(`RouteTable`), the client's node and the manager's session agree (`Affinity`), and
for every call the `Stage` says what the executor knows at each of its steps (where it
is in its route, which route that is, what the lookups made so far have found, and
whether a prompt can still be playing). `RouteIsBest` is about an insertion sort and a
first match: `SortOrders` shows that the table is a sorted permutation of the enabled
routes, `MatchCovers`, `CoversMatch` and `FirstIsBest` that the first match is the one
the file means, a `*` before the end of a pattern apart. That a glob without one fixes
the beginning of the number is an argument about the first place where they differ
(`LeastOf`), since the prover has no induction. `DialsFindRegistered` has to bridge the lookups, between which registrations
change: `LookupsComplete` says that a registration which is there during all of them
is found by one. `RefusalsHaveCause` is an argument about two processes: the client
begins a prompt only after the final event of the one before, so that what
`PlayAudio` meets in `activeCalls` can only be a playback on its way out.

### Only model-checked

Everything under fairness (`AckDecided`, `DestroyEndsPlayback`, `CallerHangupEndsCall`,
`CalleeHangupEndsCall`, `EndedCallUnwinds`, `StopCompletes`) and `DrainRuns`, which
says ENABLED: out of the prover's reach. Every other invariant and action property of a
passing run is stated by a theorem.

## Not modelled

Codecs, WAV files, RTP packets and SDP text (no decisions others read); the pool's
choice among healthy nodes (any of them); `DialParallel`, `CreateOutboundLeg`,
`Coordinator.Cleanup`, `Dialplan.Reload` after start-up, `sessionImpl.StopAudio`, the
RTP manager's own `CreateSessionPendingRemote` and the transport's index of calls (no
callers); the event publishers (nothing constructs one); the repository of call
records (nothing reads it); the HTTP API and the UI (views; the API's drain commands
are the actions of Drain); configuration and logging; generated code. `Store.Lookup`
ranges over a map that Register writes: the model has the lookup as one step.

## Plan

1. *Done*: RtpManager, Dialog, B2BUA, Drain, Location with Registrar, the dialplan with
   its resolvers, composed with the RTP manager; theorems about all of them.
2. Overlapping drains: which of Drain's theorems hold with `Overlap`, and for which
   pairs of nodes.
3. Abstract specifications: a call as "idle, up, over" that Dialog refines, and a
   media node as a set of owned sessions that RtpManager refines.
4. The far end of a failed dial: a 200 OK that crosses the CANCEL.
