------------------------------ MODULE Dialplan ------------------------------
(***************************************************************************)
(* The dialplan of an answered call, composed with the RTP manager it      *)
(* plays prompts on: the routes (dialplan/route.go, dialplan.go), the      *)
(* executor and its actions (executor.go, action*.go), the call's session  *)
(* (session.go), the client end of a playback (mediaclient/grpc.go,        *)
(* pool.go) and, through RtpManager, the server end.                       *)
(*                                                                         *)
(* The dialog is reduced to what the dialplan sees of it: whether it is    *)
(* over, which also cancels its context (module Dialog), and the callback  *)
(* that frees its media session.  The dial action is the resolution of its *)
(* target (module Resolver) and the outcome of the call to the contact     *)
(* (module B2BUA), a migration what it does to the old session (module     *)
(* Drain).                                                                 *)
(***************************************************************************)
EXTENDS RtpManager, Resolver, Integers, SequencesExt

CONSTANTS
    Config,  \* route files the process may be started with
    Dest     \* dialled numbers, sequences of characters

\* Route, of a route file; an action is its type, "bad" one that the registry
\* cannot create.
Route == [pattern : Seq(STRING), priority : Int, enabled : BOOLEAN,
          actions : Seq(STRING)]

ASSUME RouteFiles == Config \subseteq Seq(Route)
ASSUME Numbers == Dest \subseteq Seq(STRING) \ {<<>>}
ASSUME NoneIsNoRoute == None \notin Route /\ None \notin Seq(Route)

VARIABLES
    routes,   \* Dialplan.routes, or None before Reload
    started,  \* the signaling process: "starting", "up" or "exited"
    dialog,   \* the call's dialog: "none", "up" or "over"
    ivr,      \* the call's dialplan goroutine and its sessionImpl
    tracked,  \* sessions the pool has an affinity entry for
    moved,    \* calls whose session a drain has moved to another node
    freed,    \* calls whose termination callback has run
    lost      \* sessions whose DestroySession request was lost

dpVars == <<routes, started, dialog, ivr, tracked, moved, freed, lost>>
allVars == <<vars, dpVars>>

-----------------------------------------------------------------------------
(* Routes *)

\* Route.Validate: an error for a route without a pattern or an action, or
\* without an id, which decides nothing else and is left out.
Valid(r) == r.pattern # <<>> /\ r.actions # <<>>

\* The pattern Validate compiles: "*", a prefix and "*", or a literal.
IsDefault(r) == r.pattern = <<"*">>
IsPrefixed(r) == r.pattern # <<"*">> /\ Last(r.pattern) = "*"

\* Mutant: Match forgets the enabled flag.
MatchDisabledToo(r, dst) ==
    \/ IsDefault(r)
    \/ IsPrefixed(r) /\ IsPrefix(Front(r.pattern), dst)
    \/ r.pattern = dst

\* Route.Match
Match(r, dst) ==
    /\ r.enabled
    /\ \/ IsDefault(r)
       \/ IsPrefixed(r) /\ IsPrefix(Front(r.pattern), dst)
       \/ r.pattern = dst

\* RouteList.Sort: by priority; sort.Sort promises no order of equals.
Sorted(file) ==
    LET n == Len(file)
        Orders == {f \in [1..n -> 1..n] :
                     /\ \A i, j \in 1..n : f[i] = f[j] => i = j
                     /\ \A i, j \in 1..n : i < j =>
                           file[f[i]].priority <= file[f[j]].priority}
    IN  {[i \in 1..n |-> file[f[i]]] : f \in Orders}

\* RouteList.Match: the first route that matches, or None.
FirstMatch(dst) ==
    LET hits == {i \in 1..Len(routes) : Match(routes[i], dst)}
    IN  IF hits = {} THEN None
        ELSE routes[CHOOSE i \in hits : \A j \in hits : i <= j]

\* New calls Reload once, at start-up: every route is valid, or the process
\* does not start.  Nothing calls Reload again.
Reload(file) ==
    /\ started = "starting"
    /\ IF \A i \in 1..Len(file) : Valid(file[i])
       THEN started' = "up" /\ routes' \in Sorted(file)
       ELSE started' = "exited" /\ UNCHANGED routes
    /\ UNCHANGED <<vars, dialog, ivr, tracked, moved, freed, lost>>

-----------------------------------------------------------------------------
(* The executor *)

IvrPC == {"none", "match", "step", "playing", "resolving", "dialing",
          "finish", "done"}

Idle == [pc |-> "none", dst |-> <<>>, route |-> None, step |-> 1,
         sid |-> None, pid |-> None, look |-> None, terminated |-> FALSE]

DialplanInit ==
    /\ Init
    /\ routes = None
    /\ started = "starting"
    /\ dialog = [c \in Call |-> "none"]
    /\ ivr = [c \in Call |-> Idle]
    /\ tracked = {}
    /\ moved = {}
    /\ freed = {}
    /\ lost = {}

\* A call is answered: CreateSession at the RTP manager, the pool's affinity
\* entry, and executeDialplan in a goroutine with a session that keeps a copy
\* of the media session's id (NewSession).
Invite(c, s, r, dst) ==
    /\ started = "up"
    /\ dialog[c] = "none"
    /\ CreateSession(c, s, r)
    /\ dialog' = [dialog EXCEPT ![c] = "up"]
    /\ tracked' = tracked \cup {s}
    /\ ivr' = [ivr EXCEPT ![c] = [Idle EXCEPT !.pc = "match", !.dst = dst,
                                              !.sid = s]]
    /\ UNCHANGED <<routes, started, moved, freed, lost>>

Goto(c, pc) == ivr' = [ivr EXCEPT ![c].pc = pc]

\* An action succeeded, or failed: the first failure ends the route.
StepDone(c, ok) ==
    ivr' = [ivr EXCEPT ![c].pc = IF ok THEN "step" ELSE "finish",
                       ![c].step = IF ok THEN @ + 1 ELSE @,
                       ![c].look = None]

\* Execute: the route for the number, or ErrNoRouteMatch.
FindRoute(c) ==
    /\ ivr[c].pc = "match"
    /\ LET r == FirstMatch(ivr[c].dst) IN
       ivr' = [ivr EXCEPT ![c].pc = IF r = None THEN "finish" ELSE "step",
                          ![c].route = r]
    /\ UNCHANGED <<vars, routes, started, dialog, tracked, moved, freed,
                   lost>>

\* ctx.Err and IsTerminated, before every action.
Cancelled(c) == dialog[c] = "over" \/ ivr[c].terminated

\* ExecuteRoute is over: no action is left, the call is, or registry.Create
\* does not know the type or its factory refuses the parameters.
RouteOver(c) ==
    LET i == ivr[c] IN
    /\ i.pc = "step"
    /\ \/ i.step \notin DOMAIN i.route.actions
       \/ Cancelled(c)
       \/ i.step \in DOMAIN i.route.actions /\ i.route.actions[i.step] = "bad"
    /\ Goto(c, "finish")
    /\ UNCHANGED <<vars, routes, started, dialog, tracked, moved, freed,
                   lost>>

\* The executor reaches action a of its route.
At(c, a) ==
    /\ ivr[c].pc = "step"
    /\ ivr[c].step \in DOMAIN ivr[c].route.actions
    /\ ~Cancelled(c)
    /\ ivr[c].route.actions[ivr[c].step] = a

\* play_audio: sessionImpl.PlayAudio asks the pool, which knows the session's
\* node, and the stream is opened ...
PlayAudioAction(c, p) ==
    /\ At(c, "play")
    /\ ivr[c].sid \in tracked
    /\ PlayAudio(p, ivr[c].sid)
    /\ ivr' = [ivr EXCEPT ![c].pc = "playing", ![c].pid = p]
    /\ UNCHANGED <<routes, started, dialog, tracked, moved, freed, lost>>

\* ... or the pool, the session manager or the stopped server refuses it.
PlayAudioRefused(c) ==
    /\ At(c, "play")
    /\ \/ ivr[c].sid \notin tracked
       \/ ivr[c].sid \notin sessions
       \/ srv # "running"
    /\ StepDone(c, FALSE)
    /\ UNCHANGED <<vars, routes, started, dialog, tracked, moved, freed,
                   lost>>

\* Mutants: the status of Started ends the wait; the wait does not look at
\* the stream's context.
PlayReturnStarted(c) ==
    LET q == play[ivr[c].pid] IN
    /\ ivr[c].pc = "playing"
    /\ \/ q.rpc \in {"serving", "returned"} /\ StepDone(c, q.ch # "error")
       \/ dialog[c] = "over" /\ StepDone(c, FALSE)
    /\ UNCHANGED <<vars, routes, started, dialog, tracked, moved, freed,
                   lost>>

PlayReturnNoContext(c) ==
    LET q == play[ivr[c].pid] IN
    /\ ivr[c].pc = "playing"
    /\ q.rpc = "returned" /\ StepDone(c, q.ch = "completed")
    /\ UNCHANGED <<vars, routes, started, dialog, tracked, moved, freed,
                   lost>>

\* PlayAudio waits for Completed, for an Error event or the error of the
\* stream, which ends with the dialog's context too.  A playback that is
\* stopped sends nothing: only the context ends the wait for it.
PlayReturn(c) ==
    LET q == play[ivr[c].pid] IN
    /\ ivr[c].pc = "playing"
    /\ \/ q.rpc = "returned" /\ StepDone(c, q.ch = "completed")
       \/ dialog[c] = "over" /\ StepDone(c, FALSE)
    /\ UNCHANGED <<vars, routes, started, dialog, tracked, moved, freed,
                   lost>>

\* dial: the target, once its variables are substituted, and the devices
\* that are registered at this moment.  k is the lookup to come; steady is
\* what has been registered since the beginning.
DialAction(c) ==
    /\ At(c, "dial")
    /\ \E t \in Target : \E reg \in SUBSET Reg :
         /\ ~IsUser(t) => reg = {}
         /\ ivr' = [ivr EXCEPT
               ![c].pc = "resolving",
               ![c].look = [target |-> t, reg |-> reg, k |-> 1,
                            steady |-> reg, contact |-> None]]
    /\ UNCHANGED <<vars, routes, started, dialog, tracked, moved, freed,
                   lost>>

\* Meanwhile a device registers, or its registration ends.
Registration(c) ==
    LET l == ivr[c].look IN
    /\ ivr[c].pc = "resolving" /\ IsUser(l.target)
    /\ \E b \in Reg :
         ivr' = [ivr EXCEPT ![c].look =
                   [l EXCEPT !.reg = IF b \in l.reg THEN l.reg \ {b}
                                                     ELSE l.reg \cup {b},
                             !.steady = l.steady \ {b}]]
    /\ UNCHANGED <<vars, routes, started, dialog, tracked, moved, freed,
                   lost>>

\* ChainResolver.Resolve and Originate: the URI, or the next lookup, or the
\* best contact it finds; no contact after the last lookup, and no resolver
\* for the target, fail the action.
Resolve(c) ==
    LET l == ivr[c].look
        found == LookupBindings(l.reg, l.target.ext, l.k)
        Dials(x) ==
            ivr' = [ivr EXCEPT
                      ![c].pc = "dialing",
                      ![c].look = [target |-> l.target, reg |-> {}, k |-> 1,
                                   steady |-> {}, contact |-> x]]
    IN
    /\ ivr[c].pc = "resolving"
    /\ \/ IsDirect(l.target) /\ Dials(l.target)
       \/ /\ IsUser(l.target) /\ found = {} /\ l.k < Lookups
          /\ ivr' = [ivr EXCEPT ![c].look.k = @ + 1]
       \/ /\ IsUser(l.target)
          /\ \E b \in Primary(found) : Dials(b)
       \/ /\ IsUser(l.target) => found = {} /\ l.k = Lookups
          /\ ~IsDirect(l.target)
          /\ StepDone(c, FALSE)
    /\ UNCHANGED <<vars, routes, started, dialog, tracked, moved, freed,
                   lost>>

\* The call to the contact blocks until the bridged call is over, which ends
\* the dialog, or until the dial fails, by its timeout at the latest.
DialReturn(c) ==
    /\ ivr[c].pc = "dialing"
    /\ \E ok \in BOOLEAN :
         /\ StepDone(c, ok)
         /\ dialog' = IF ok THEN [dialog EXCEPT ![c] = "over"] ELSE dialog
    /\ UNCHANGED <<vars, routes, started, tracked, moved, freed, lost>>

\* hangup: sessionImpl.Hangup marks the session and terminates the dialog.
HangupAction(c) ==
    /\ At(c, "hangup")
    /\ ivr' = [ivr EXCEPT ![c].step = @ + 1, ![c].terminated = TRUE]
    /\ dialog' = [dialog EXCEPT ![c] = "over"]
    /\ UNCHANGED <<vars, routes, started, tracked, moved, freed, lost>>

\* The end of executeDialplan: however the route ended, so does the call, and
\* the goroutine's variables are gone.
Finish(c) ==
    /\ ivr[c].pc = "finish"
    /\ ivr' = [ivr EXCEPT ![c] = [Idle EXCEPT !.pc = "done", !.sid = ivr[c].sid]]
    /\ dialog' = [dialog EXCEPT ![c] = "over"]
    /\ UNCHANGED <<vars, routes, started, tracked, moved, freed, lost>>

-----------------------------------------------------------------------------
(* What happens to the call meanwhile *)

\* A BYE of the caller, or any other end of the dialog.
CallerHangup(c) ==
    /\ dialog[c] = "up"
    /\ dialog' = [dialog EXCEPT ![c] = "over"]
    /\ UNCHANGED <<vars, routes, started, ivr, tracked, moved, freed, lost>>

\* Mutant: an RPC that fails leaves the affinity entry.
PoolDestroySessionKeepsEntry(s) ==
    IF s \in sessions
    THEN \/ DestroySession(s) /\ tracked' = tracked \ {s} /\ UNCHANGED lost
         \/ lost' = lost \cup {s} /\ UNCHANGED <<vars, tracked>>
    ELSE tracked' = tracked \ {s} /\ UNCHANGED <<vars, lost>>

\* Pool.DestroySession: the request reaches the RTP manager, which may have
\* no such session any more, or is lost; the affinity entry goes in any case.
PoolDestroySession(s) ==
    /\ tracked' = tracked \ {s}
    /\ IF s \in sessions
       THEN \/ DestroySession(s) /\ UNCHANGED lost
            \/ lost' = lost \cup {s} /\ UNCHANGED vars
       ELSE UNCHANGED <<vars, lost>>

\* The dialog's termination callback frees the session the dialog names: the
\* one it was answered with, unless a migration has replaced that.
OnTerminated(c) ==
    /\ dialog[c] = "over" /\ c \notin freed
    /\ freed' = freed \cup {c}
    /\ IF c \in moved THEN UNCHANGED <<vars, tracked, lost>>
                      ELSE PoolDestroySession(ivr[c].sid)
    /\ UNCHANGED <<routes, started, dialog, ivr, moved>>

\* A drain moves the call to another RTP manager and destroys its session
\* here, whatever is being played on it.
MigrateAway(c) ==
    /\ dialog[c] = "up" /\ c \notin moved
    /\ moved' = moved \cup {c}
    /\ PoolDestroySession(ivr[c].sid)
    /\ UNCHANGED <<routes, started, dialog, ivr, freed>>

-----------------------------------------------------------------------------
(* Steps of the RTP manager *)

\* Sending an event fails only after the client has cancelled the stream.
ServeEvents(p) ==
    /\ Handler(p)
    /\ play[p].rpc = "started" /\ play[p].pc # "found"
          /\ play'[p].rpc = "returned" => dialog[play[p].call] = "over"
    /\ UNCHANGED dpVars

RunPlayback(p) == Goroutine(p) /\ UNCHANGED dpVars

Shutdown == (GracefulStop \/ CloseAll) /\ UNCHANGED dpVars

\* Fresh identifiers are interchangeable: the next one is any fixed one.
NextOf(S) == IF S = {} THEN {} ELSE {CHOOSE x \in S : TRUE}
NewCall == NextOf({c \in Call : dialog[c] = "none"})
NewSid == NextOf({s \in Sid : Fresh(s)})
NewPid == NextOf({p \in Pid : play[p].rpc = "idle"})

ExecutorStep(c) ==
    \/ FindRoute(c) \/ RouteOver(c)
    \/ (\E p \in NewPid : PlayAudioAction(c, p))
    \/ PlayAudioRefused(c) \/ PlayReturn(c)
    \/ DialAction(c) \/ Resolve(c) \/ DialReturn(c) \/ HangupAction(c) \/ Finish(c)

DialplanNext ==
    \/ \E f \in Config : Reload(f)
    \/ \E c \in NewCall, s \in NewSid, r \in Remote, d \in Dest :
          Invite(c, s, r, d)
    \/ \E c \in Call :
          \/ ExecutorStep(c)
          \/ Registration(c)
          \/ CallerHangup(c)
          \/ OnTerminated(c)
          \/ MigrateAway(c)
    \/ \E p \in Pid : ServeEvents(p) \/ RunPlayback(p)
    \/ Shutdown

(***************************************************************************)
(* Fairness.  Goroutines that can run do: those of the executor and of the *)
(* callbacks on one side, the handlers and playbacks on the other.  No     *)
(* caller has to hang up, no file to end, no drain or shutdown to begin.   *)
(***************************************************************************)
PlaybackStep(p) == (Bind(p) \/ StreamCancel(p) \/ StreamReturn(p) \/ PlayEnd(p))
                   /\ UNCHANGED dpVars

DialplanFairness ==
    /\ \A c \in Call : /\ WF_allVars(ExecutorStep(c))
                       /\ WF_allVars(OnTerminated(c))
    /\ \A p \in Pid : /\ WF_allVars(PlaybackStep(p))
                      /\ WF_allVars(ServeEvents(p))
    /\ WF_allVars(CloseAll /\ UNCHANGED dpVars)

DialplanSpec ==
    DialplanInit /\ [][DialplanNext]_allVars /\ DialplanFairness

-----------------------------------------------------------------------------
(* Properties *)

\* Every variable of the signaling side has its type; a dialplan runs for a
\* dialog and waits for a playback on its own session.
CallTypeOK ==
    /\ started = "up" <=> routes # None
    /\ dialog \in [Call -> {"none", "up", "over"}]
    /\ \A c \in Call :
         /\ ivr[c].pc \in IvrPC
         /\ ivr[c].pc = "none" <=> dialog[c] = "none"
         /\ ivr[c].pc = "playing" => play[ivr[c].pid].sid = ivr[c].sid
    /\ tracked \subseteq Sid /\ lost \subseteq Sid \ tracked
    /\ moved \cup freed \subseteq Call

\* docs/DIALPLAN.md: "Patterns use glob-style matching", a * standing for any
\* characters wherever it is (`*500` "Ends with 500").  at: where in the number
\* the part for each character of the pattern begins.
Covers(pattern, dst) ==
    LET n == Len(pattern)
        m == Len(dst)
    IN  \E at \in [1..(n + 1) -> 1..(m + 1)] :
           /\ at[1] = 1 /\ at[n + 1] = m + 1
           /\ \A i \in 1..n :
                IF pattern[i] = "*" THEN at[i] <= at[i + 1]
                ELSE at[i + 1] = at[i] + 1 /\ pattern[i] = dst[at[i]]

\* route.go knows a * at the end only; elsewhere it is a character.
StarLast(pattern) == \A i \in 1..(Len(pattern) - 1) : pattern[i] # "*"

\* Whatever the order of the routes in the file: a call runs an enabled route
\* that covers its number, and no such route precedes it, or is left out if it
\* runs none - but for those with a * before the end of their pattern, which
\* docs/DIALPLAN.md:61 promises and route.go:47-52 takes literally.
BestRoute ==
    \A c \in Call : ivr[c].pc \notin {"none", "match", "done"} =>
        LET fits == {i \in 1..Len(routes) :
                       routes[i].enabled /\ Covers(routes[i].pattern,
                                                   ivr[c].dst)}
            kept == {i \in fits : StarLast(routes[i].pattern)}
        IN  IF ivr[c].route = None THEN kept = {}
            ELSE \E i \in fits : /\ routes[i] = ivr[c].route
                                 /\ \A j \in kept : routes[i].priority
                                                      <= routes[j].priority

\* A prompt is refused only because the caller gave no port for its audio, or
\* because an earlier prompt of the call has sent its final event and has not
\* yet left activeCalls (media/service.go): a prompt never meets one that still
\* plays.  The second case does happen.
RefusedForCause ==
    [][\A p \in Pid : play[p].pc = "found" /\ play'[p].pc = "done" =>
          \/ sess[play[p].sid].remote = "none"
          \/ LET q == activeCalls[play[p].call] IN
             q # None /\ play[q].ch # "open"]_allVars

\* A dial gives up for want of a contact only if no device was registered for
\* the extension all the while, whatever form its address has, and rings one
\* that is registered for it and that no device which was found in the same
\* lookup and was there all the while precedes in rank - unless that device
\* gave no q-value: it should come first, and user_resolver.go:84 puts it last.
DialsRegistered ==
    [][\A c \in Call :
         LET l == ivr[c].look
             ext == l.target.ext
         IN
         ivr[c].pc = "resolving" /\ IsUser(l.target) =>
           /\ ivr'[c].pc = "finish" =>
                 \A b \in l.steady : ~RegisteredFor(ext, b)
           /\ ivr'[c].pc = "dialing" =>
                 LET x == ivr'[c].look.contact IN
                 /\ x \in l.reg /\ RegisteredFor(ext, x)
                 /\ \A b \in l.steady :
                       b.aor = x.aor => b.q = 0 \/ Rank(b) <= Rank(x)]_allVars

\* A call that is over is over everywhere: its dialplan returns, also from a
\* playback that was cancelled and will never send an event, and its media
\* session is gone - except one whose DestroySession request was lost, which
\* nothing repeats.
EndedCallUnwinds ==
    \A c \in Call : dialog[c] = "over" ~>
        ivr[c].pc = "done" /\ ivr[c].sid \notin sessions \ lost

\* The PlayAudio handler of a playback that ended without a final event.
Stuck(p) == play[p].rpc = "serving" /\ play[p].pc = "done" /\ play[p].ch = "open"

\* GracefulStop waits for prompts that still play, and for ever for handlers
\* of cancelled ones; nothing else keeps the RTP manager from closing.
StopCompletes ==
    srv = "stopping" ~>
        \/ srv = "closed"
        \/ \E p \in Pid : Stuck(p) \/ play[p].pc = "streaming"
=============================================================================
