------------------------------ MODULE LiveView ------------------------------
(***************************************************************************)
(* A development loop watched over its IPC socket: the threads of the      *)
(* runner that emit events (ipc/events.py, core/loop/runner.py), the       *)
(* server thread that broadcasts them and answers get_state                *)
(* (ipc/server.py), the client that reads them and reconnects              *)
(* (ipc/client.py) and the terminal interface that shows the current phase *)
(* (tui/app.py, tui/event_bridge.py).                                      *)
(*                                                                         *)
(* Of the events the model keeps phase_started, metrics and goodbye.  Log  *)
(* events are left out, so that a number may be missing before any event   *)
(* that is read.  One client is connected.  The pings that verify a        *)
(* connection are part of making it.                                       *)
(***************************************************************************)
EXTENDS Naturals, Sequences

CONSTANTS
    MaxPhase,       \* bound: phases of a run
    MaxRetries,     \* max_retries of the client
    Backlog         \* bound: messages under way when metrics are emitted

ASSUME LiveViewAssumption ==
    /\ MaxPhase \in Nat \ {0}    \* a run has a phase
    /\ {MaxRetries, Backlog} \subseteq Nat

VARIABLES
    runner,     \* where the main thread is, its phase, the cached phase of
                \* the server, and whether goodbye was sent
    metrics,    \* where the metrics thread is and the phase it read
    sched,      \* the broadcasts scheduled on the loop of the server
    link,       \* the connection, as the server left it
    chan,       \* the messages written to the client and not yet read
    client,     \* the state of the SocketClient
    attempts,   \* reconnect attempts so far
    asks,       \* asks[k]: where get_state request k is, and its answer
    tui,        \* where the main loop of the interface is
    subscribed, \* the event bridge is subscribed
    leaving,    \* what was requested: "discovery" by _on_reconnect_failed,
                \* "disconnect" by the goodbye handler
    view        \* the phase shown; 0 is none

runnerVars == <<runner, metrics>>
serverVars == <<sched, link, chan>>
clientVars == <<client, attempts, asks>>
tuiVars == <<tui, subscribed, leaving, view>>
vars == <<runnerVars, serverVars, clientVars, tuiVars>>

Shown == 0..MaxPhase

\* The state is asked for before the interface subscribes ("hydrate") and
\* after a gap or a reconnect ("refresh"; one at a time).
Ask == {"hydrate", "refresh"}
Event == [type : {"phase", "metrics", "goodbye", "stopped"}, phase : Shown]
Answered == [type : {"answer"}, phase : Shown, to : Ask]
Waiting == [at |-> "wait", phase |-> 0]
NoAsk == [at |-> "none", phase |-> 0]

TypeOK ==
    /\ runner \in [at : {"down", "emit", "cache", "phase", "bye", "closing"},
                   phase : Shown, cache : Shown]
    /\ metrics \in [at : {"wait", "emit", "store"}, phase : Shown]
    /\ sched \in Seq(Event)
    /\ link \in {"none", "open", "closed"}
    /\ chan \in Seq(Event \cup Answered)
    /\ client \in {"disconnected", "connected", "reconnecting", "closed"}
    /\ attempts \in 0..MaxRetries
    /\ asks \in [Ask -> [at : {"none", "asked", "replied", "answered", "failed"},
                         phase : Shown]]
    /\ tui \in {"discover", "hydrate", "watch"}
    /\ subscribed \in BOOLEAN
    /\ leaving \subseteq {"discovery", "disconnect"}
    /\ view \in Shown

Init ==
    /\ runner = [at |-> "down", phase |-> 0, cache |-> 0]
    /\ metrics = Waiting
    /\ sched = <<>>
    /\ link = "none"
    /\ chan = <<>>
    /\ client = "disconnected"
    /\ attempts = 0
    /\ asks = [k \in Ask |-> NoAsk]
    /\ tui = "discover"
    /\ subscribed = FALSE
    /\ leaving = {}
    /\ view = 0
-----------------------------------------------------------------------------
(***************************************************************************)
(* The runner: the main thread and the metrics thread.                     *)
(***************************************************************************)
\* Bound: a client reads the end of its stream before the next run starts.
StartRun ==
    /\ runner.at = "down"
    /\ link # "closed"
    /\ runner' = [at |-> "emit", phase |-> 1, cache |-> 1]
    /\ UNCHANGED <<metrics, serverVars, clientVars, tuiVars>>

\* emit: the broadcast of the event is scheduled.
Emit(type, phase) == sched' = Append(sched, [type |-> type, phase |-> phase])

EmitPhaseStarted ==
    /\ runner.at = "emit"
    /\ Emit("phase", runner.phase)
    /\ runner' = [runner EXCEPT !.at = "cache"]
    /\ UNCHANGED <<metrics, link, chan, clientVars, tuiVars>>

UpdateState ==
    /\ runner.at = "cache"
    /\ runner' = [runner EXCEPT !.at = "phase", !.cache = runner.phase]
    /\ UNCHANGED <<metrics, serverVars, clientVars, tuiVars>>

PhaseEnds ==
    /\ runner.at = "phase"
    /\ runner.phase < MaxPhase
    /\ runner' = [runner EXCEPT !.at = "emit", !.phase = @ + 1]
    /\ UNCHANGED <<metrics, serverVars, clientVars, tuiVars>>

\* The loop ends ("goodbye" with reason normal) or is stopped.
EmitGoodbye ==
    /\ runner.at = "phase"
    /\ \E type \in {"goodbye", "stopped"} : Emit(type, 0)
    /\ runner' = [runner EXCEPT !.at = "bye"]
    /\ UNCHANGED <<metrics, link, chan, clientVars, tuiVars>>

\* stop_metrics joins the thread; then the cached state is IDLE.
StopMetrics ==
    /\ runner.at = "bye"
    /\ metrics.at = "wait"
    /\ runner' = [runner EXCEPT !.at = "closing", !.cache = 0]
    /\ UNCHANGED <<metrics, serverVars, clientVars, tuiVars>>

\* SocketServer.stop runs after the broadcasts scheduled before it.
StopServer ==
    /\ runner.at = "closing"
    /\ sched = <<>>
    /\ runner' = [runner EXCEPT !.at = "down"]
    /\ link' = IF link = "open" THEN "closed" ELSE link
    /\ UNCHANGED <<metrics, sched, chan, clientVars, tuiVars>>

\* The process is killed: what the socket did not take yet is lost.
Kill ==
    /\ runner.at # "down"
    /\ runner' = [runner EXCEPT !.at = "down"]
    /\ metrics' = Waiting
    /\ sched' = <<>>
    /\ link' = IF link = "open" THEN "closed" ELSE link
    /\ \E n \in 0..Len(chan) : chan' = SubSeq(chan, 1, n)
    /\ UNCHANGED <<clientVars, tuiVars>>

\* Bound: no more than Backlog messages wait when a snapshot is emitted.
Full == Len(sched) + Len(chan) >= Backlog

\* _metrics_loop reads the state and then whether goodbye was sent.
MetricsRead ==
    /\ metrics.at = "wait"
    /\ runner.at \in {"emit", "cache", "phase", "bye"}
    /\ metrics' = [at |-> IF runner.at = "bye" \/ Full THEN "store" ELSE "emit",
                   phase |-> runner.phase]
    /\ UNCHANGED <<runner, serverVars, clientVars, tuiVars>>

MetricsEmit ==
    /\ metrics.at = "emit"
    /\ Emit("metrics", 0)
    /\ metrics' = [metrics EXCEPT !.at = "store"]
    /\ UNCHANGED <<runner, link, chan, clientVars, tuiVars>>

\* Mutant: the thread ends after its first snapshot.
MetricsStore_Once ==
    /\ metrics.at = "store"
    /\ runner' = [runner EXCEPT !.cache = metrics.phase]
    /\ metrics' = [metrics EXCEPT !.at = "ended"]
    /\ UNCHANGED <<serverVars, clientVars, tuiVars>>

\* update_state(None, data): the refresh may undo a newer one.
MetricsStore ==
    /\ metrics.at = "store"
    /\ runner' = [runner EXCEPT !.cache = metrics.phase]
    /\ metrics' = Waiting
    /\ UNCHANGED <<serverVars, clientVars, tuiVars>>

-----------------------------------------------------------------------------
(***************************************************************************)
(* The server: broadcasts and answers, on one event loop.                  *)
(***************************************************************************)
Essential(e) == e.type # "metrics"

\* The write buffer of the client may be above the threshold only while it
\* has messages to read.
MayBeSlow == link = "open" /\ chan # <<>>

Written ==
    /\ link = "open"
    /\ chan' = Append(chan, Head(sched))
    /\ UNCHANGED link

\* A metrics or log event for a slow client is dropped.
Dropped ==
    /\ MayBeSlow
    /\ ~Essential(Head(sched))
    /\ UNCHANGED <<link, chan>>

\* Mutant: essential events are dropped too.
TooSlow_Drops ==
    /\ MayBeSlow
    /\ Essential(Head(sched))
    /\ UNCHANGED <<link, chan>>

\* A client too slow for an essential event is disconnected, as is one whose
\* write times out.
TooSlow ==
    /\ MayBeSlow
    /\ Essential(Head(sched))
    /\ link' = "closed"
    /\ UNCHANGED <<chan>>

NoClient == link # "open" /\ UNCHANGED <<link, chan>>

Broadcast ==
    /\ sched # <<>>
    /\ sched' = Tail(sched)
    /\ Written \/ Dropped \/ TooSlow \/ NoClient
    /\ UNCHANGED <<runnerVars, clientVars, tuiVars>>

\* _handle_get_state: the cached phase is the answer.
Answer(k) ==
    /\ link = "open"
    /\ runner.at # "down"
    /\ asks[k].at = "asked"
    /\ chan' = Append(chan, [type |-> "answer", phase |-> runner.cache, to |-> k])
    /\ asks' = [asks EXCEPT ![k].at = "replied"]
    /\ UNCHANGED <<runnerVars, sched, link, client, attempts, tuiVars>>

-----------------------------------------------------------------------------
(***************************************************************************)
(* The client: its reader task and the reconnect that follows a loss.      *)
(***************************************************************************)
ServerUp == runner.at \in {"emit", "cache", "phase", "bye"}

Asked(k) == [asks EXCEPT ![k] = [at |-> "asked", phase |-> 0]]

UnderWay(k) == asks[k].at \in {"asked", "replied"}

\* _fail_pending.  A refresh that fails is only logged.
FailPending ==
    [k \in Ask |-> CASE UnderWay(k) /\ k = "hydrate" -> [NoAsk EXCEPT !.at = "failed"]
                   [] UnderWay(k) /\ k = "refresh" -> NoAsk
                   [] OTHER -> asks[k]]

\* The main loop finds the socket and connects with a client of its own.
Connect ==
    /\ tui = "discover"
    /\ ServerUp
    /\ link' = "open"
    /\ chan' = <<>>
    /\ client' = "connected"
    /\ attempts' = 0
    /\ asks' = Asked("hydrate")
    /\ tui' = "hydrate"
    /\ UNCHANGED <<runnerVars, sched, subscribed, leaving, view>>

\* _dispatch_event hands the event to the bridge.  Where its number tells that
\* one is missing, and the last request was long enough ago, the bridge asks
\* for the state.
Show(e) ==
    /\ subscribed
    /\ view' = IF e.type = "phase" THEN e.phase ELSE view
    /\ leaving' = IF e.type = "goodbye" THEN leaving \cup {"disconnect"}
                                        ELSE leaving
    /\ \/ UNCHANGED asks
       \/ asks["refresh"].at = "none" /\ asks' = Asked("refresh")

\* Nobody is subscribed yet, or any more.
Ignore == ~subscribed /\ UNCHANGED <<view, leaving, asks>>

ReadEvent ==
    /\ client = "connected"
    /\ chan # <<>>
    /\ Head(chan).type # "answer"
    /\ Show(Head(chan)) \/ Ignore
    /\ chan' = Tail(chan)
    /\ UNCHANGED <<runnerVars, sched, link, client, attempts, tui,
                   subscribed>>

\* The future is resolved; the coroutine that awaits it runs later.
ReadAnswer ==
    /\ client = "connected"
    /\ chan # <<>>
    /\ Head(chan).type = "answer"
    /\ LET m == Head(chan)
       IN  asks' = IF asks[m.to].at = "replied"
                   THEN [asks EXCEPT ![m.to] = [at |-> "answered", phase |-> m.phase]]
                   ELSE asks
    /\ chan' = Tail(chan)
    /\ UNCHANGED <<runnerVars, sched, link, client, attempts, tuiVars>>

\* _handle_connection_lost, at the end of the stream.
ConnectionLost ==
    /\ client = "connected"
    /\ link = "closed"
    /\ chan = <<>>
    /\ client' = "reconnecting"
    /\ attempts' = 0
    /\ asks' = FailPending
    /\ link' = "none"
    /\ UNCHANGED <<runnerVars, sched, chan, tuiVars>>

\* Mutant: one attempt more.
AttemptFails_OffByOne ==
    /\ client = "reconnecting"
    /\ attempts <= MaxRetries
    /\ attempts' = attempts + 1
    /\ UNCHANGED <<runnerVars, serverVars, client, asks, tuiVars>>

AttemptFails ==
    /\ client = "reconnecting"
    /\ attempts < MaxRetries
    /\ attempts' = attempts + 1
    /\ UNCHANGED <<runnerVars, serverVars, client, asks, tuiVars>>

Reconnect ==
    /\ client = "reconnecting"
    /\ attempts < MaxRetries
    /\ ServerUp
    /\ asks["refresh"].at = "none"
    /\ client' = "connected"
    /\ link' = "open"
    /\ chan' = <<>>
    /\ attempts' = 0
    /\ asks' = Asked("refresh")
    /\ UNCHANGED <<runnerVars, sched, tuiVars>>

\* Mutant: on_reconnect_failed is not called.
GiveUp_Silent ==
    /\ client = "reconnecting"
    /\ attempts = MaxRetries
    /\ client' = "disconnected"
    /\ subscribed' = FALSE
    /\ UNCHANGED <<runnerVars, serverVars, attempts, asks, tui, leaving, view>>

\* The attempts are used up: callbacks cleared, on_reconnect_failed called.
GiveUp ==
    /\ client = "reconnecting"
    /\ attempts = MaxRetries
    /\ client' = "disconnected"
    /\ subscribed' = FALSE
    /\ leaving' = leaving \cup {"discovery"}
    /\ UNCHANGED <<runnerVars, serverVars, attempts, asks, tui, view>>

-----------------------------------------------------------------------------
(***************************************************************************)
(* The terminal interface: its main loop and its handlers.                 *)
(***************************************************************************)
\* A state without a phase changes nothing on the screen.
Apply(k) == view' = IF asks[k].phase = 0 THEN view ELSE asks[k].phase

\* The state is applied and the bridge subscribed; what was read from the
\* socket meanwhile reached nobody.
Hydrate ==
    /\ tui = "hydrate"
    /\ asks["hydrate"].at = "answered"
    /\ Apply("hydrate")
    /\ asks' = [asks EXCEPT !["hydrate"] = NoAsk]
    /\ subscribed' = TRUE
    /\ tui' = "watch"
    /\ UNCHANGED <<runnerVars, serverVars, client, attempts, leaving>>

\* _rehydrate and _on_reconnect.
Refresh ==
    /\ asks["refresh"].at = "answered"
    /\ Apply("refresh")
    /\ asks' = [asks EXCEPT !["refresh"] = NoAsk]
    /\ UNCHANGED <<runnerVars, serverVars, client, attempts, tui, subscribed,
                   leaving>>

\* The bridge is stopped and the client closed, whatever it was doing.
CloseSession ==
    /\ client' = "closed"
    /\ link' = "none"
    /\ chan' = <<>>
    /\ asks' = [k \in Ask |-> NoAsk]
    /\ subscribed' = FALSE
    /\ leaving' = {}
    /\ UNCHANGED <<runnerVars, sched, attempts, view>>

HydrateFails ==
    /\ tui = "hydrate"
    /\ asks["hydrate"].at = "failed"
    /\ tui' = "discover"
    /\ CloseSession

Rediscover ==
    /\ tui = "watch"
    /\ "discovery" \in leaving
    /\ tui' = "discover"
    /\ CloseSession

\* The operator quits, and may start the interface again.
Quit ==
    /\ tui # "discover"
    /\ tui' = "discover"
    /\ CloseSession

\* The task of the goodbye handler: client.disconnect().
Disconnect ==
    /\ "disconnect" \in leaving
    /\ client' = "closed"
    /\ link' = "none"
    /\ chan' = <<>>
    /\ asks' = FailPending
    /\ subscribed' = FALSE
    /\ leaving' = leaving \ {"disconnect"}
    /\ UNCHANGED <<runnerVars, sched, attempts, tui, view>>

-----------------------------------------------------------------------------
Runner ==
    \/ StartRun \/ EmitPhaseStarted \/ UpdateState \/ PhaseEnds
    \/ EmitGoodbye \/ StopMetrics \/ StopServer \/ Kill
    \/ MetricsRead \/ MetricsEmit \/ MetricsStore

Server == Broadcast \/ \E k \in Ask : Answer(k)

Client ==
    \/ Connect \/ ReadEvent \/ ReadAnswer
    \/ ConnectionLost \/ AttemptFails \/ Reconnect \/ GiveUp

Interface ==
    Hydrate \/ HydrateFails \/ Refresh \/ Rediscover \/ Quit \/ Disconnect

Next == Runner \/ Server \/ Client \/ Interface

Spec == Init /\ [][Next]_vars

\* The threads of the runner that do not wait for a phase, the server loop and
\* the loop of the interface take their next step.  Nothing makes a phase or a
\* run end, a run start, a client slow, or the operator
\* quit.
MainThread == EmitPhaseStarted \/ UpdateState \/ StopMetrics \/ StopServer
MetricsThread == MetricsRead \/ MetricsEmit \/ MetricsStore
ReaderTask ==
    ReadEvent \/ ReadAnswer \/ ConnectionLost \/ AttemptFails \/ Reconnect \/ GiveUp
MainLoop == Hydrate \/ HydrateFails \/ Rediscover

Fairness ==
    /\ WF_vars(MainThread) /\ WF_vars(MetricsThread)
    /\ WF_vars(Broadcast) /\ WF_vars(\E k \in Ask : Answer(k))
    /\ WF_vars(ReaderTask)
    /\ WF_vars(MainLoop) /\ WF_vars(Refresh) /\ WF_vars(Disconnect)

FairSpec == Spec /\ Fairness

-----------------------------------------------------------------------------
\* A phase that starts while the interface is subscribed over an open
\* connection is shown, or the connection is closed: no broadcast drops an
\* essential event and goes on.
EveryPhaseShown ==
    \A p \in 1..MaxPhase :
        (runner.at = "emit" /\ runner.phase = p /\ subscribed /\ link = "open")
            ~> (view = p \/ link # "open")

\* While a phase goes on, what get_state answers settles on that phase,
\* although the metrics thread may write an older snapshot over a newer one.
CacheSettles ==
    <>[](runner.at = "phase") => <>[](runner.cache = runner.phase)

\* An interface whose connection is gone connects again or goes back to
\* discovery, unless a normal goodbye closed it.
NotStranded ==
    (tui = "watch" /\ link # "open")
        ~> (tui # "watch" \/ link = "open" \/ client = "closed")

\* "discover -> connect -> run -> (disconnect -> rediscover)" (tui/app.py:94):
\* an interface that was disconnected goes back to discovery.
Rediscovers == (tui = "watch" /\ client = "closed") ~> tui # "watch"

=============================================================================
