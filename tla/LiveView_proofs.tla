-------------------------- MODULE LiveView_proofs --------------------------
(***************************************************************************)
(* Type correctness of the live view; every request for the state ends     *)
(* with the answer that is its own, or with the connection; and an         *)
(* interface without a connection is on its way to another or to           *)
(* discovery.                                                              *)
(***************************************************************************)
EXTENDS LiveView, TLAPS, SequenceTheorems

\* The first message of a nonempty sequence and the rest of it.
LEMMA HeadAndTail ==
    ASSUME NEW S, NEW s \in Seq(S), s # <<>>
    PROVE  /\ Len(s) \in Nat \ {0}
           /\ Head(s) \in S
           /\ Head(s) = s[1]
           /\ Tail(s) \in Seq(S)
           /\ Len(Tail(s)) = Len(s) - 1
           /\ \A i \in 1..Len(Tail(s)) : Tail(s)[i] = s[i + 1]
  BY HeadTailProperties, EmptySeq

\* What is left of a sequence that was cut after n elements.
LEMMA PrefixInSeq ==
    ASSUME NEW S, NEW s \in Seq(S), NEW n \in 0..Len(s)
    PROVE  /\ SubSeq(s, 1, n) \in Seq(S)
           /\ Len(SubSeq(s, 1, n)) = n
           /\ \A i \in 1..n : SubSeq(s, 1, n)[i] = s[i]
<1>1. 1 \in Int /\ n \in Int /\ \A i \in 1..n : s[i] \in S
  OBVIOUS
<1>. QED
  BY <1>1, SubSeqProperties

\* No phase, the first phase and the next phase can be shown; attempts are
\* counted up to the limit.
LEMMA ShownPhases ==
    /\ 0 \in Shown
    /\ 1 \in Shown
    /\ \A p \in Shown : p \in Nat /\ (p < MaxPhase => p + 1 \in Shown)
    /\ 0 \in 0..MaxRetries
    /\ \A n \in 0..MaxRetries : n < MaxRetries => n + 1 \in 0..MaxRetries
<1>1. MaxPhase \in Nat /\ MaxPhase # 0 /\ MaxRetries \in Nat
  BY LiveViewAssumption
<1>. QED
  BY <1>1 DEF Shown

\* The requests by kind.
AskStates ==
    [Ask -> [at : {"none", "asked", "replied", "answered", "failed"}, phase : Shown]]

\* Nothing asked.
LEMMA NoAskState == [k \in Ask |-> NoAsk] \in AskStates
  BY ShownPhases DEF AskStates, NoAsk

\* _fail_pending ends what is under way and leaves the rest.
LEMMA FailPendingState ==
    ASSUME asks \in AskStates
    PROVE  /\ FailPending \in AskStates
           /\ \A k \in Ask : ~UnderWay(k) => FailPending[k] = asks[k]
           /\ UnderWay("hydrate") => FailPending["hydrate"].at = "failed"
           /\ UnderWay("refresh") => FailPending["refresh"].at = "none"
<1>. DEFINE S == [at : {"none", "asked", "replied", "answered", "failed"}, phase : Shown]
           F(k) == CASE UnderWay(k) /\ k = "hydrate" -> [NoAsk EXCEPT !.at = "failed"]
                     [] UnderWay(k) /\ k = "refresh" -> NoAsk
                     [] OTHER -> asks[k]
<1>1. NoAsk \in S /\ [NoAsk EXCEPT !.at = "failed"] \in S
  BY ShownPhases DEF NoAsk
<1>2. ASSUME NEW k \in Ask PROVE F(k) \in S
  <2>. HIDE DEF S
  <2>1. CASE UnderWay(k) /\ k = "hydrate"
    BY <1>1, <2>1
  <2>2. CASE UnderWay(k) /\ k = "refresh"
    BY <1>1, <2>2
  <2>3. CASE ~UnderWay(k)
    BY <2>3 DEF AskStates, S
  <2>. QED
    BY <2>1, <2>2, <2>3 DEF Ask
<1>3. FailPending \in AskStates
  <2>. HIDE DEF S, F
  <2>1. FailPending = [k \in Ask |-> F(k)]
    BY DEF FailPending, F
  <2>. QED
    BY <1>2, <2>1 DEF AskStates, S
<1>4. \A k \in Ask : FailPending[k] = F(k)
  BY DEF FailPending
<1>5. \A k \in Ask : ~UnderWay(k) => F(k) = asks[k]
  OBVIOUS
<1>6. UnderWay("hydrate") => F("hydrate").at = "failed"
  BY DEF NoAsk
<1>7. UnderWay("refresh") => F("refresh").at = "none"
  BY DEF NoAsk
<1>. HIDE DEF F
<1>. QED
  BY <1>3, <1>4, <1>5, <1>6, <1>7 DEF Ask

\* The types of the four parts of the state.
RunnerTypes ==
    /\ runner \in [at : {"down", "emit", "cache", "phase", "bye", "closing"},
                   phase : Shown, cache : Shown]
    /\ metrics \in [at : {"wait", "emit", "store"}, phase : Shown]

ServerTypes ==
    /\ sched \in Seq(Event)
    /\ link \in {"none", "open", "closed"}
    /\ chan \in Seq(Event \cup Answered)

ClientTypes ==
    /\ client \in {"disconnected", "connected", "reconnecting", "closed"}
    /\ attempts \in 0..MaxRetries
    /\ asks \in AskStates

TuiTypes ==
    /\ tui \in {"discover", "hydrate", "watch"}
    /\ subscribed \in BOOLEAN
    /\ leaving \subseteq {"discovery", "disconnect"}
    /\ view \in Shown

\* The type invariant is that of its parts.
LEMMA TypesOfTheParts ==
    /\ TypeOK <=> RunnerTypes /\ ServerTypes /\ ClientTypes /\ TuiTypes
    /\ TypeOK' <=> RunnerTypes' /\ ServerTypes' /\ ClientTypes' /\ TuiTypes'
  BY DEF TypeOK, RunnerTypes, ServerTypes, ClientTypes, TuiTypes, AskStates

\* The first state is typed.
LEMMA TypeOKInit == Init => TypeOK
<1>. SUFFICES ASSUME Init PROVE TypeOK
  OBVIOUS
<1>1. RunnerTypes
  BY ShownPhases DEF Init, RunnerTypes, Waiting
<1>2. ServerTypes
  BY DEF Init, ServerTypes
<1>3. ClientTypes
  BY ShownPhases, NoAskState DEF Init, ClientTypes
<1>4. TuiTypes
  BY ShownPhases DEF Init, TuiTypes
<1>. QED
  BY <1>1, <1>2, <1>3, <1>4, TypesOfTheParts

\* Every step keeps the types.
LEMMA TypeOKStep == TypeOK /\ [Next]_vars => TypeOK'
<1>. SUFFICES ASSUME RunnerTypes, ServerTypes, ClientTypes, TuiTypes, [Next]_vars
              PROVE  RunnerTypes' /\ ServerTypes' /\ ClientTypes' /\ TuiTypes'
  BY TypesOfTheParts
<1>. USE DEF runnerVars, serverVars, clientVars, tuiVars
<1>1. CASE StartRun
  <2>1. RunnerTypes'
    BY <1>1, ShownPhases DEF StartRun, RunnerTypes
  <2>. QED
    BY <1>1, <2>1 DEF StartRun, ServerTypes, ClientTypes, TuiTypes
<1>2. CASE EmitPhaseStarted
  <2>1. RunnerTypes'
    BY <1>2 DEF EmitPhaseStarted, Emit, RunnerTypes
  <2>2. ServerTypes'
    BY <1>2 DEF EmitPhaseStarted, Emit, ServerTypes, Event, Answered,
       RunnerTypes
  <2>. QED
    BY <1>2, <2>1, <2>2 DEF EmitPhaseStarted, ClientTypes, TuiTypes
<1>3. CASE UpdateState
  <2>1. RunnerTypes'
    BY <1>3 DEF UpdateState, RunnerTypes
  <2>. QED
    BY <1>3, <2>1 DEF UpdateState, ServerTypes, ClientTypes, TuiTypes
<1>4. CASE PhaseEnds
  <2>1. RunnerTypes'
    BY <1>4, ShownPhases DEF PhaseEnds, RunnerTypes
  <2>. QED
    BY <1>4, <2>1 DEF PhaseEnds, ServerTypes, ClientTypes, TuiTypes
<1>5. CASE EmitGoodbye
  <2>1. RunnerTypes'
    BY <1>5 DEF EmitGoodbye, Emit, RunnerTypes
  <2>2. ServerTypes'
    BY <1>5, ShownPhases DEF EmitGoodbye, Emit, ServerTypes, Event,
       Answered
  <2>. QED
    BY <1>5, <2>1, <2>2 DEF EmitGoodbye, ClientTypes, TuiTypes
<1>6. CASE StopMetrics
  <2>1. RunnerTypes'
    BY <1>6, ShownPhases DEF StopMetrics, RunnerTypes
  <2>. QED
    BY <1>6, <2>1 DEF StopMetrics, ServerTypes, ClientTypes, TuiTypes
<1>7. CASE StopServer
  <2>1. RunnerTypes'
    BY <1>7 DEF StopServer, RunnerTypes
  <2>2. ServerTypes'
    BY <1>7 DEF StopServer, ServerTypes, Event, Answered
  <2>. QED
    BY <1>7, <2>1, <2>2 DEF StopServer, ClientTypes, TuiTypes
<1>8. CASE Kill
  <2>1. RunnerTypes'
    BY <1>8, ShownPhases DEF Kill, RunnerTypes, Waiting
  <2>2. ServerTypes'
    BY <1>8, PrefixInSeq DEF Kill, ServerTypes, Event, Answered
  <2>. QED
    BY <1>8, <2>1, <2>2 DEF Kill, ClientTypes, TuiTypes
<1>9. CASE MetricsRead
  <2>1. RunnerTypes'
    BY <1>9, ShownPhases DEF MetricsRead, Full, RunnerTypes
  <2>. QED
    BY <1>9, <2>1 DEF MetricsRead, ServerTypes, ClientTypes, TuiTypes
<1>10. CASE MetricsEmit
  <2>1. RunnerTypes'
    BY <1>10 DEF MetricsEmit, Emit, RunnerTypes
  <2>2. ServerTypes'
    BY <1>10, ShownPhases DEF MetricsEmit, Emit, ServerTypes, Event,
       Answered
  <2>. QED
    BY <1>10, <2>1, <2>2 DEF MetricsEmit, ClientTypes, TuiTypes
<1>11. CASE MetricsStore
  <2>1. RunnerTypes'
    BY <1>11, ShownPhases DEF MetricsStore, RunnerTypes, Waiting
  <2>. QED
    BY <1>11, <2>1 DEF MetricsStore, ServerTypes, ClientTypes, TuiTypes
<1>12. CASE Broadcast
  <2>1. ServerTypes'
    <3>. sched' \in Seq(Event) /\ Head(sched) \in Event
      BY <1>12, HeadAndTail DEF Broadcast, ServerTypes
    <3>1. CASE Written
      BY <3>1 DEF Written, ServerTypes
    <3>2. CASE Dropped \/ TooSlow \/ NoClient
      BY <3>2 DEF Dropped, TooSlow, NoClient, ServerTypes
    <3>. QED
      BY <1>12, <3>1, <3>2 DEF Broadcast
  <2>. QED
    BY <1>12, <2>1 DEF Broadcast, RunnerTypes, ClientTypes, TuiTypes
<1>13. ASSUME NEW k \in Ask, Answer(k)
      PROVE  RunnerTypes' /\ ServerTypes' /\ ClientTypes' /\ TuiTypes'
  <2>1. ServerTypes'
    BY <1>13 DEF Answer, ServerTypes, Event, Answered, RunnerTypes
  <2>2. ClientTypes'
    BY <1>13, ShownPhases DEF Answer, ClientTypes, AskStates
  <2>. QED
    BY <1>13, <2>1, <2>2 DEF Answer, RunnerTypes, TuiTypes
<1>14. CASE Connect
  <2>1. ServerTypes'
    BY <1>14 DEF Connect, Asked, ServerUp, ServerTypes, Event, Answered
  <2>2. ClientTypes'
    BY <1>14, ShownPhases DEF Connect, Asked, ServerUp, ClientTypes,
       AskStates, Ask
  <2>3. TuiTypes'
    BY <1>14 DEF Connect, Asked, ServerUp, TuiTypes
  <2>. QED
    BY <1>14, <2>1, <2>2, <2>3 DEF Connect, RunnerTypes
<1>15. CASE ReadEvent
  <2>1. ServerTypes'
    BY <1>15, HeadAndTail DEF ReadEvent, Show, Ignore, Asked, ServerTypes,
       Event, Answered
  <2>2. ClientTypes'
    BY <1>15, ShownPhases DEF ReadEvent, Show, Ignore, Asked, ClientTypes,
       AskStates, Ask
  <2>3. TuiTypes'
    <3>1. Head(chan) \in Event
      BY <1>15, HeadAndTail DEF ReadEvent, ServerTypes, Answered
    <3>2. Head(chan).phase \in Shown
      BY <3>1 DEF Event
    <3>3. CASE Show(Head(chan))
      BY <1>15, <3>2, <3>3 DEF ReadEvent, Show, TuiTypes
    <3>4. CASE Ignore
      BY <1>15, <3>4 DEF ReadEvent, Ignore, TuiTypes
    <3>. QED
      BY <1>15, <3>3, <3>4 DEF ReadEvent
  <2>. QED
    BY <1>15, <2>1, <2>2, <2>3 DEF ReadEvent, RunnerTypes
<1>16. CASE ReadAnswer
  <2>1. ServerTypes'
    BY <1>16, HeadAndTail DEF ReadAnswer, ServerTypes, Event, Answered
  <2>2. ClientTypes'
    BY <1>16, HeadAndTail DEF ReadAnswer, ClientTypes, AskStates, Event,
       Answered, ServerTypes
  <2>. QED
    BY <1>16, <2>1, <2>2 DEF ReadAnswer, RunnerTypes, TuiTypes
<1>17. CASE ConnectionLost
  <2>1. ServerTypes'
    BY <1>17 DEF ConnectionLost, ServerTypes, Event, Answered
  <2>2. ClientTypes'
    BY <1>17, FailPendingState, ShownPhases DEF ConnectionLost,
       ClientTypes, AskStates
  <2>. QED
    BY <1>17, <2>1, <2>2 DEF ConnectionLost, RunnerTypes, TuiTypes
<1>18. CASE AttemptFails
  <2>1. ClientTypes'
    BY <1>18, ShownPhases DEF AttemptFails, ClientTypes, AskStates
  <2>. QED
    BY <1>18, <2>1 DEF AttemptFails, RunnerTypes, ServerTypes, TuiTypes
<1>19. CASE Reconnect
  <2>1. ServerTypes'
    BY <1>19 DEF Reconnect, Asked, ServerUp, ServerTypes, Event, Answered
  <2>2. ClientTypes'
    BY <1>19, ShownPhases DEF Reconnect, Asked, ServerUp, ClientTypes,
       AskStates, Ask
  <2>. QED
    BY <1>19, <2>1, <2>2 DEF Reconnect, RunnerTypes, TuiTypes
<1>20. CASE GiveUp
  <2>1. ClientTypes'
    BY <1>20 DEF GiveUp, ClientTypes, AskStates
  <2>2. TuiTypes'
    BY <1>20 DEF GiveUp, TuiTypes
  <2>. QED
    BY <1>20, <2>1, <2>2 DEF GiveUp, RunnerTypes, ServerTypes
<1>21. CASE Hydrate
  <2>1. ClientTypes'
    BY <1>21, ShownPhases DEF Hydrate, Apply, ClientTypes, AskStates,
       NoAsk, Ask
  <2>2. TuiTypes'
    BY <1>21 DEF Hydrate, Apply, TuiTypes, AskStates, Ask, ClientTypes
  <2>. QED
    BY <1>21, <2>1, <2>2 DEF Hydrate, RunnerTypes, ServerTypes
<1>22. CASE HydrateFails
  <2>1. ServerTypes'
    BY <1>22 DEF HydrateFails, CloseSession, AskStates, ServerTypes, Event,
       Answered
  <2>2. ClientTypes'
    BY <1>22, NoAskState DEF HydrateFails, CloseSession, AskStates,
       ClientTypes
  <2>3. TuiTypes'
    BY <1>22 DEF HydrateFails, CloseSession, AskStates, TuiTypes
  <2>. QED
    BY <1>22, <2>1, <2>2, <2>3 DEF HydrateFails, CloseSession, RunnerTypes
<1>23. CASE Refresh
  <2>1. ClientTypes'
    BY <1>23, ShownPhases DEF Refresh, Apply, ClientTypes, AskStates,
       NoAsk, Ask
  <2>2. TuiTypes'
    BY <1>23 DEF Refresh, Apply, TuiTypes, AskStates, Ask, ClientTypes
  <2>. QED
    BY <1>23, <2>1, <2>2 DEF Refresh, RunnerTypes, ServerTypes
<1>24. CASE Rediscover
  <2>1. ServerTypes'
    BY <1>24 DEF Rediscover, CloseSession, AskStates, ServerTypes, Event,
       Answered
  <2>2. ClientTypes'
    BY <1>24, NoAskState DEF Rediscover, CloseSession, AskStates,
       ClientTypes
  <2>3. TuiTypes'
    BY <1>24 DEF Rediscover, CloseSession, AskStates, TuiTypes
  <2>. QED
    BY <1>24, <2>1, <2>2, <2>3 DEF Rediscover, CloseSession, RunnerTypes
<1>25. CASE Quit
  <2>1. ServerTypes'
    BY <1>25 DEF Quit, CloseSession, AskStates, ServerTypes, Event,
       Answered
  <2>2. ClientTypes'
    BY <1>25, NoAskState DEF Quit, CloseSession, AskStates, ClientTypes
  <2>3. TuiTypes'
    BY <1>25 DEF Quit, CloseSession, AskStates, TuiTypes
  <2>. QED
    BY <1>25, <2>1, <2>2, <2>3 DEF Quit, CloseSession, RunnerTypes
<1>26. CASE Disconnect
  <2>1. ServerTypes'
    BY <1>26 DEF Disconnect, ServerTypes, Event, Answered
  <2>2. ClientTypes'
    BY <1>26, FailPendingState DEF Disconnect, ClientTypes, AskStates
  <2>3. TuiTypes'
    BY <1>26 DEF Disconnect, TuiTypes
  <2>. QED
    BY <1>26, <2>1, <2>2, <2>3 DEF Disconnect, RunnerTypes
<1>27. CASE UNCHANGED vars
  BY <1>27 DEF vars, RunnerTypes, ServerTypes, ClientTypes, TuiTypes
<1>. QED
  BY <1>1, <1>2, <1>3, <1>4, <1>5, <1>6, <1>7, <1>8, <1>9, <1>10, <1>11,
     <1>12, <1>13, <1>14, <1>15, <1>16, <1>17, <1>18, <1>19, <1>20, <1>21,
     <1>22, <1>23, <1>24, <1>25, <1>26, <1>27 DEF Next, Runner, Server,
     Client, Interface

\* Every variable of the live view has its type in every reachable state.
THEOREM LiveViewTypes == Spec => []TypeOK
  BY TypeOKInit, TypeOKStep, PTL DEF Spec

-----------------------------------------------------------------------------
(***************************************************************************)
(* The session of the interface: the connection, the client and the main   *)
(* loop agree.                                                             *)
(***************************************************************************)
\* While nothing is connected the main loop looks for a run with nothing left
\* of the last one; it waits for the state exactly while it hydrates; and a
\* client that gave up has asked for discovery.
SessionInv ==
    /\ (client = "connected") <=> (link # "none")
    /\ tui = "discover" =>
            /\ client \in {"disconnected", "closed"}
            /\ ~subscribed /\ leaving = {}
            /\ \A k \in Ask : asks[k].at = "none"
    /\ tui = "hydrate" =>
            client # "closed" /\ ~subscribed /\ leaving \subseteq {"discovery"}
    /\ (asks["hydrate"].at = "none") <=> (tui # "hydrate")
    /\ client = "disconnected" => tui = "discover" \/ "discovery" \in leaving
    /\ link = "open" => runner.at # "down"
    /\ link = "none" => chan = <<>> /\ \A k \in Ask : ~UnderWay(k)

\* Initially nothing is connected and nothing asked.
LEMMA SessionInvInit == Init => SessionInv
  BY DEF Init, SessionInv, Ask, NoAsk, UnderWay

\* Every step keeps the session together.
LEMMA SessionInvStep == TypeOK /\ SessionInv /\ [Next]_vars => SessionInv'
<1>. SUFFICES ASSUME TypeOK, SessionInv, [Next]_vars PROVE SessionInv'
  OBVIOUS
<1>0. /\ asks \in AskStates
      /\ runner \in [at : {"down", "emit", "cache", "phase", "bye", "closing"},
                     phase : Shown, cache : Shown]
  BY DEF TypeOK, AskStates
<1>. USE DEF runnerVars, serverVars, clientVars, tuiVars
<1>1. CASE StartRun
  BY <1>1 DEF StartRun, SessionInv, UnderWay
<1>2. CASE \/ EmitPhaseStarted \/ UpdateState \/ PhaseEnds
           \/ EmitGoodbye \/ StopMetrics
  <2>1. runner.at # "down" /\ runner'.at # "down"
    BY <1>0, <1>2 DEF EmitPhaseStarted, UpdateState, PhaseEnds, EmitGoodbye,
       StopMetrics
  <2>2. UNCHANGED <<link, chan, client, asks, tui, subscribed, leaving>>
    BY <1>2 DEF EmitPhaseStarted, UpdateState, PhaseEnds, EmitGoodbye,
       StopMetrics
  <2>. QED
    BY <2>1, <2>2 DEF SessionInv, UnderWay
<1>3. CASE StopServer
  BY <1>0, <1>3 DEF StopServer, SessionInv, UnderWay, TypeOK
<1>4. CASE Kill
  <2>1. link = "none" => chan' = <<>>
    <3>. SUFFICES ASSUME link = "none" PROVE chan' = <<>>
      OBVIOUS
    <3>1. PICK n \in 0..Len(chan) : chan' = SubSeq(chan, 1, n)
      BY <1>4 DEF Kill
    <3>2. chan = <<>> /\ n = 0
      BY DEF SessionInv
    <3>. QED
      BY <3>1, <3>2, SubSeqEmpty
  <2>. QED
    BY <1>0, <1>4, <2>1 DEF Kill, SessionInv, UnderWay, TypeOK
<1>5. CASE MetricsRead \/ MetricsEmit \/ MetricsStore \/ AttemptFails
  <2>1. runner'.at = runner.at
    BY <1>0, <1>5 DEF MetricsRead, MetricsEmit, MetricsStore, AttemptFails
  <2>2. UNCHANGED <<link, chan, client, asks, tui, subscribed, leaving>>
    BY <1>5 DEF MetricsRead, MetricsEmit, MetricsStore, AttemptFails
  <2>. QED
    BY <2>1, <2>2 DEF SessionInv, UnderWay
<1>6. CASE Broadcast
  <2>1. \/ link = "open" /\ link' = "open"
        \/ link = "open" /\ link' = "closed"
        \/ link # "open" /\ UNCHANGED <<link, chan>>
    BY <1>6 DEF Broadcast, Written, Dropped, TooSlow, NoClient, MayBeSlow
  <2>2. UNCHANGED <<runner, client, asks, tui, subscribed, leaving>>
    BY <1>6 DEF Broadcast
  <2>. QED
    BY <2>1, <2>2 DEF SessionInv, UnderWay
<1>7. ASSUME NEW k \in Ask, Answer(k) PROVE SessionInv'
  <2>1. /\ link = "open" /\ link' = "open"
        /\ asks[k].at = "asked" /\ asks'[k].at = "replied"
        /\ \A l \in Ask \ {k} : asks'[l] = asks[l]
        /\ UNCHANGED <<runner, client, tui, subscribed, leaving>>
    BY <1>0, <1>7 DEF Answer, AskStates
  <2>. QED
    BY <2>1 DEF SessionInv, Ask
<1>8. CASE Connect
  <2>1. asks'["hydrate"].at = "asked" /\ asks'["refresh"] = asks["refresh"]
    BY <1>0, <1>8 DEF Connect, Asked, AskStates, Ask
  <2>. QED
    BY <1>8, <2>1 DEF Connect, SessionInv, ServerUp, Ask, UnderWay
<1>9. CASE ReadEvent
  <2>1. /\ client = "connected" /\ link # "none"
        /\ UNCHANGED <<runner, link, client, tui, subscribed>>
    BY <1>9 DEF ReadEvent, SessionInv
  <2>2. CASE Ignore
    BY <2>1, <2>2 DEF Ignore, SessionInv
  <2>3. CASE Show(Head(chan))
    <3>1. tui = "watch" /\ leaving \subseteq leaving'
      BY <2>3 DEF Show, SessionInv, TypeOK
    <3>2. asks'["hydrate"] = asks["hydrate"]
      BY <1>0, <2>3 DEF Show, Asked, AskStates, Ask
    <3>. QED
      BY <2>1, <3>1, <3>2 DEF SessionInv
  <2>. QED
    BY <1>9, <2>2, <2>3 DEF ReadEvent
<1>10. CASE ReadAnswer
  <2>1. /\ client = "connected" /\ link # "none"
        /\ UNCHANGED <<runner, link, client, tui, subscribed, leaving>>
    BY <1>10 DEF ReadAnswer, SessionInv
  <2>2. tui # "discover"
    BY <2>1 DEF SessionInv
  <2>3. (asks'["hydrate"].at = "none") <=> (asks["hydrate"].at = "none")
    <3>. DEFINE m == Head(chan)
    <3>1. CASE asks[m.to].at = "replied"
      <4>1. asks' = [asks EXCEPT ![m.to] = [at |-> "answered", phase |-> m.phase]]
        BY <1>10, <3>1 DEF ReadAnswer
      <4>. QED
        BY <1>0, <3>1, <4>1 DEF AskStates, Ask
    <3>2. CASE asks[m.to].at # "replied"
      BY <1>10, <3>2 DEF ReadAnswer
    <3>. QED
      BY <3>1, <3>2
  <2>. QED
    BY <2>1, <2>2, <2>3 DEF SessionInv
<1>11. CASE ConnectionLost
  <2>1. asks'["hydrate"].at = "none" <=> asks["hydrate"].at = "none"
    BY <1>0, <1>11, FailPendingState DEF ConnectionLost, Ask, UnderWay
  <2>2. \A k \in Ask : asks'[k].at \notin {"asked", "replied"}
    BY <1>0, <1>11, FailPendingState DEF ConnectionLost, Ask, UnderWay
  <2>. QED
    BY <1>11, <2>1, <2>2 DEF ConnectionLost, SessionInv, UnderWay
<1>12. CASE Reconnect
  <2>1. asks'["hydrate"] = asks["hydrate"]
    BY <1>0, <1>12 DEF Reconnect, Asked, AskStates, Ask
  <2>. QED
    BY <1>12, <2>1 DEF Reconnect, SessionInv, ServerUp
<1>13. CASE GiveUp
  BY <1>13 DEF GiveUp, SessionInv, UnderWay
<1>14. CASE Hydrate
  <2>1. asks'["hydrate"].at = "none" /\ asks'["refresh"] = asks["refresh"]
    BY <1>0, <1>14 DEF Hydrate, AskStates, Ask, NoAsk
  <2>. QED
    BY <1>14, <2>1 DEF Hydrate, SessionInv, UnderWay, Ask
<1>15. CASE Refresh
  <2>1. asks'["refresh"].at = "none" /\ asks'["hydrate"] = asks["hydrate"]
    BY <1>0, <1>15 DEF Refresh, AskStates, Ask, NoAsk
  <2>. QED
    BY <1>15, <2>1 DEF Refresh, SessionInv, UnderWay, Ask
<1>16. CASE HydrateFails \/ Rediscover \/ Quit
  <2>1. tui' = "discover" /\ CloseSession
    BY <1>16 DEF HydrateFails, Rediscover, Quit
  <2>2. \A k \in Ask : asks'[k].at = "none"
    BY <2>1 DEF CloseSession, NoAsk
  <2>. QED
    BY <2>1, <2>2 DEF CloseSession, SessionInv, UnderWay, Ask
<1>17. CASE Disconnect
  <2>1. asks'["hydrate"].at = "none" <=> asks["hydrate"].at = "none"
    BY <1>0, <1>17, FailPendingState DEF Disconnect, Ask, UnderWay
  <2>2. \A k \in Ask : asks'[k].at \notin {"asked", "replied"}
    BY <1>0, <1>17, FailPendingState DEF Disconnect, Ask, UnderWay
  <2>3. tui = "watch"
    BY <1>17 DEF Disconnect, SessionInv, TypeOK
  <2>. QED
    BY <1>17, <2>1, <2>2, <2>3 DEF Disconnect, SessionInv, UnderWay
<1>18. CASE UNCHANGED vars
  BY <1>18 DEF vars, SessionInv, UnderWay
<1>. QED
  BY <1>1, <1>2, <1>3, <1>4, <1>5, <1>6, <1>7, <1>8, <1>9, <1>10, <1>11,
     <1>12, <1>13, <1>14, <1>15, <1>16, <1>17, <1>18
  DEF Next, Runner, Server, Client, Interface

-----------------------------------------------------------------------------
(***************************************************************************)
(* The requests for the state and the answers on their way.                *)
(***************************************************************************)
\* The answers among the messages c.
Answers(c) == {i \in 1..Len(c) : c[i].type = "answer"}

\* An answer under way is that of the request which waits for it, and of no
\* other; and a request that was answered over an open connection has its
\* answer under way.
Expected(c, a) == \A i \in Answers(c) : a[c[i].to].at = "replied"
Single(c) == \A i, j \in Answers(c) : c[i].to = c[j].to => i = j
UnderWayIn(c, k) == \E i \in Answers(c) : c[i].to = k

AnswerInv ==
    /\ Expected(chan, asks)
    /\ Single(chan)
    /\ \A k \in Ask : asks[k].at = "replied" /\ link = "open" => UnderWayIn(chan, k)

\* What may be written to the client.
Messages == Seq(Event \cup Answered)

\* An event appended is no answer; an answer appended comes after the others.
LEMMA AppendedMessage ==
    ASSUME NEW c \in Messages, NEW m \in Event \cup Answered
    PROVE  /\ m.type # "answer" => Answers(Append(c, m)) = Answers(c)
           /\ m.type = "answer" =>
                Answers(Append(c, m)) = Answers(c) \cup {Len(c) + 1}
           /\ \A i \in Answers(c) : Append(c, m)[i] = c[i]
           /\ Append(c, m)[Len(c) + 1] = m
           /\ Len(c) + 1 \notin Answers(c)
<1>1. /\ Len(c) \in Nat
      /\ Len(Append(c, m)) = Len(c) + 1
      /\ \A i \in 1..Len(c) : Append(c, m)[i] = c[i]
      /\ Append(c, m)[Len(c) + 1] = m
  BY AppendProperties DEF Messages
<1>. QED
  BY <1>1 DEF Answers

\* The answers that are left when the first message is read.
LEMMA ReadMessage ==
    ASSUME NEW c \in Messages, c # <<>>
    PROVE  /\ \A i \in Answers(Tail(c)) :
                i + 1 \in Answers(c) /\ i + 1 # 1 /\ Tail(c)[i] = c[i + 1] /\ i \in Nat
           /\ \A i \in Answers(c) : i # 1 =>
                i - 1 \in Answers(Tail(c)) /\ Tail(c)[i - 1] = c[i]
           /\ Head(c) = c[1]
           /\ Head(c).type = "answer" <=> 1 \in Answers(c)
<1>1. /\ Len(c) \in Nat \ {0}
      /\ Head(c) = c[1]
      /\ Len(Tail(c)) = Len(c) - 1
      /\ \A i \in 1..Len(Tail(c)) : Tail(c)[i] = c[i + 1]
  BY HeadAndTail DEF Messages
<1>. QED
  BY <1>1 DEF Answers

\* Nothing is on its way in an empty channel.
LEMMA NoMessage == Expected(<<>>, asks') /\ Single(<<>>) /\ Answers(<<>>) = {}
  BY DEF Expected, Single, Answers

\* Initially there is no request and no answer.
LEMMA AnswerInvInit == Init => AnswerInv
  BY DEF Init, AnswerInv, Expected, Single, Answers, NoAsk

\* Every step keeps answers and requests together.
LEMMA AnswerInvStep ==
    TypeOK /\ SessionInv /\ AnswerInv /\ [Next]_vars => AnswerInv'
<1>. SUFFICES ASSUME TypeOK, SessionInv, AnswerInv, [Next]_vars PROVE AnswerInv'
  OBVIOUS
<1>0. /\ asks \in AskStates
      /\ chan \in Messages
      /\ sched \in Seq(Event)
      /\ \A i \in Answers(chan) : chan[i] \in Answered /\ chan[i].to \in Ask
  <2>1. asks \in AskStates /\ chan \in Messages /\ sched \in Seq(Event)
    BY DEF TypeOK, AskStates, Messages
  <2>2. \A i \in Answers(chan) : chan[i] \in Event \cup Answered
    BY <2>1 DEF Messages, Answers
  <2>. QED
    BY <2>1, <2>2 DEF Answers, Event, Answered
<1>. USE DEF runnerVars, serverVars, clientVars, tuiVars
<1>1. CASE \/ StartRun \/ EmitPhaseStarted \/ UpdateState \/ PhaseEnds
           \/ EmitGoodbye \/ StopMetrics \/ MetricsRead \/ MetricsEmit
           \/ MetricsStore \/ AttemptFails \/ GiveUp \/ UNCHANGED vars
  <2>1. UNCHANGED <<link, chan, asks>>
    BY <1>1 DEF StartRun, EmitPhaseStarted, UpdateState, PhaseEnds, EmitGoodbye,
       StopMetrics, MetricsRead, MetricsEmit, MetricsStore, AttemptFails,
       GiveUp, vars
  <2>. QED
    BY <2>1 DEF AnswerInv
<1>2. CASE StopServer
  <2>1. UNCHANGED <<chan, asks>> /\ (link' = "open" => link = "open")
    BY <1>2 DEF StopServer
  <2>. QED
    BY <2>1 DEF AnswerInv
<1>3. CASE Kill
  <2>1. PICK n \in 0..Len(chan) : chan' = SubSeq(chan, 1, n)
    BY <1>3 DEF Kill
  <2>2. /\ Len(chan) \in Nat
        /\ Len(chan') = n
        /\ \A i \in 1..n : chan'[i] = chan[i]
    BY <1>0, <2>1, PrefixInSeq DEF Messages
  <2>3. /\ Answers(chan') \subseteq Answers(chan)
        /\ \A i \in Answers(chan') : chan'[i] = chan[i]
    BY <2>2 DEF Answers
  <2>4. asks' = asks /\ link' # "open"
    BY <1>3 DEF Kill
  <2>5. Expected(chan', asks')
    BY <2>3, <2>4 DEF AnswerInv, Expected
  <2>6. Single(chan')
    BY <2>3 DEF AnswerInv, Single
  <2>. QED
    BY <2>4, <2>5, <2>6 DEF AnswerInv
<1>4. CASE Broadcast
  <2>0. asks' = asks
    BY <1>4 DEF Broadcast
  <2>1. CASE Written
    <3>. DEFINE e == Head(sched)
    <3>1. e \in Event
      BY <1>0, <1>4, HeadAndTail DEF Broadcast
    <3>2. e \in Event \cup Answered /\ e.type # "answer"
      BY <3>1 DEF Event
    <3>3. link = "open" /\ chan' = Append(chan, e)
      BY <2>1 DEF Written
    <3>. HIDE DEF e
    <3>4. /\ Answers(chan') = Answers(chan)
          /\ \A i \in Answers(chan) : chan'[i] = chan[i]
      BY <1>0, <3>2, <3>3, AppendedMessage
    <3>. QED
      BY <2>0, <3>3, <3>4 DEF AnswerInv, Expected, Single, UnderWayIn
  <2>2. CASE Dropped \/ TooSlow \/ NoClient
    <3>1. chan' = chan /\ (link' = "open" => link = "open")
      BY <2>2 DEF Dropped, TooSlow, NoClient
    <3>. QED
      BY <2>0, <3>1 DEF AnswerInv
  <2>. QED
    BY <1>4, <2>1, <2>2 DEF Broadcast
<1>5. ASSUME NEW k \in Ask, Answer(k) PROVE AnswerInv'
  <2>. DEFINE m == [type |-> "answer", phase |-> runner.cache, to |-> k]
  <2>1. /\ asks[k].at = "asked" /\ asks'[k].at = "replied"
        /\ \A l \in Ask \ {k} : asks'[l] = asks[l]
        /\ chan' = Append(chan, m)
        /\ link = "open"
    BY <1>0, <1>5 DEF Answer, AskStates
  <2>2. m \in Event \cup Answered /\ m.type = "answer" /\ m.to = k
    BY DEF TypeOK, Answered
  <2>. HIDE DEF m
  <2>3. /\ Answers(chan') = Answers(chan) \cup {Len(chan) + 1}
        /\ \A i \in Answers(chan) : chan'[i] = chan[i]
        /\ chan'[Len(chan) + 1] = m
        /\ Len(chan) + 1 \notin Answers(chan)
    BY <1>0, <2>1, <2>2, AppendedMessage
  <2>4. \A i \in Answers(chan) : chan[i].to # k
    BY <2>1 DEF AnswerInv, Expected
  <2>5. Expected(chan', asks')
    <3>. SUFFICES ASSUME NEW i \in Answers(chan')
                  PROVE  asks'[chan'[i].to].at = "replied"
      BY DEF Expected
    <3>1. CASE i = Len(chan) + 1
      BY <2>1, <2>2, <2>3, <3>1
    <3>2. CASE i \in Answers(chan)
      <4>1. chan'[i].to \in Ask \ {k} /\ asks[chan'[i].to].at = "replied"
        BY <1>0, <2>3, <2>4, <3>2 DEF AnswerInv, Expected
      <4>. QED
        BY <2>1, <4>1
    <3>. QED
      BY <2>3, <3>1, <3>2
  <2>6. Single(chan')
    BY <2>2, <2>3, <2>4 DEF AnswerInv, Single
  <2>7. ASSUME NEW l \in Ask, asks'[l].at = "replied" PROVE UnderWayIn(chan', l)
    <3>1. CASE l = k
      <4>1. Len(chan) + 1 \in Answers(chan') /\ chan'[Len(chan) + 1].to = k
        BY <2>2, <2>3
      <4>. QED
        BY <3>1, <4>1 DEF UnderWayIn
    <3>2. CASE l # k
      <4>1. asks[l].at = "replied" /\ link = "open"
        BY <2>1, <2>7, <3>2
      <4>2. PICK i \in Answers(chan) : chan[i].to = l
        BY <4>1 DEF AnswerInv, UnderWayIn
      <4>. QED
        BY <2>3, <4>2 DEF UnderWayIn
    <3>. QED
      BY <3>1, <3>2
  <2>. QED
    BY <2>5, <2>6, <2>7 DEF AnswerInv
<1>6. CASE Connect \/ Reconnect
  <2>1. /\ link = "none" /\ chan' = <<>>
        /\ \E k \in Ask : asks' = Asked(k)
    BY <1>6 DEF Connect, Reconnect, SessionInv, Ask
  <2>2. \A k \in Ask : asks'[k].at # "replied"
    BY <1>0, <2>1 DEF SessionInv, UnderWay, Asked, AskStates
  <2>. QED
    BY <2>1, <2>2, NoMessage DEF AnswerInv
<1>7. CASE ReadEvent
  <2>1. /\ chan # <<>> /\ chan' = Tail(chan) /\ link' = link
        /\ Head(chan).type # "answer"
    BY <1>7 DEF ReadEvent
  <2>2. \A k \in Ask : asks'[k].at = "replied" <=> asks[k].at = "replied"
    BY <1>0, <1>7 DEF ReadEvent, Show, Ignore, Asked, AskStates
  <2>3. /\ \A i \in Answers(chan') :
              i + 1 \in Answers(chan) /\ chan'[i] = chan[i + 1] /\ i \in Nat
        /\ \A i \in Answers(chan) :
              i - 1 \in Answers(chan') /\ chan'[i - 1] = chan[i]
    BY <1>0, <2>1, ReadMessage
  <2>4. Expected(chan', asks')
    BY <1>0, <2>2, <2>3 DEF AnswerInv, Expected
  <2>5. Single(chan')
    BY <2>3 DEF AnswerInv, Single
  <2>6. \A k \in Ask : UnderWayIn(chan, k) => UnderWayIn(chan', k)
    BY <2>3 DEF UnderWayIn
  <2>. QED
    BY <2>1, <2>2, <2>4, <2>5, <2>6 DEF AnswerInv
<1>8. CASE ReadAnswer
  <2>. DEFINE k == Head(chan).to
  <2>1. chan # <<>> /\ chan' = Tail(chan) /\ link' = link /\ 1 \in Answers(chan)
    BY <1>0, <1>8, ReadMessage DEF ReadAnswer
  <2>2. k = chan[1].to /\ k \in Ask /\ asks[k].at = "replied"
    BY <1>0, <2>1, ReadMessage DEF AnswerInv, Expected
  <2>3. asks' = [asks EXCEPT ![k] = [at |-> "answered", phase |-> Head(chan).phase]]
    BY <1>8, <2>2 DEF ReadAnswer
  <2>4. /\ asks'[k].at = "answered"
        /\ \A l \in Ask \ {k} : asks'[l] = asks[l]
    BY <1>0, <2>2, <2>3 DEF AskStates
  <2>. HIDE DEF k
  <2>5. /\ \A i \in Answers(chan') :
              i + 1 \in Answers(chan) /\ i + 1 # 1 /\ chan'[i] = chan[i + 1] /\ i \in Nat
        /\ \A i \in Answers(chan) : i # 1 =>
              i - 1 \in Answers(chan') /\ chan'[i - 1] = chan[i]
    BY <1>0, <2>1, ReadMessage
  <2>6. \A i \in Answers(chan) : i # 1 => chan[i].to # k
    BY <2>1, <2>2 DEF AnswerInv, Single
  <2>7. Expected(chan', asks')
    BY <1>0, <2>4, <2>5, <2>6 DEF AnswerInv, Expected
  <2>8. Single(chan')
    BY <2>5 DEF AnswerInv, Single
  <2>9. ASSUME NEW l \in Ask, asks'[l].at = "replied", link' = "open"
        PROVE  UnderWayIn(chan', l)
    <3>1. l # k /\ asks[l].at = "replied"
      BY <2>4, <2>9
    <3>2. PICK i \in Answers(chan) : chan[i].to = l
      BY <2>1, <2>9, <3>1 DEF AnswerInv, UnderWayIn
    <3>3. i # 1
      BY <2>2, <3>1, <3>2
    <3>. QED
      BY <2>5, <3>2, <3>3 DEF UnderWayIn
  <2>. QED
    BY <2>7, <2>8, <2>9 DEF AnswerInv
<1>9. CASE ConnectionLost \/ HydrateFails \/ Rediscover \/ Quit \/ Disconnect
  <2>1. chan' = <<>> /\ link' # "open"
    BY <1>9 DEF ConnectionLost, HydrateFails, Rediscover, Quit, Disconnect,
       CloseSession
  <2>. QED
    BY <2>1, NoMessage DEF AnswerInv
<1>10. CASE Hydrate \/ Refresh
  <2>1. /\ UNCHANGED <<link, chan>>
        /\ \A k \in Ask : asks'[k].at = "replied" <=> asks[k].at = "replied"
    BY <1>0, <1>10 DEF Hydrate, Refresh, AskStates, Ask, NoAsk
  <2>. QED
    BY <1>0, <2>1 DEF AnswerInv, Expected
<1>. QED
  BY <1>1, <1>2, <1>3, <1>4, <1>5, <1>6, <1>7, <1>8, <1>9, <1>10
  DEF Next, Runner, Server, Client, Interface

\* The inductive invariant.
LEMMA LiveViewInvariant == Spec => [](TypeOK /\ SessionInv /\ AnswerInv)
<1>1. Init => TypeOK /\ SessionInv /\ AnswerInv
  BY TypeOKInit, SessionInvInit, AnswerInvInit
<1>2. TypeOK /\ SessionInv /\ AnswerInv /\ [Next]_vars
        => (TypeOK /\ SessionInv /\ AnswerInv)'
  BY TypeOKStep, SessionInvStep, AnswerInvStep
<1>. QED
  BY <1>1, <1>2, PTL DEF Spec

\* Whoever waits for the state over a connection that stands has a server that
\* is up, and its request or the answer under way; over one the server closed,
\* the end of the stream will fail it.  Nobody waits without a connection.
NobodyWaitsInVain ==
    \A k \in Ask :
        UnderWay(k) =>
            \/ link = "closed"
            \/ /\ link = "open"
               /\ runner.at # "down"
               /\ asks[k].at = "asked" \/ UnderWayIn(chan, k)

\* Every request ends: the reader never waits for an answer that nobody will
\* write.  (SocketClient._pending and _fail_pending, ipc/client.py; the
\* dispatch of ipc/server.py.)
THEOREM RequestsAreServed == Spec => []NobodyWaitsInVain
<1>1. TypeOK /\ SessionInv /\ AnswerInv => NobodyWaitsInVain
  <2>. SUFFICES ASSUME TypeOK, SessionInv, AnswerInv, NEW k \in Ask, UnderWay(k),
                       link # "closed"
                PROVE  /\ link = "open"
                       /\ runner.at # "down"
                       /\ asks[k].at = "asked" \/ UnderWayIn(chan, k)
    BY DEF NobodyWaitsInVain
  <2>1. link = "open" /\ runner.at # "down"
    BY DEF TypeOK, SessionInv
  <2>2. asks[k].at \in {"asked", "replied"}
    BY DEF UnderWay
  <2>. QED
    BY <2>1, <2>2 DEF AnswerInv
<1>. QED
  BY <1>1, LiveViewInvariant, PTL

\* An answer under way is expected by its request, and is the only one.
AnswersExpected == Expected(chan, asks) /\ Single(chan)

\* The answer that the client reads is never that of an earlier request, and
\* no request is answered twice: to tell requests by their kind loses nothing
\* against the identifiers of ipc/client.py.
THEOREM AnswersMatchRequests == Spec => []AnswersExpected
<1>1. AnswerInv => AnswersExpected
  BY DEF AnswerInv, AnswersExpected
<1>. QED
  BY <1>1, LiveViewInvariant, PTL

\* What becomes of an interface that has no connection, and of one that waits
\* for its first state.
OnItsWay ==
    /\ link = "none" =>
        \/ tui = "discover"
        \/ client = "reconnecting"
        \/ client = "disconnected" /\ "discovery" \in leaving
        \/ client = "closed" /\ tui = "watch"
    /\ tui = "hydrate" => UnderWay("hydrate") \/ asks["hydrate"].at \in {"answered", "failed"}

\* An interface without a connection is on its way: it looks for a run, its
\* client reconnects, gave up and asked for discovery, or was closed by a
\* goodbye; and one that waits to hydrate has its request out, answered or
\* failed (tui/app.py, the callbacks of ipc/client.py).
THEOREM NobodyStranded == Spec => []OnItsWay
<1>1. TypeOK /\ SessionInv => OnItsWay
  <2>. SUFFICES ASSUME TypeOK, SessionInv PROVE OnItsWay
    OBVIOUS
  <2>1. asks["hydrate"].at \in {"none", "asked", "replied", "answered", "failed"}
    BY DEF TypeOK, Ask
  <2>2. link = "none" => client # "connected"
    BY DEF SessionInv
  <2>. QED
    BY <2>1, <2>2 DEF TypeOK, SessionInv, OnItsWay, UnderWay
<1>. QED
  BY <1>1, LiveViewInvariant, PTL

=============================================================================
