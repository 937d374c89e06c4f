-------------------------- MODULE AgentLifecycleProofs --------------------------
(***************************************************************************)
(* Proofs about AgentLifecycle for every number of connections and every   *)
(* value of the timeouts.  The main result says how long ShutdownTimeout   *)
(* has to be: LongEnough is a sum of four delays, and the invariant below  *)
(* follows a request through them, one after the other.                    *)
(***************************************************************************)
EXTENDS AgentLifecycle, TLAPS

\* No deadline of a connection has been missed.
Punctual ==
  \A c \in Conns :
    /\ conn[c] = "handling" => age[c] <= RequestTimeout
    /\ conn[c] = "flushing" => age[c] <= WriteTimeout
    /\ conn[c] \in {"new", "idle"} => age[c] <= ReadTimeout

\* Only the end of the process cuts requests off, and not a successful one.
NothingCutYet == (Running => cut = {}) /\ (main # "done" => Running)

\* The time since Shutdown began.
Elapsed == Larger(patience, 0) - left

\* Shutdown's context has no deadline before there is one.  While Shutdown waits: a connection is new only as long as the last look spared
\* it, a request began at most NewGrace + Poll after the start of Shutdown, and
\* at the last look something was still busy.
DrainInv ==
  /\ main = "load" => left = 0
  /\ ShuttingDown => server # "listening"
  /\ main = "shutdown" => Elapsed = 0
  /\ main = "drain" =>
       /\ \A c \in Conns :
            /\ conn[c] # "idle"
            /\ conn[c] = "new" => Elapsed <= age[c] /\ age[c] <= NewGrace + pollAge
            /\ conn[c] \in {"handling", "flushing"} => Elapsed - age[c] <= NewGrace + Poll
       /\ Elapsed - pollAge <= NewGrace + Poll + Larger(RequestTimeout, WriteTimeout)

-----------------------------------------------------------------------------

\* A step keeps every variable in its type, and so no clock runs away.
LEMMA TypeStep ==
  ASSUME TypeOK, Punctual, DrainInv, [Next]_vars
  PROVE  TypeOK' /\ Punctual'
  <1> USE DEF TypeOK, Running, Busy, ShuttingDown, Larger, Punctual
  <1>1. ASSUME LoadConfig
        PROVE  TypeOK' /\ Punctual'
    <2>1. CASE MainGoes("load", "clients")
      <3>1. left = 0
        BY <2>1 DEF MainGoes, DrainInv
      <3>2. patience' \in ShutdownTimeouts \cup {0} /\ left' = 0
        BY <1>1, <3>1 DEF LoadConfig, ExitWith
      <3>3. left' \in 0..Larger(patience', 0)
        BY <3>2, TimeoutsAssumption
      <3>4. UNCHANGED <<server, quit, asked, conn, age, left, pollAge, lost>>
        BY <1>1 DEF LoadConfig, ExitWith
      <3>5. exit' \in {exit, "badConfig"} /\ main' \in {"clients", "done"} /\ cut' \subseteq Conns
        BY <1>1 DEF LoadConfig, ExitWith, InFlight, MainGoes
      <3> QED
        BY <3>2, <3>3, <3>4, <3>5
    <2>2. CASE ExitWith("badConfig")
      BY <2>2 DEF ExitWith, InFlight
    <2> QED
      BY <1>1, <2>1, <2>2 DEF LoadConfig
  <1>2. ASSUME NewClients
        PROVE  TypeOK' /\ Punctual'
    BY <1>2 DEF NewClients, ExitWith, InFlight, MainGoes
  <1>3. ASSUME SpawnServer
        PROVE  TypeOK' /\ Punctual'
    BY <1>3 DEF SpawnServer, MainGoes
  <1>4. ASSUME RegisterSignals
        PROVE  TypeOK' /\ Punctual'
    BY <1>4 DEF RegisterSignals, MainGoes
  <1>5. ASSUME AwaitSignal
        PROVE  TypeOK' /\ Punctual'
    BY <1>5 DEF AwaitSignal, MainGoes
  <1>6. ASSUME BeginShutdown
        PROVE  TypeOK' /\ Punctual'
    <2>1. left' \in 0..Larger(patience', 0)
      BY <1>6, TimeoutsAssumption DEF BeginShutdown
    <2>2. server' \in {"none", "starting", "listening", "failed", "closed"}
      BY <1>6 DEF BeginShutdown
    <2>3. main' = "shutdown" /\ quit' = FALSE /\ UNCHANGED <<exit, patience, asked, conn, age, pollAge, cut, lost>>
      BY <1>6 DEF BeginShutdown, MainGoes
    <2> QED
      BY <2>1, <2>2, <2>3
  <1>7. ASSUME PollConns
        PROVE  TypeOK' /\ Punctual'
    BY <1>7, TimeoutsAssumption DEF PollConns, Reapable, InFlight
  <1>8. ASSUME GiveUp
        PROVE  TypeOK' /\ Punctual'
    BY <1>8, TimeoutsAssumption DEF GiveUp, ExitWith, InFlight
  <1>9. ASSUME Signal
        PROVE  TypeOK' /\ Punctual'
    BY <1>9, TimeoutsAssumption DEF Signal, ExitWith, InFlight
  <1>10. ASSUME Listen
        PROVE  TypeOK' /\ Punctual'
    BY <1>10, TimeoutsAssumption DEF Listen
  <1>11. ASSUME ExitOnListenFailure
        PROVE  TypeOK' /\ Punctual'
    BY <1>11, TimeoutsAssumption DEF ExitOnListenFailure, ExitWith, InFlight
  <1>12. ASSUME Tick
        PROVE  TypeOK' /\ Punctual'
    BY <1>12, TimeoutsAssumption DEF Tick, Due, Counting, HandlingTime
  <1>13. ASSUME NEW c \in Conns, Open(c)
        PROVE  TypeOK' /\ Punctual'
    BY <1>13, TimeoutsAssumption DEF Open, Enter
  <1>14. ASSUME NEW c \in Conns, ReadRequest(c)
        PROVE  TypeOK' /\ Punctual'
    BY <1>14, TimeoutsAssumption DEF ReadRequest, Enter
  <1>15. ASSUME NEW c \in Conns, CloseUnused(c)
        PROVE  TypeOK' /\ Punctual'
    BY <1>15, TimeoutsAssumption DEF CloseUnused, Enter
  <1>16. ASSUME NEW c \in Conns, Respond(c)
        PROVE  TypeOK' /\ Punctual'
    BY <1>16, TimeoutsAssumption DEF Respond
  <1>17. ASSUME NEW c \in Conns, EndRequest(c)
        PROVE  TypeOK' /\ Punctual'
    BY <1>17, TimeoutsAssumption DEF EndRequest, Enter
  <1>18. CASE UNCHANGED vars
    BY <1>18 DEF vars
  <1> QED
    BY <1>1, <1>2, <1>3, <1>4, <1>5, <1>6, <1>7, <1>8, <1>9,
       <1>10, <1>11, <1>12, <1>13, <1>14, <1>15, <1>16, <1>17, <1>18 DEF Next, Main, Serve, Gone

\* Requests are cut off only by the step that ends the process.
LEMMA CutStep ==
  ASSUME TypeOK, NothingCutYet, CleanExit, [Next]_vars
  PROVE  NothingCutYet' /\ CleanExit'
  <1> USE DEF TypeOK, Running, Busy, ShuttingDown, Larger, NothingCutYet, CleanExit
  <1>1. ASSUME LoadConfig
        PROVE  NothingCutYet' /\ CleanExit'
    BY <1>1 DEF LoadConfig, ExitWith, InFlight, MainGoes
  <1>2. ASSUME NewClients
        PROVE  NothingCutYet' /\ CleanExit'
    BY <1>2 DEF NewClients, ExitWith, InFlight, MainGoes
  <1>3. ASSUME SpawnServer
        PROVE  NothingCutYet' /\ CleanExit'
    BY <1>3 DEF SpawnServer, MainGoes
  <1>4. ASSUME RegisterSignals
        PROVE  NothingCutYet' /\ CleanExit'
    BY <1>4 DEF RegisterSignals, MainGoes
  <1>5. ASSUME AwaitSignal
        PROVE  NothingCutYet' /\ CleanExit'
    BY <1>5 DEF AwaitSignal, MainGoes
  <1>6. ASSUME BeginShutdown
        PROVE  NothingCutYet' /\ CleanExit'
    BY <1>6 DEF BeginShutdown, MainGoes
  <1>7. ASSUME PollConns
        PROVE  NothingCutYet' /\ CleanExit'
    BY <1>7 DEF PollConns, Reapable, InFlight
  <1>8. ASSUME GiveUp
        PROVE  NothingCutYet' /\ CleanExit'
    BY <1>8 DEF GiveUp, ExitWith, InFlight
  <1>9. ASSUME Signal
        PROVE  NothingCutYet' /\ CleanExit'
    BY <1>9 DEF Signal, ExitWith, InFlight
  <1>10. ASSUME Listen
        PROVE  NothingCutYet' /\ CleanExit'
    BY <1>10 DEF Listen
  <1>11. ASSUME ExitOnListenFailure
        PROVE  NothingCutYet' /\ CleanExit'
    BY <1>11 DEF ExitOnListenFailure, ExitWith, InFlight
  <1>12. ASSUME Tick
        PROVE  NothingCutYet' /\ CleanExit'
    BY <1>12 DEF Tick, Due, Counting, HandlingTime
  <1>13. ASSUME NEW c \in Conns, Open(c)
        PROVE  NothingCutYet' /\ CleanExit'
    BY <1>13 DEF Open, Enter
  <1>14. ASSUME NEW c \in Conns, ReadRequest(c)
        PROVE  NothingCutYet' /\ CleanExit'
    BY <1>14 DEF ReadRequest, Enter
  <1>15. ASSUME NEW c \in Conns, CloseUnused(c)
        PROVE  NothingCutYet' /\ CleanExit'
    BY <1>15 DEF CloseUnused, Enter
  <1>16. ASSUME NEW c \in Conns, Respond(c)
        PROVE  NothingCutYet' /\ CleanExit'
    BY <1>16 DEF Respond
  <1>17. ASSUME NEW c \in Conns, EndRequest(c)
        PROVE  NothingCutYet' /\ CleanExit'
    BY <1>17 DEF EndRequest, Enter
  <1>18. CASE UNCHANGED vars
    BY <1>18 DEF vars
  <1> QED
    BY <1>1, <1>2, <1>3, <1>4, <1>5, <1>6, <1>7, <1>8, <1>9,
       <1>10, <1>11, <1>12, <1>13, <1>14, <1>15, <1>16, <1>17, <1>18 DEF Next, Main, Serve, Gone

\* A handler that is punctual leaves time to write.
LEMMA LostStep ==
  ASSUME TypeOK, Punctual, ResponsesInTime, [Next]_vars
  PROVE  ResponsesInTime'
  <1> USE DEF TypeOK, Running, Busy, ShuttingDown, Larger, Punctual, ResponsesInTime
  <1>1. ASSUME LoadConfig
        PROVE  ResponsesInTime'
    BY <1>1 DEF LoadConfig, ExitWith, InFlight, MainGoes
  <1>2. ASSUME NewClients
        PROVE  ResponsesInTime'
    BY <1>2 DEF NewClients, ExitWith, InFlight, MainGoes
  <1>3. ASSUME SpawnServer
        PROVE  ResponsesInTime'
    BY <1>3 DEF SpawnServer, MainGoes
  <1>4. ASSUME RegisterSignals
        PROVE  ResponsesInTime'
    BY <1>4 DEF RegisterSignals, MainGoes
  <1>5. ASSUME AwaitSignal
        PROVE  ResponsesInTime'
    BY <1>5 DEF AwaitSignal, MainGoes
  <1>6. ASSUME BeginShutdown
        PROVE  ResponsesInTime'
    BY <1>6 DEF BeginShutdown, MainGoes
  <1>7. ASSUME PollConns
        PROVE  ResponsesInTime'
    BY <1>7 DEF PollConns, Reapable, InFlight
  <1>8. ASSUME GiveUp
        PROVE  ResponsesInTime'
    BY <1>8 DEF GiveUp, ExitWith, InFlight
  <1>9. ASSUME Signal
        PROVE  ResponsesInTime'
    BY <1>9 DEF Signal, ExitWith, InFlight
  <1>10. ASSUME Listen
        PROVE  ResponsesInTime'
    BY <1>10 DEF Listen
  <1>11. ASSUME ExitOnListenFailure
        PROVE  ResponsesInTime'
    BY <1>11 DEF ExitOnListenFailure, ExitWith, InFlight
  <1>12. ASSUME Tick
        PROVE  ResponsesInTime'
    BY <1>12 DEF Tick, Due, Counting, HandlingTime
  <1>13. ASSUME NEW c \in Conns, Open(c)
        PROVE  ResponsesInTime'
    BY <1>13 DEF Open, Enter
  <1>14. ASSUME NEW c \in Conns, ReadRequest(c)
        PROVE  ResponsesInTime'
    BY <1>14 DEF ReadRequest, Enter
  <1>15. ASSUME NEW c \in Conns, CloseUnused(c)
        PROVE  ResponsesInTime'
    BY <1>15 DEF CloseUnused, Enter
  <1>16. ASSUME NEW c \in Conns, Respond(c)
        PROVE  ResponsesInTime'
    BY <1>16, TimeoutsAssumption DEF Respond
  <1>17. ASSUME NEW c \in Conns, EndRequest(c)
        PROVE  ResponsesInTime'
    BY <1>17 DEF EndRequest, Enter
  <1>18. CASE UNCHANGED vars
    BY <1>18 DEF vars
  <1> QED
    BY <1>1, <1>2, <1>3, <1>4, <1>5, <1>6, <1>7, <1>8, <1>9,
       <1>10, <1>11, <1>12, <1>13, <1>14, <1>15, <1>16, <1>17, <1>18 DEF Next, Main, Serve, Gone

\* What Shutdown knows of the connections stays true.
LEMMA DrainStep ==
  ASSUME TypeOK, Punctual, DrainInv, [Next]_vars
  PROVE  DrainInv'
  <1> USE DEF TypeOK, Running, Busy, ShuttingDown, Larger, Punctual, DrainInv, Elapsed
  <1>1. ASSUME LoadConfig
        PROVE  DrainInv'
    BY <1>1 DEF LoadConfig, ExitWith, InFlight, MainGoes
  <1>2. ASSUME NewClients
        PROVE  DrainInv'
    BY <1>2 DEF NewClients, ExitWith, InFlight, MainGoes
  <1>3. ASSUME SpawnServer
        PROVE  DrainInv'
    BY <1>3 DEF SpawnServer, MainGoes
  <1>4. ASSUME RegisterSignals
        PROVE  DrainInv'
    BY <1>4 DEF RegisterSignals, MainGoes
  <1>5. ASSUME AwaitSignal
        PROVE  DrainInv'
    BY <1>5 DEF AwaitSignal, MainGoes
  <1>6. ASSUME BeginShutdown
        PROVE  DrainInv'
    BY <1>6, TimeoutsAssumption DEF BeginShutdown, MainGoes
  <1>7. ASSUME PollConns
        PROVE  DrainInv'
    BY <1>7, TimeoutsAssumption DEF PollConns, Reapable, InFlight
  <1>8. ASSUME GiveUp
        PROVE  DrainInv'
    BY <1>8, TimeoutsAssumption DEF GiveUp, ExitWith, InFlight
  <1>9. ASSUME Signal
        PROVE  DrainInv'
    BY <1>9, TimeoutsAssumption DEF Signal, ExitWith, InFlight
  <1>10. ASSUME Listen
        PROVE  DrainInv'
    BY <1>10, TimeoutsAssumption DEF Listen
  <1>11. ASSUME ExitOnListenFailure
        PROVE  DrainInv'
    BY <1>11, TimeoutsAssumption DEF ExitOnListenFailure, ExitWith, InFlight
  <1>12. ASSUME Tick
        PROVE  DrainInv'
    BY <1>12, TimeoutsAssumption DEF Tick, Due, Counting, HandlingTime
  <1>13. ASSUME NEW c \in Conns, Open(c)
        PROVE  DrainInv'
    BY <1>13, TimeoutsAssumption DEF Open, Enter
  <1>14. ASSUME NEW c \in Conns, ReadRequest(c)
        PROVE  DrainInv'
    BY <1>14, TimeoutsAssumption DEF ReadRequest, Enter
  <1>15. ASSUME NEW c \in Conns, CloseUnused(c)
        PROVE  DrainInv'
    BY <1>15, TimeoutsAssumption DEF CloseUnused, Enter
  <1>16. ASSUME NEW c \in Conns, Respond(c)
        PROVE  DrainInv'
    BY <1>16, TimeoutsAssumption DEF Respond
  <1>17. ASSUME NEW c \in Conns, EndRequest(c)
        PROVE  DrainInv'
    BY <1>17, TimeoutsAssumption DEF EndRequest, Enter
  <1>18. CASE UNCHANGED vars
    BY <1>18 DEF vars
  <1> QED
    BY <1>1, <1>2, <1>3, <1>4, <1>5, <1>6, <1>7, <1>8, <1>9,
       <1>10, <1>11, <1>12, <1>13, <1>14, <1>15, <1>16, <1>17, <1>18 DEF Next, Main, Serve, Gone

-----------------------------------------------------------------------------

\* The inductive invariant.
LInv == TypeOK /\ Punctual /\ NothingCutYet /\ CleanExit /\ ResponsesInTime /\ DrainInv

\* LInv holds in the initial states.
LEMMA InitInv == Init => LInv
  <1> SUFFICES ASSUME Init
               PROVE  LInv
    OBVIOUS
  <1>1. left = 0 /\ patience = 0 /\ Larger(patience, 0) = 0
    BY DEF Init, Larger
  <1>2. Larger(ReadTimeout, Larger(WriteTimeout, RequestTimeout)) \in Nat
    BY TimeoutsAssumption DEF Larger
  <1>3. TypeOK
    <2>1. age \in [Conns -> 0..Larger(ReadTimeout, Larger(WriteTimeout, RequestTimeout))]
      BY <1>2 DEF Init
    <2>2. conn \in [Conns -> Busy \cup {"none", "idle", "closed"}]
      BY DEF Init
    <2>3. left \in 0..Larger(patience, 0) /\ pollAge \in 0..Poll
      BY <1>1, TimeoutsAssumption DEF Init
    <2> QED
      BY <2>1, <2>2, <2>3 DEF Init, TypeOK
  <1>4. NothingCutYet /\ CleanExit /\ ResponsesInTime
    BY DEF Init, NothingCutYet, CleanExit, ResponsesInTime, Running
  <1>5. Punctual /\ DrainInv
    BY DEF Init, Punctual, DrainInv, ShuttingDown
  <1> QED
    BY <1>3, <1>4, <1>5 DEF LInv

\* Every step preserves LInv.
LEMMA StepInv == LInv /\ [Next]_vars => LInv'
  BY TypeStep, CutStep, LostStep, DrainStep DEF LInv

\* LInv holds in every reachable state: clocks keep to their deadlines, and a shutdown
\* has time left for every connection that is still busy.
THEOREM Invariance == Spec => []LInv
  BY InitInv, StepInv, PTL DEF Spec

\* Every variable keeps its type: no connection outlives its deadlines.
THEOREM TypeCorrectness == Spec => []TypeOK
  <1>1. LInv => TypeOK
    BY DEF LInv
  <1> QED
    BY <1>1, Invariance, PTL

\* Exit code 0 is never given while a request is in flight.
THEOREM ExitsClean == Spec => []CleanExit
  <1>1. LInv => CleanExit
    BY DEF LInv
  <1> QED
    BY <1>1, Invariance, PTL

\* A response is always written in time if WriteTimeout exceeds RequestTimeout.
THEOREM RespondsInTime == Spec => []ResponsesInTime
  <1>1. LInv => ResponsesInTime
    BY DEF LInv
  <1> QED
    BY <1>1, Invariance, PTL

\* Shutdown does not give up before its time, so with enough of it not at all.
LEMMA NoGiveUp ==
  ASSUME LInv, [Next]_vars, GracefulShutdown
  PROVE  GracefulShutdown'
  <1>1. ASSUME GiveUp
        PROVE  ~LongEnough'
    <2> SUFFICES ASSUME LongEnough
                 PROVE  FALSE
      BY <1>1 DEF GiveUp, ExitWith, LongEnough
    <2>1. main = "drain" /\ left = 0
      BY <1>1 DEF GiveUp
    <2>2. Elapsed - pollAge <= NewGrace + Poll + Larger(RequestTimeout, WriteTimeout)
      BY <2>1 DEF LInv, DrainInv
    <2>3. pollAge \in 0..Poll /\ patience \in Int
      BY TimeoutsAssumption DEF LInv, TypeOK
    <2>4. Larger(RequestTimeout, WriteTimeout) \in Nat
      BY TimeoutsAssumption DEF Larger
    <2>5. Elapsed = patience
      BY <2>1, <2>3, <2>4, TimeoutsAssumption DEF Elapsed, Larger, LongEnough
    <2> QED
      BY <2>2, <2>3, <2>4, <2>5, TimeoutsAssumption DEF LongEnough
  <1>2. exit' = "shutdownFailed" => GiveUp \/ (exit = "shutdownFailed" /\ patience' = patience)
    BY DEF Next, Main, Serve, Gone, vars, ExitWith, Running,
       LoadConfig, NewClients, SpawnServer, RegisterSignals, AwaitSignal, MainGoes,
       BeginShutdown, PollConns, Signal, Listen, ExitOnListenFailure, Tick,
       Open, ReadRequest, CloseUnused, Respond, EndRequest
  <1> QED
    BY <1>1, <1>2 DEF GracefulShutdown, LongEnough

\* With a ShutdownTimeout that is LongEnough, shutdown always succeeds: for every
\* number of connections, whatever their clients do.
THEOREM ShutdownSucceeds == Spec => []GracefulShutdown
  <1>1. Init => GracefulShutdown
    BY DEF Init, GracefulShutdown
  <1>2. LInv /\ [Next]_vars /\ GracefulShutdown => GracefulShutdown'
    BY NoGiveUp
  <1> QED
    BY <1>1, <1>2, Invariance, PTL DEF Spec

=============================================================================
