--------------------------- MODULE AgentLifecycle ---------------------------
(***************************************************************************)
(* The life of the agent's process: cmd/agent/main.go, the configuration,  *)
(* the clients, the server of internal/transport/http/server and the       *)
(* connections net/http serves for it, from the start to the exit code.    *)
(*                                                                         *)
(* Time is counted in ticks.  Nothing that has a deadline may be late:     *)
(* time does not pass while a deadline is due (Tick).  A request is its    *)
(* connection's "handling" (RequestPipeline says what happens meanwhile)   *)
(* and "flushing" (the client reads the response).                         *)
(***************************************************************************)
EXTENDS Integers

CONSTANTS Conns,            \* connections clients may open
          RequestTimeout,   \* the router's TimeoutMiddleware
          ReadTimeout,      \* cfg.ReadTimeout, also net/http's idle timeout
          WriteTimeout,     \* cfg.WriteTimeout
          ShutdownTimeouts, \* what SHUTDOWN_TIMEOUT may be: Validate accepts anything
          NewGrace,         \* net/http: how long Shutdown spares a new connection
          Poll              \* net/http: the longest pause between Shutdown's looks

ASSUME TimeoutsAssumption ==
  /\ RequestTimeout \in Nat \ {0} /\ ReadTimeout \in Nat \ {0}
  /\ WriteTimeout \in Nat \ {0} /\ NewGrace \in Nat /\ Poll \in Nat \ {0}
  /\ ShutdownTimeouts \subseteq Int

VARIABLES main,     \* where main() stands
          server,   \* where the goroutine of httpServer.Start() stands
          exit,     \* "running", or why the process ended
          patience, \* cfg.ShutdownTimeout, once the configuration is loaded
          quit,     \* is a signal in main's channel?
          asked,    \* history: was a signal sent once main had called Notify?
          conn,     \* the state of each connection
          age,      \* its age: since it was accepted, or its request began
          left,     \* the time left to Shutdown's context
          pollAge,  \* the time since Shutdown last looked at the connections
          cut,      \* connections whose request was cut off by the process's end
          lost      \* connections whose response came too late to be written

vars == <<main, server, exit, patience, quit, asked, conn, age, left, pollAge, cut, lost>>

Running  == exit = "running"
Busy     == {"new", "handling", "flushing"}
InFlight == {c \in Conns : conn[c] \in {"handling", "flushing"}}
ShuttingDown == main \in {"shutdown", "drain"}
Larger(a, b) == IF a > b THEN a ELSE b

\* The types; no connection is ever older than the timeouts of the server and the
\* router let it be, and Shutdown never outlives its context.
TypeOK ==
  /\ main \in {"load", "clients", "spawn", "register", "registered", "wait",
               "shutdown", "drain", "done"}
  /\ server \in {"none", "starting", "listening", "failed", "closed"}
  /\ exit \in {"running", "ok", "badConfig", "noClients", "listenFailed",
               "shutdownFailed", "killed"}
  /\ patience \in ShutdownTimeouts \cup {0}
  /\ quit \in BOOLEAN /\ asked \in BOOLEAN
  /\ conn \in [Conns -> Busy \cup {"none", "idle", "closed"}]
  /\ age \in [Conns -> 0..Larger(ReadTimeout, Larger(WriteTimeout, RequestTimeout))]
  /\ left \in 0..Larger(patience, 0)
  /\ pollAge \in 0..Poll
  /\ cut \subseteq Conns /\ lost \subseteq Conns

Init ==
  /\ main = "load" /\ server = "none" /\ exit = "running"
  /\ patience = 0
  /\ quit = FALSE /\ asked = FALSE
  /\ conn = [c \in Conns |-> "none"] /\ age = [c \in Conns |-> 0]
  /\ left = 0 /\ pollAge = 0
  /\ cut = {} /\ lost = {}

\* os.Exit, a return from main or a signal: all goroutines end at once.
ExitWith(why) ==
  /\ exit' = why
  /\ main' = "done"
  /\ cut' = cut \cup InFlight
  /\ UNCHANGED <<server, patience, quit, asked, conn, age, left, pollAge, lost>>

MainGoes(from, to) == Running /\ main = from /\ main' = to

(***************************************************************************)
(* main() up to the wait for a signal.                                     *)
(***************************************************************************)

\* config.Load: log.Fatalf if Validate refuses the environment's values.
LoadConfig ==
  \/ /\ MainGoes("load", "clients")
     /\ patience' \in ShutdownTimeouts
     /\ UNCHANGED <<server, exit, quit, asked, conn, age, left, pollAge, cut, lost>>
  \/ Running /\ main = "load" /\ ExitWith("badConfig")

\* kubernetes.NewClients needs the in-cluster configuration and the API client.
NewClients ==
  \/ /\ MainGoes("clients", "spawn")
     /\ UNCHANGED <<server, exit, patience, quit, asked, conn, age, left, pollAge, cut, lost>>
  \/ Running /\ main = "clients" /\ ExitWith("noClients")

\* go func() { httpServer.Start() ... }()
SpawnServer ==
  /\ MainGoes("spawn", "register")
  /\ server' = "starting"
  /\ UNCHANGED <<exit, patience, quit, asked, conn, age, left, pollAge, cut, lost>>

\* signal.Notify(quit, SIGINT, SIGTERM)
RegisterSignals ==
  /\ MainGoes("register", "registered")
  /\ UNCHANGED <<server, exit, patience, quit, asked, conn, age, left, pollAge, cut, lost>>

\* main blocks in <-quit.
AwaitSignal ==
  /\ MainGoes("registered", "wait")
  /\ UNCHANGED <<server, exit, patience, quit, asked, conn, age, left, pollAge, cut, lost>>

\* Mutant of Signal: make(chan os.Signal) without a buffer.
Signal_Unbuffered ==
  \/ /\ Running /\ main \in {"load", "clients", "spawn", "register"}
     /\ ExitWith("killed")
  \/ /\ Running /\ (main \in {"registered", "wait"} \/ ShuttingDown)
     /\ quit' = (main = "wait") /\ asked' = TRUE
     /\ UNCHANGED <<main, server, exit, patience, conn, age, left, pollAge, cut, lost>>

\* The kubelet stops the pod.  Before Notify the signal kills the process; after
\* it, quit keeps one signal and drops those that find it full.
Signal ==
  \/ /\ Running /\ main \in {"load", "clients", "spawn", "register"}
     /\ ExitWith("killed")
  \/ /\ Running /\ (main \in {"registered", "wait"} \/ ShuttingDown)
     /\ quit' = TRUE /\ asked' = TRUE
     /\ UNCHANGED <<main, server, exit, patience, conn, age, left, pollAge, cut, lost>>

(***************************************************************************)
(* The server's goroutine.                                                 *)
(***************************************************************************)

\* ListenAndServe binds the port; once Shutdown has been called it returns
\* http.ErrServerClosed instead, which Start turns into nil.
Listen ==
  /\ Running /\ server = "starting"
  /\ server' \in IF ShuttingDown THEN {"closed"} ELSE {"listening", "failed"}
  /\ UNCHANGED <<main, exit, patience, quit, asked, conn, age, left, pollAge, cut, lost>>

\* Mutant of ExitOnListenFailure: the error is logged and that is all.
ExitOnListenFailure_LogOnly ==
  /\ Running /\ server = "failed"
  /\ UNCHANGED vars

\* Start returned an error: os.Exit(1).
ExitOnListenFailure ==
  /\ Running /\ server = "failed"
  /\ ExitWith("listenFailed")

(***************************************************************************)
(* Connections, as net/http serves them.                                   *)
(***************************************************************************)

\* Connection c goes to a state, with its age counted from now.
Enter(c, to) ==
  /\ conn' = [conn EXCEPT ![c] = to]
  /\ age' = [age EXCEPT ![c] = 0]

Open(c) ==
  /\ Running /\ server = "listening" /\ conn[c] \in {"none", "closed"}
  /\ Enter(c, "new")
  /\ UNCHANGED <<main, server, exit, patience, quit, asked, left, pollAge, cut, lost>>

\* A request's header has been read: the handler chain runs, and the write
\* deadline counts from here.
ReadRequest(c) ==
  /\ Running /\ conn[c] \in {"new", "idle"}
  /\ Enter(c, "handling")
  /\ UNCHANGED <<main, server, exit, patience, quit, asked, left, pollAge, cut, lost>>

\* The client closes, or the read or idle timeout does.
CloseUnused(c) ==
  /\ Running /\ conn[c] \in {"new", "idle"}
  /\ Enter(c, "closed")
  /\ UNCHANGED <<main, server, exit, patience, quit, asked, left, pollAge, cut, lost>>

\* Mutant of HandlingTime: without TimeoutMiddleware a call of the API may take
\* cfg.K8sTimeout, six times as long.
HandlingTime_K8sTimeout == 6 * RequestTimeout

\* The longest a request may be handled: TimeoutMiddleware answers then.
HandlingTime == RequestTimeout

\* The chain returned.  Past its write deadline nothing can be written.
Respond(c) ==
  /\ Running /\ conn[c] = "handling"
  /\ conn' = [conn EXCEPT ![c] = IF age[c] < WriteTimeout THEN "flushing" ELSE "closed"]
  /\ lost' = IF age[c] < WriteTimeout THEN lost ELSE lost \cup {c}
  /\ UNCHANGED <<main, server, exit, patience, quit, asked, age, left, pollAge, cut>>

\* The client has read the response, or the write deadline closed the
\* connection.  A server that shuts down keeps no connection alive.
EndRequest(c) ==
  /\ Running /\ conn[c] = "flushing"
  /\ \/ ~ShuttingDown /\ Enter(c, "idle")
     \/ Enter(c, "closed")
  /\ UNCHANGED <<main, server, exit, patience, quit, asked, left, pollAge, cut, lost>>

(***************************************************************************)
(* Shutdown.                                                               *)
(***************************************************************************)

\* <-quit returns, the context gets its deadline, and Shutdown closes the
\* listener; it looks at the connections at once.
BeginShutdown ==
  /\ MainGoes("wait", "shutdown")
  /\ quit
  /\ quit' = FALSE
  /\ left' = Larger(patience, 0)
  /\ server' = IF server = "listening" THEN "closed" ELSE server
  /\ UNCHANGED <<exit, patience, asked, conn, age, pollAge, cut, lost>>

\* What Shutdown takes for idle: new connections only when they are old enough.
Reapable(c) == conn[c] = "idle" \/ (conn[c] = "new" /\ age[c] > NewGrace)

\* Mutant of PollConns: s.server.Close() instead of s.server.Shutdown(ctx).
PollConns_Close ==
  /\ Running /\ ShuttingDown
  /\ ExitWith("ok")

\* One look at the connections: close the idle ones; return nil if none is left.
PollConns ==
  LET after == [c \in Conns |-> IF Reapable(c) THEN "closed" ELSE conn[c]]
      quiet == \A c \in Conns : after[c] \notin Busy
  IN  /\ Running /\ ShuttingDown
      /\ conn' = after
      /\ pollAge' = 0
      /\ IF quiet THEN exit' = "ok" /\ main' = "done" /\ cut' = cut \cup InFlight
                  ELSE main' = "drain" /\ UNCHANGED <<exit, cut>>
      /\ UNCHANGED <<server, patience, quit, asked, age, left, lost>>

\* Shutdown's context is done: it returns an error, and main exits with 1.
GiveUp ==
  /\ Running /\ main = "drain" /\ left = 0
  /\ ExitWith("shutdownFailed")

(***************************************************************************)
(* Time.                                                                   *)
(***************************************************************************)

\* Mutant of Due: the server is made without cfg.ReadTimeout.
Due_NoReadTimeout(c) ==
  \/ (conn[c] = "handling" /\ age[c] >= HandlingTime)
  \/ (conn[c] = "flushing" /\ age[c] >= WriteTimeout)

\* Something on connection c is due now.
Due(c) ==
  \/ (conn[c] \in {"new", "idle"} /\ age[c] >= ReadTimeout)
  \/ (conn[c] = "handling" /\ age[c] >= HandlingTime)
  \/ (conn[c] = "flushing" /\ age[c] >= WriteTimeout)

Counting(c) == conn[c] \in Busy \cup {"idle"}

Tick ==
  /\ Running
  /\ \A c \in Conns : ~Due(c)
  /\ main # "shutdown"
  /\ main = "drain" => left > 0 /\ pollAge < Poll
  /\ age' = [c \in Conns |-> IF Counting(c) THEN age[c] + 1 ELSE age[c]]
  /\ IF main = "drain"
     THEN left' = left - 1 /\ pollAge' = pollAge + 1
     ELSE UNCHANGED <<left, pollAge>>
  /\ UNCHANGED <<main, server, exit, patience, quit, asked, conn, cut, lost>>

\* The process is gone.
Gone == ~Running /\ UNCHANGED vars

Main == LoadConfig \/ NewClients \/ SpawnServer \/ RegisterSignals \/ AwaitSignal
          \/ BeginShutdown \/ PollConns \/ GiveUp

Serve(c) == Open(c) \/ ReadRequest(c) \/ CloseUnused(c) \/ Respond(c) \/ EndRequest(c)

Next ==
  \/ Main \/ Signal \/ Listen \/ ExitOnListenFailure \/ Tick \/ Gone
  \/ \E c \in Conns : Serve(c)

Spec == Init /\ [][Next]_vars

\* main, the server's goroutine and the deadlines of the connections run; the
\* clock does.  Nothing obliges a client or the kubelet to anything.
FairSpec ==
  /\ Spec
  /\ WF_vars(Main) /\ WF_vars(Listen) /\ WF_vars(ExitOnListenFailure) /\ WF_vars(Tick)
  /\ \A c \in Conns : WF_vars(Due(c) /\ (CloseUnused(c) \/ Respond(c) \/ EndRequest(c)))

(***************************************************************************)
(* Properties.                                                             *)
(***************************************************************************)

\* Exit code 0 means what it says: no request was in flight when the process
\* ended (main's last lines, Server.Shutdown).
CleanExit == exit = "ok" => cut = {}

\* A shutdown that has been given enough time succeeds.  Enough exceeds four
\* delays in a row: a connection accepted just before the signal is spared for
\* NewGrace and until the next look, by then it may have sent a request, which is
\* handled and its response flushed, and the next look sees it gone.
LongEnough == patience > NewGrace + Poll + Larger(RequestTimeout, WriteTimeout) + Poll
GracefulShutdown == exit = "shutdownFailed" => ~LongEnough

\* README.md lists "Health checks, structured logging, graceful shutdown" among the
\* features: a shutdown that was asked for succeeds.
AlwaysGraceful == exit # "shutdownFailed"

\* As long as responses may be written for longer than requests may be handled,
\* no response, the 504 of TimeoutMiddleware included, comes too late to be sent.
ResponsesInTime == WriteTimeout > RequestTimeout => lost = {}

\* A signal sent at any moment after signal.Notify ends the process, whatever the
\* connections do and however often it is sent.
SignalHonoured == asked ~> ~Running

\* An agent that could not bind its port does not wait for a signal as a process
\* that serves nobody.
ListenFailureEnds == server = "failed" ~> ~Running

=============================================================================
