-------------------------- MODULE RequestPipeline --------------------------
(***************************************************************************)
(* One HTTP request of the agent, from the middleware chain of NewRouter   *)
(* (internal/transport/http/router/router.go) to the end of its handler.   *)
(*                                                                         *)
(* TimeoutMiddleware serves every request with two goroutines that share   *)
(* one http.ResponseWriter and no lock: the connection's goroutine, which  *)
(* runs the middlewares and waits in a select, and the goroutine it starts *)
(* for the handler.  Both may write a JSON document; chi's wrapper and     *)
(* net/http's response underneath decide, flag by flag, what reaches the   *)
(* client.  The API calls of a handler are abstracted to the moment they   *)
(* have returned and the status the handler then answers with (module      *)
(* Endpoints says which status); documents are names.                      *)
(*                                                                         *)
(* Nor do requests keep to themselves.  net/http buffers a body in a       *)
(* writer it takes from a pool and puts back when the response ends, and   *)
(* it does not ask whether the one who writes is still entitled to: what   *)
(* an abandoned handler writes late goes wherever its old writer is then.  *)
(***************************************************************************)
EXTENDS Naturals, Sequences

CONSTANTS Requests,         \* the requests that may arrive
          HandlerStatuses,  \* the statuses a handler may answer with
          MayPanic          \* may the code of a handler panic?

ASSUME StatusesAssumption == HandlerStatuses \subseteq Nat \ {0}
ASSUME MayPanicAssumption == MayPanic \in BOOLEAN

VARIABLES pc,       \* pc[r][g]: where goroutine g of request r stands
          ctx,      \* the request's context, as TimeoutMiddleware derived it
          branch,   \* the case the middleware's select took
          answer,   \* the status the handler decided on, 0 before
          wrote,    \* chi's wroteHeader flag
          code,     \* chi's code, what ww.Status() returns
          wire,     \* the status net/http committed, 0 if none
          body,     \* the documents in the response's body
          logged,   \* the status LoggingMiddleware logged, 0 if none
          past,     \* the abandoned handlers that still hold the request's writer
          process   \* "up", or how the process died

vars == <<pc, ctx, branch, answer, wrote, code, wire, body, logged, past, process>>

Goroutines == {"middleware", "handler"}
Writing    == {"set", "claim", "mark", "commit", "body"}
Pcs        == Writing \cup {"idle", "select", "serving", "log", "recover",
                            "finish", "finished", "ended"}

\* What a body may be made of: the two documents, the one of a recovered panic,
\* what a race left of documents (their parts in any order, or none), another
\* request's document, and one so large that the status line went out before it,
\* with no status in it.
Docs == {"handler", "timeout", "recovered", "torn", "foreign", "statusless"}

OK             == 200
GatewayTimeout == 504
Statuses       == HandlerStatuses \cup {OK, GatewayTimeout}

\* The types; what is committed and logged is a status the code knows, and the
\* timeout's is 504, though the handlers' annotations announce 408.
TypeOK ==
  /\ pc \in [Requests -> [Goroutines -> Pcs]]
  /\ ctx \in [Requests -> {"live", "deadline", "canceled"}]
  /\ branch \in [Requests -> {"none", "done", "deadline", "canceled"}]
  /\ answer \in [Requests -> HandlerStatuses \cup {0}]
  /\ wrote \in [Requests -> BOOLEAN]
  /\ code \in [Requests -> Statuses \cup {0}]
  /\ wire \in [Requests -> Statuses \cup {0}]
  /\ body \in [Requests -> Seq(Docs)]
  /\ logged \in [Requests -> Statuses \cup {0}]
  /\ past \in [Requests -> SUBSET Requests]
  /\ process \in {"up", "panicked", "raced"}

Init ==
  /\ pc = [r \in Requests |-> [g \in Goroutines |-> "idle"]]
  /\ ctx = [r \in Requests |-> "live"]
  /\ branch = [r \in Requests |-> "none"]
  /\ answer = [r \in Requests |-> 0]
  /\ wrote = [r \in Requests |-> FALSE]
  /\ code = [r \in Requests |-> 0]
  /\ wire = [r \in Requests |-> 0]
  /\ body = [r \in Requests |-> <<>>]
  /\ logged = [r \in Requests |-> 0]
  /\ past = [r \in Requests |-> {}]
  /\ process = "up"

Finished(r) == pc[r]["middleware"] = "finished"
InFlight(r) == pc[r]["middleware"] \notin {"idle", "finished"}

At(r, g, l) == process = "up" /\ pc[r][g] = l
Goto(r, g, l) == pc' = [pc EXCEPT ![r][g] = l]

(***************************************************************************)
(* The connection's goroutine.                                             *)
(***************************************************************************)

\* The handlers whose response has ended while they are still running.
Abandoned == {q \in Requests : Finished(q) /\ pc[q]["handler"] # "ended"}

\* RequestID, RealIP, Recovery, Logging and Timeout are entered, the deadline
\* is armed and the goroutine of the handler starts.  The body's writer comes
\* from net/http's pool, where the writers of ended responses are, and writes to
\* a connection that may have served them: any abandoned handler may hold it.
Accept(r) ==
  /\ At(r, "middleware", "idle")
  /\ pc' = [pc EXCEPT ![r] = [middleware |-> "select", handler |-> "serving"]]
  /\ \E S \in SUBSET Abandoned : past' = [past EXCEPT ![r] = S]
  /\ UNCHANGED <<ctx, branch, answer, wrote, code, wire, body, logged, process>>

\* Mutant of Done: the channel is closed when the handler starts to write.
Done_ClosedEarly(r) == pc[r]["handler"] \in Writing \cup {"ended"}

\* The channel `done` is closed once the handler has returned.
Done(r) == pc[r]["handler"] = "ended"

TakeDone(r) ==
  /\ At(r, "middleware", "select")
  /\ Done(r)
  /\ Goto(r, "middleware", "log")
  /\ branch' = [branch EXCEPT ![r] = "done"]
  /\ UNCHANGED <<ctx, answer, wrote, code, wire, body, logged, past, process>>

\* Mutant of TakeDeadline: the test of ctx.Err() is inverted.
TakeDeadline_Silent(r) ==
  /\ At(r, "middleware", "select")
  /\ ctx[r] = "deadline"
  /\ Goto(r, "middleware", "log")
  /\ branch' = [branch EXCEPT ![r] = "deadline"]
  /\ UNCHANGED <<ctx, answer, wrote, code, wire, body, logged, past, process>>

\* ctx.Done() with ctx.Err() == DeadlineExceeded: WriteTimeout starts.
TakeDeadline(r) ==
  /\ At(r, "middleware", "select")
  /\ ctx[r] = "deadline"
  /\ Goto(r, "middleware", "set")
  /\ branch' = [branch EXCEPT ![r] = "deadline"]
  /\ UNCHANGED <<ctx, answer, wrote, code, wire, body, logged, past, process>>

\* Mutant of TakeCanceled: WriteTimeout without a look at ctx.Err().
TakeCanceled_Answers(r) ==
  /\ At(r, "middleware", "select")
  /\ ctx[r] = "canceled"
  /\ Goto(r, "middleware", "set")
  /\ branch' = [branch EXCEPT ![r] = "canceled"]
  /\ UNCHANGED <<ctx, answer, wrote, code, wire, body, logged, past, process>>

\* ctx.Done() because the client went away: nothing is written.
TakeCanceled(r) ==
  /\ At(r, "middleware", "select")
  /\ ctx[r] = "canceled"
  /\ Goto(r, "middleware", "log")
  /\ branch' = [branch EXCEPT ![r] = "canceled"]
  /\ UNCHANGED <<ctx, answer, wrote, code, wire, body, logged, past, process>>

CancelOnReturn(r) ==
  ctx' = [ctx EXCEPT ![r] = IF @ = "live" THEN "canceled" ELSE @]

\* The deferred cancel() of TimeoutMiddleware, then the line LoggingMiddleware
\* logs with the status chi's wrapper remembers.
LogRequest(r) ==
  /\ At(r, "middleware", "log")
  /\ Goto(r, "middleware", "finish")
  /\ CancelOnReturn(r)
  /\ logged' = [logged EXCEPT ![r] = code[r]]
  /\ UNCHANGED <<branch, answer, wrote, code, wire, body, past, process>>

\* RecoveryMiddleware catches a panic of the connection's goroutine.  It holds
\* the writer outside LoggingMiddleware, and Logging, which defers nothing, is
\* skipped by the panic.
Recover(r) ==
  /\ At(r, "middleware", "recover")
  /\ Goto(r, "middleware", "finish")
  /\ body' = [body EXCEPT ![r] = Append(@, "recovered")]
  /\ UNCHANGED <<ctx, branch, answer, wrote, code, wire, logged, past, process>>

\* net/http: commit status s unless a status is committed already.
Committed(r, s) == IF wire[r] = 0 THEN s ELSE wire[r]

\* net/http ends the response: an uncommitted one becomes an empty 200.
Finish(r) ==
  /\ At(r, "middleware", "finish")
  /\ Goto(r, "middleware", "finished")
  /\ wire' = [wire EXCEPT ![r] = Committed(r, OK)]
  /\ UNCHANGED <<ctx, branch, answer, wrote, code, body, logged, past, process>>

(***************************************************************************)
(* The goroutine of the handler.                                           *)
(***************************************************************************)

\* The handler's calls have returned, in time or because ctx is done, and it
\* has chosen the document to write.
CallsReturn(r, s) ==
  /\ At(r, "handler", "serving")
  /\ Goto(r, "handler", "set")
  /\ answer' = [answer EXCEPT ![r] = s]
  /\ UNCHANGED <<ctx, branch, wrote, code, wire, body, logged, past, process>>

\* A panic in this goroutine: RecoveryMiddleware's deferred recover() is on the
\* other goroutine's stack, so the runtime ends the process.
HandlerPanics(r) ==
  /\ MayPanic
  /\ At(r, "handler", "serving")
  /\ process' = "panicked"
  /\ UNCHANGED <<pc, ctx, branch, answer, wrote, code, wire, body, logged, past>>

(***************************************************************************)
(* WriteJSON, WriteError and WriteTimeout: the same five steps for the two *)
(* goroutines, on the one ResponseWriter.                                  *)
(***************************************************************************)

\* Mutant of StatusOf: WriteTimeout answers http.StatusRequestTimeout.
StatusOf_RequestTimeout(r, g) == IF g = "middleware" THEN 408 ELSE answer[r]

StatusOf(r, g) == IF g = "middleware" THEN GatewayTimeout ELSE answer[r]
DocOf(g)       == IF g = "middleware" THEN "timeout" ELSE "handler"
AfterBody(g)   == IF g = "middleware" THEN "log" ELSE "ended"

\* w.Header().Set
SetHeader(r, g) ==
  /\ At(r, g, "set")
  /\ Goto(r, g, "claim")
  /\ UNCHANGED <<ctx, branch, answer, wrote, code, wire, body, logged, past, process>>

\* Mutant of CheckFlag: WriteError encodes the document without WriteHeader.
CheckFlag_NoWriteHeader(r, g) ==
  /\ At(r, g, "claim")
  /\ Goto(r, g, "body")
  /\ UNCHANGED <<ctx, branch, answer, wrote, code, wire, body, logged, past, process>>

\* chi's WriteHeader reads wroteHeader ...
CheckFlag(r, g) ==
  /\ At(r, g, "claim")
  /\ Goto(r, g, IF wrote[r] THEN "body" ELSE "mark")
  /\ UNCHANGED <<ctx, branch, answer, wrote, code, wire, body, logged, past, process>>

\* ... and, if it was false, remembers the status ...
Mark(r, g) ==
  /\ At(r, g, "mark")
  /\ Goto(r, g, "commit")
  /\ code' = [code EXCEPT ![r] = StatusOf(r, g)]
  /\ wrote' = [wrote EXCEPT ![r] = TRUE]
  /\ UNCHANGED <<ctx, branch, answer, wire, body, logged, past, process>>

\* ... and passes it to net/http's response.
Commit(r, g) ==
  /\ At(r, g, "commit")
  /\ Goto(r, g, "body")
  /\ wire' = [wire EXCEPT ![r] = Committed(r, StatusOf(r, g))]
  /\ UNCHANGED <<ctx, branch, answer, wrote, code, body, logged, past, process>>

\* Whose response does a write of one of r's goroutines land in?  Its own, until
\* that has ended; then in one that reuses the writer.
Reaches(r, p) == IF r = p THEN ~Finished(r)
                 ELSE Finished(r) /\ InFlight(p) /\ r \in past[p]

\* Is goroutine g of r in the middle of a write to p's response, or of its flush?
OnBuffer(r, g, p) ==
  /\ Reaches(r, p)
  /\ pc[r][g] = "body" \/ (g = "middleware" /\ pc[r][g] \in {"recover", "finish"})

\* Is another goroutine?  Nothing orders the two.
Contended(r, g, p) ==
  \E q \in Requests, h \in Goroutines : <<q, h>> # <<r, g>> /\ OnBuffer(q, h, p)

\* What goroutine g of r may leave in p's response: its document, whatever a race
\* makes of it or, if it is large, the document before the status is known.
Left(r, g, p) ==
  {IF r = p THEN DocOf(g) ELSE "foreign"}
    \cup (IF Contended(r, g, p) THEN {"torn"} ELSE {})
    \cup (IF r # p /\ wire[p] = 0 THEN {"statusless"} ELSE {})

\* Encode makes one Write call.  net/http commits 200 if nothing is committed.
WriteBody(r, g) ==
  /\ At(r, g, "body") /\ ~Finished(r)
  /\ Goto(r, g, AfterBody(g))
  /\ wire' = [wire EXCEPT ![r] = Committed(r, OK)]
  /\ \E d \in Left(r, g, r) : body' = [body EXCEPT ![r] = Append(@, d)]
  /\ UNCHANGED <<ctx, branch, answer, wrote, code, logged, past, process>>

\* An abandoned handler writes to the writer its response had.  The document
\* lies there until the next response resets it, or goes out with the response
\* that has the writer now.
LateWrite(r) ==
  /\ At(r, "handler", "body") /\ Finished(r)
  /\ Goto(r, "handler", "ended")
  /\ \/ UNCHANGED body
     \/ \E p \in Requests : \E d \in Left(r, "handler", p) :
          Reaches(r, p) /\ body' = [body EXCEPT ![p] = Append(@, d)]
  /\ UNCHANGED <<ctx, branch, answer, wrote, code, wire, logged, past, process>>

\* A document larger than the writer's buffer is passed on at once, and a writer
\* in the pool has nowhere to pass it: a nil dereference in the handler's
\* goroutine.
LatePanic(r) ==
  /\ At(r, "handler", "body") /\ Finished(r)
  /\ process' = "raced"
  /\ UNCHANGED <<pc, ctx, branch, answer, wrote, code, wire, body, logged, past>>

(***************************************************************************)
(* The other outcomes of the data races, where they are not an order of    *)
(* the steps above.                                                        *)
(***************************************************************************)

\* Does the next step of goroutine g of r walk over p's header map?  net/http
\* clones it when a status is committed, and writes it out with a large
\* document.
WalksHeader(r, g, p) ==
  /\ wire[p] = 0
  /\ IF r = p THEN pc[r][g] \in {"commit", "body", "finish"}
     ELSE Reaches(r, p) /\ pc[r][g] = "body"

\* One goroutine writes the header map while another writes or walks over it:
\* the runtime may stop the process ("concurrent map writes").
HeaderRace(p) ==
  /\ process = "up"
  /\ \E g, h \in Goroutines, r \in Requests :
       /\ <<p, g>> # <<r, h>>
       /\ pc[p][g] = "set"
       /\ (r = p /\ pc[r][h] = "set") \/ WalksHeader(r, h, p)
  /\ process' = "raced"
  /\ UNCHANGED <<pc, ctx, branch, answer, wrote, code, wire, body, logged, past>>

\* Two goroutines write to one buffer and its index leaves its bounds: a panic,
\* which is recovered on the connection's goroutine only.
BufferPanic(r, g) ==
  /\ At(r, g, "body")
  /\ \E p \in Requests : Reaches(r, p) /\ Contended(r, g, p)
  /\ IF g = "handler" THEN process' = "raced" /\ UNCHANGED pc
     ELSE Goto(r, g, "recover") /\ UNCHANGED process
  /\ UNCHANGED <<ctx, branch, answer, wrote, code, wire, body, logged, past>>

(***************************************************************************)
(* The environment: the timer of the context, and the client.              *)
(***************************************************************************)

\* Mutant of DeadlineFires: context.WithCancel instead of WithTimeout.
DeadlineFires_NoTimer(r) == FALSE /\ UNCHANGED vars

DeadlineFires(r) ==
  /\ process = "up" /\ InFlight(r)
  /\ ctx[r] = "live"
  /\ ctx' = [ctx EXCEPT ![r] = "deadline"]
  /\ UNCHANGED <<pc, branch, answer, wrote, code, wire, body, logged, past, process>>

ClientGone(r) ==
  /\ process = "up" /\ InFlight(r)
  /\ ctx[r] = "live"
  /\ ctx' = [ctx EXCEPT ![r] = "canceled"]
  /\ UNCHANGED <<pc, branch, answer, wrote, code, wire, body, logged, past, process>>

WriteStep(r, g) ==
  SetHeader(r, g) \/ CheckFlag(r, g) \/ Mark(r, g) \/ Commit(r, g) \/ WriteBody(r, g)

\* Every request is over and no goroutine is left, or the process is gone.
Terminated ==
  /\ process = "up" => \A r \in Requests : Finished(r) /\ Done(r)
  /\ UNCHANGED vars

Next ==
  \/ \E r \in Requests :
       \/ Accept(r) \/ TakeDone(r) \/ TakeDeadline(r) \/ TakeCanceled(r)
       \/ LogRequest(r) \/ Recover(r) \/ Finish(r)
       \/ \E s \in HandlerStatuses : CallsReturn(r, s)
       \/ HandlerPanics(r)
       \/ \E g \in Goroutines : WriteStep(r, g)
       \/ LateWrite(r) \/ LatePanic(r) \/ HeaderRace(r)
       \/ \E g \in Goroutines : BufferPanic(r, g)
       \/ DeadlineFires(r) \/ ClientGone(r)
  \/ Terminated

Spec == Init /\ [][Next]_vars

\* Mutant of CallsGiveUp: the calls run under context.Background().
CallsGiveUp_Background(r) == FALSE /\ UNCHANGED vars

\* The calls of a handler end once its context is done: every service passes
\* ctx to each call of the API.
CallsGiveUp(r) ==
  ctx[r] # "live" /\ \E s \in HandlerStatuses : CallsReturn(r, s)

\* The runtime runs every goroutine that can run, and its timers fire.  Nothing
\* makes a call of the API return before the context is done.
Fairness ==
  \A r \in Requests :
    /\ WF_vars(TakeDone(r) \/ TakeDeadline(r) \/ TakeCanceled(r)
                 \/ LogRequest(r) \/ Recover(r) \/ Finish(r)
                 \/ WriteStep(r, "middleware"))
    /\ WF_vars(CallsGiveUp(r) \/ WriteStep(r, "handler") \/ LateWrite(r))
    /\ WF_vars(DeadlineFires(r))

FairSpec == Spec /\ Fairness

(***************************************************************************)
(* Properties.                                                             *)
(***************************************************************************)

\* A handler that returned before anything interrupted its request has had its
\* way: the log records its status, and the client gets its one document under
\* that status, unless a handler abandoned earlier still held the writer when the
\* request arrived (TimeoutMiddleware's `case <-done`, LoggingMiddleware).
UninterruptedAnswerIntact ==
  \A r \in Requests :
    Finished(r) /\ branch[r] = "done" =>
      /\ logged[r] = answer[r]
      /\ past[r] = {} => wire[r] = answer[r] /\ body[r] = <<"handler">>

\* Document sequence b holds the timeout document, or what a race made of it.
HoldsTimeout(b) == \E i \in 1..Len(b) : b[i] \in {"timeout", "torn", "recovered"}

\* A request that ran into its deadline is never left without an answer: the
\* response ends only after the timeout document was written, or lost in a race
\* of writers (TimeoutMiddleware's `case <-ctx.Done()`).
TimeoutDocumentSent ==
  \A r \in Requests : Finished(r) /\ branch[r] = "deadline" => HoldsTimeout(body[r])

\* A handler that is abandoned while it still waits for the API can spoil
\* neither the 504 its own client gets nor the line in the log, however late it
\* writes: whatever it spoils then is another request (TimeoutMiddleware,
\* WriteTimeout).
AbandonedHandlerHarmless ==
  \A r \in Requests :
    /\ Finished(r) /\ branch[r] = "deadline"
    /\ pc[r]["handler"] = "serving" /\ past[r] = {}
    => /\ wire[r] = GatewayTimeout
       /\ body[r] = <<"timeout">>
       /\ logged[r] = GatewayTimeout

\* The process can be lost to a race of writers only when the select of
\* some request took ctx.Done(): a request that is in time never takes the
\* agent, and the other requests, with it.
RaceNeedsInterruption ==
  process = "raced" => \E r \in Requests : branch[r] \in {"deadline", "canceled"}

\* Every request that arrives is answered, even if its handler's calls hang for
\* ever, unless the process dies (the deadline of TimeoutMiddleware).
EveryRequestFinishes ==
  \A r \in Requests : InFlight(r) ~> (Finished(r) \/ process # "up")

\* No goroutine of a handler outlives its request for ever: whatever cut the
\* request short reaches the handler's calls through ctx.
HandlerGoroutineEnds ==
  \A r \in Requests : InFlight(r) ~> (Done(r) \/ process # "up")

\* .cursor/rules/rules.mdc: "Return 504 Gateway Timeout on deadline exceeded".
DeadlineGives504 ==
  \A r \in Requests :
    Finished(r) /\ branch[r] = "deadline" => wire[r] = GatewayTimeout

\* README.md lists recovery among the middlewares: a handler that panics costs
\* its own request, not the process.
PanicIsRecovered == process # "panicked"

(***************************************************************************)
(* What the two goroutines implement together: RequestContract, where a    *)
(* reply appears at once when the response ends and never changes.         *)
(***************************************************************************)

Phase(r) == IF pc[r]["middleware"] = "idle" THEN "pending"
            ELSE IF Finished(r) THEN "closed" ELSE "open"

Interruption(r) == IF branch[r] \in {"deadline", "canceled"} THEN branch[r] ELSE "no"

ReplyOf(r) ==
  CASE ~Finished(r) -> "none"
    [] Finished(r) /\ body[r] = <<>> -> "empty"
    [] Finished(r) /\ body[r] = <<"handler">> /\ wire[r] = answer[r] -> "own"
    [] Finished(r) /\ body[r] = <<"timeout">> /\ wire[r] = GatewayTimeout -> "timeout"
    [] OTHER -> "mixed"

Contract == INSTANCE RequestContract WITH
              phase        <- [r \in Requests |-> Phase(r)],
              interruption <- [r \in Requests |-> Interruption(r)],
              reply        <- [r \in Requests |-> ReplyOf(r)],
              up           <- process = "up"

ImplementsContract == Contract!CSpec

=============================================================================
