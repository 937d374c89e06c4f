----------------------- MODULE RequestPipelineProofs -----------------------
(***************************************************************************)
(* Proofs of RequestPipeline's safety properties for every set of requests *)
(* and every set of statuses a handler may answer with.                    *)
(*                                                                         *)
(* The argument: as long as only one of the two goroutines of a request    *)
(* has begun to write, the response is a function of where that goroutine  *)
(* stands (SoleWriter), the body only if no abandoned handler holds the    *)
(* request's writer.  The handler is that one until the select takes       *)
(* ctx.Done(); the middleware is, while the handler waits for the API.     *)
(* Everything else the invariant says is which positions go together, and  *)
(* that the handlers a request inherits were all interrupted (Inherited).  *)
(***************************************************************************)
EXTENDS RequestPipeline, TLAPS

MiddlewarePcs == Writing \cup {"idle", "select", "log", "recover", "finish", "finished"}
HandlerPcs    == Writing \cup {"idle", "serving", "ended"}

\* Unless somebody else holds the writer, the body is b.
Holds(r, b) == past[r] = {} => body[r] = b

\* Nothing has been written yet.
Blank(r) == ~wrote[r] /\ code[r] = 0 /\ wire[r] = 0 /\ Holds(r, <<>>)

\* g's status is committed, in chi's wrapper and below it.
Carries(r, g) == wrote[r] /\ code[r] = StatusOf(r, g) /\ wire[r] = StatusOf(r, g)

\* The response is what goroutine g alone has made of it.
SoleWriter(r, g) ==
  /\ pc[r][g] \in {"idle", "select", "serving", "set", "claim", "mark"} => Blank(r)
  /\ pc[r][g] = "commit" =>
       wrote[r] /\ code[r] = StatusOf(r, g) /\ wire[r] = 0 /\ Holds(r, <<>>)
  /\ pc[r][g] = "body" => Carries(r, g) /\ Holds(r, <<>>)
  /\ pc[r][g] \in {"log", "finish", "finished", "ended"} =>
       Carries(r, g) /\ Holds(r, <<DocOf(g)>>)

\* Which positions of the two goroutines go together with which branch.
Positions(r) ==
  /\ pc[r]["middleware"] \in MiddlewarePcs
  /\ pc[r]["handler"] \in HandlerPcs
  /\ pc[r]["middleware"] = "idle" <=> pc[r]["handler"] = "idle"
  /\ branch[r] = "none" <=> pc[r]["middleware"] \in {"idle", "select"}
  /\ branch[r] = "done" => pc[r]["handler"] = "ended"
  /\ pc[r]["middleware"] \in Writing \cup {"recover"} => branch[r] = "deadline"
  /\ pc[r]["handler"] \notin {"idle", "serving"} => answer[r] # 0
  /\ pc[r]["middleware"] = "idle" => past[r] = {}

\* What is in the response and in the log.
Response(r) ==
  /\ branch[r] \in {"none", "done"} => SoleWriter(r, "handler")
  /\ branch[r] = "done" /\ pc[r]["middleware"] \in {"finish", "finished"} =>
       logged[r] = answer[r]
  /\ branch[r] = "deadline" /\ pc[r]["handler"] = "serving" /\ past[r] = {} =>
       /\ pc[r]["middleware"] # "recover"
       /\ SoleWriter(r, "middleware")
       /\ pc[r]["middleware"] \in {"finish", "finished"} => logged[r] = GatewayTimeout

\* Past its writing, the middleware has left the timeout document in the body.
TimeoutKept(r) ==
  branch[r] = "deadline" /\ pc[r]["middleware"] \in {"log", "finish", "finished"} =>
    HoldsTimeout(body[r])

\* What a response that has ended rests on: its status is committed, only a
\* handler that is done leaves its document alone in the body, only a request
\* whose deadline passed is sent a timeout document, and a handler that was in time
\* leaves something.
Settled(r) ==
  /\ Finished(r) => wire[r] # 0
  /\ body[r] = <<"handler">> => pc[r]["handler"] = "ended"
  /\ branch[r] # "deadline" => body[r] # <<"timeout">>
  /\ branch[r] \in {"none", "done"} /\ pc[r]["handler"] = "ended" => body[r] # <<>>

\* The handlers a request inherits its writer from are those of other requests
\* that were interrupted and have ended.
Inherited(r) ==
  \A q \in past[r] : q # r /\ Finished(q) /\ branch[q] \in {"deadline", "canceled"}

\* The inductive invariant.
IInv ==
  /\ TypeOK
  /\ \A r \in Requests :
       Positions(r) /\ Response(r) /\ TimeoutKept(r) /\ Settled(r) /\ Inherited(r)
  /\ RaceNeedsInterruption

-----------------------------------------------------------------------------
(***************************************************************************)
(* Each part of the invariant is kept by each action.                      *)
(***************************************************************************)

\* Append on an empty body, and what it does to the documents already there.
LEMMA AppendToEmpty == \A d \in Docs : Append(<<>>, d) = <<d>>
  OBVIOUS

\* A timeout document stays in a body that another is appended to, and appending it,
\* or the remains of a race with it, puts it there.
LEMMA AppendDocument ==
  ASSUME NEW b \in Seq(Docs), NEW d \in Docs
  PROVE  /\ HoldsTimeout(b) => HoldsTimeout(Append(b, d))
         /\ d \in {"timeout", "torn", "recovered"} => HoldsTimeout(Append(b, d))
  <1>1. /\ Len(Append(b, d)) = Len(b) + 1
        /\ Append(b, d)[Len(b) + 1] = d
        /\ \A i \in 1..Len(b) : Append(b, d)[i] = b[i]
        /\ Len(b) \in Nat
    OBVIOUS
  <1> QED
    BY <1>1 DEF HoldsTimeout

\* Each body a step leaves behind is the old one or has one document more.
LEMMA BodyStep ==
  ASSUME TypeOK, NEW q \in Requests, NEW d \in Docs,
         body'[q] = body[q] \/ body'[q] = Append(body[q], d)
  PROVE  HoldsTimeout(body[q]) => HoldsTimeout(body'[q])
  <1>1. body[q] \in Seq(Docs)
    BY DEF TypeOK
  <1> QED
    BY <1>1, AppendDocument

\* What a write may leave is a document, and to its own response the writer's own
\* or the remains of a race.
LEMMA LeftDocs ==
  ASSUME NEW r \in Requests, NEW g \in Goroutines, NEW p \in Requests
  PROVE  /\ Left(r, g, p) \subseteq Docs
         /\ r # p => Left(r, g, p) \subseteq {"foreign", "torn", "statusless"}
         /\ Left(r, g, r) \subseteq {DocOf(g), "torn"}
         /\ ~Contended(r, g, r) => Left(r, g, r) = {DocOf(g)}
  BY DEF Left, Docs, DocOf, Goroutines

\* A late write leaves everything as it is but the body of a request in flight that
\* has inherited the writer, and there it leaves no document of that request.
LateEffect(r) ==
  /\ pc' = [pc EXCEPT ![r]["handler"] = "ended"]
  /\ pc[r]["handler"] = "body" /\ Finished(r) /\ process = "up"
  /\ UNCHANGED <<ctx, branch, answer, wrote, code, wire, logged, past, process>>
  /\ body' \in [Requests -> Seq(Docs)]
  /\ \A q \in Requests :
       \/ body'[q] = body[q]
       \/ /\ q # r /\ InFlight(q) /\ r \in past[q]
          /\ \E d \in {"foreign", "torn", "statusless"} :
               body'[q] = Append(body[q], d)

\* It is what the write does.
LEMMA LateBody ==
  ASSUME TypeOK, NEW r \in Requests, LateWrite(r)
  PROVE  LateEffect(r)
  <1>1. /\ pc' = [pc EXCEPT ![r]["handler"] = "ended"]
        /\ pc[r]["handler"] = "body" /\ Finished(r) /\ process = "up"
        /\ UNCHANGED <<ctx, branch, answer, wrote, code, wire, logged, past, process>>
    BY DEF LateWrite, At, Goto
  <1>2. body \in [Requests -> Seq(Docs)]
    BY DEF TypeOK
  <1>3. CASE UNCHANGED body
    BY <1>1, <1>2, <1>3 DEF LateEffect
  <1>4. ASSUME NEW p \in Requests, NEW d \in Left(r, "handler", p),
               Reaches(r, p), body' = [body EXCEPT ![p] = Append(@, d)]
        PROVE  /\ body' \in [Requests -> Seq(Docs)]
               /\ p # r /\ InFlight(p) /\ r \in past[p]
               /\ d \in {"foreign", "torn", "statusless"}
    <2>1. p # r /\ InFlight(p) /\ r \in past[p]
      BY <1>1, <1>4 DEF Reaches
    <2>2. d \in {"foreign", "torn", "statusless"} /\ d \in Docs
      BY <2>1, LeftDocs DEF Goroutines
    <2>3. Append(body[p], d) \in Seq(Docs)
      BY <1>2, <2>2
    <2> QED
      BY <1>2, <1>4, <2>1, <2>2, <2>3
  <1>5. UNCHANGED body \/ \E p \in Requests : \E d \in Left(r, "handler", p) :
          Reaches(r, p) /\ body' = [body EXCEPT ![p] = Append(@, d)]
    BY DEF LateWrite
  <1>6. CASE \E p \in Requests : \E d \in Left(r, "handler", p) :
               Reaches(r, p) /\ body' = [body EXCEPT ![p] = Append(@, d)]
    <2>0. PICK p \in Requests : \E d \in Left(r, "handler", p) :
            Reaches(r, p) /\ body' = [body EXCEPT ![p] = Append(@, d)]
      BY <1>6
    <2>1. PICK d \in Left(r, "handler", p) :
            Reaches(r, p) /\ body' = [body EXCEPT ![p] = Append(@, d)]
      BY <2>0
    <2>2. \A q \in Requests \ {p} : body'[q] = body[q]
      BY <1>2, <2>1
    <2>3. body'[p] = Append(body[p], d)
      BY <1>2, <2>1
    <2> QED
      BY <1>1, <1>4, <2>1, <2>2, <2>3 DEF LateEffect
  <1> QED
    BY <1>3, <1>5, <1>6

\* A goroutine's own write leaves its document in its own response, or what a race
\* makes of it.
OwnEffect(r, g) ==
  /\ pc' = [pc EXCEPT ![r][g] = AfterBody(g)]
  /\ pc[r][g] = "body" /\ ~Finished(r) /\ process = "up"
  /\ UNCHANGED <<ctx, branch, answer, wrote, code, logged, past, process>>
  /\ wire' = [wire EXCEPT ![r] = Committed(r, OK)]
  /\ body' \in [Requests -> Seq(Docs)]
  /\ \A q \in Requests \ {r} : body'[q] = body[q]
  /\ \E d \in {DocOf(g), "torn"} : body'[r] = Append(body[r], d)
  /\ ~Contended(r, g, r) => body'[r] = Append(body[r], DocOf(g))

\* It is what the write does.
LEMMA OwnBody ==
  ASSUME TypeOK, NEW r \in Requests, NEW g \in Goroutines, WriteBody(r, g)
  PROVE  OwnEffect(r, g)
  <1>1. body \in [Requests -> Seq(Docs)]
    BY DEF TypeOK
  <1>2. PICK d \in Left(r, g, r) : body' = [body EXCEPT ![r] = Append(@, d)]
    BY DEF WriteBody
  <1>3. /\ d \in Docs /\ d \in {DocOf(g), "torn"}
        /\ ~Contended(r, g, r) => d = DocOf(g)
    BY LeftDocs
  <1>4. Append(body[r], d) \in Seq(Docs)
    BY <1>1, <1>3
  <1> QED
    BY <1>1, <1>2, <1>3, <1>4 DEF OwnEffect, WriteBody, At, Goto

\* A step keeps every variable in its type.
LEMMA TypeStep ==
  ASSUME TypeOK, [Next]_vars
  PROVE  TypeOK'
  <1> USE DEF TypeOK, Pcs, Writing, Goroutines, Docs, Statuses, OK, GatewayTimeout,
              At, Goto
  <1>1. ASSUME NEW r \in Requests, Accept(r)
        PROVE  TypeOK'
    BY <1>1 DEF Accept, Abandoned
  <1>2. ASSUME NEW r \in Requests, TakeDone(r)
        PROVE  TypeOK'
    BY <1>2 DEF TakeDone, Done
  <1>3. ASSUME NEW r \in Requests, TakeDeadline(r)
        PROVE  TypeOK'
    BY <1>3 DEF TakeDeadline
  <1>4. ASSUME NEW r \in Requests, TakeCanceled(r)
        PROVE  TypeOK'
    BY <1>4 DEF TakeCanceled
  <1>5. ASSUME NEW r \in Requests, LogRequest(r)
        PROVE  TypeOK'
    BY <1>5 DEF LogRequest, CancelOnReturn
  <1>6. ASSUME NEW r \in Requests, Recover(r)
        PROVE  TypeOK'
    BY <1>6 DEF Recover
  <1>7. ASSUME NEW r \in Requests, Finish(r)
        PROVE  TypeOK'
    BY <1>7 DEF Finish, Committed
  <1>8. ASSUME NEW r \in Requests, NEW s \in HandlerStatuses, CallsReturn(r, s)
        PROVE  TypeOK'
    BY <1>8 DEF CallsReturn
  <1>9. ASSUME NEW r \in Requests, HandlerPanics(r)
        PROVE  TypeOK'
    BY <1>9 DEF HandlerPanics
  <1>10. ASSUME NEW r \in Requests, NEW g \in Goroutines, SetHeader(r, g)
        PROVE  TypeOK'
    BY <1>10 DEF SetHeader
  <1>11. ASSUME NEW r \in Requests, NEW g \in Goroutines, CheckFlag(r, g)
        PROVE  TypeOK'
    BY <1>11 DEF CheckFlag
  <1>12. ASSUME NEW r \in Requests, NEW g \in Goroutines, Mark(r, g)
        PROVE  TypeOK'
    BY <1>12 DEF Mark, StatusOf
  <1>13. ASSUME NEW r \in Requests, NEW g \in Goroutines, Commit(r, g)
        PROVE  TypeOK'
    BY <1>13 DEF Commit, Committed, StatusOf
  <1>14. ASSUME NEW r \in Requests, NEW g \in Goroutines, WriteBody(r, g)
        PROVE  TypeOK'
    <2>1. OwnEffect(r, g)
      BY <1>14, OwnBody
    <2> QED
      BY <2>1 DEF OwnEffect, Committed, AfterBody
  <1>15. ASSUME NEW r \in Requests, HeaderRace(r)
        PROVE  TypeOK'
    BY <1>15 DEF HeaderRace
  <1>16. ASSUME NEW r \in Requests, LateWrite(r)
        PROVE  TypeOK'
    <2>1. LateEffect(r)
      BY <1>16, LateBody
    <2> QED
      BY <2>1 DEF LateEffect
  <1>17. ASSUME NEW r \in Requests, NEW g \in Goroutines, BufferPanic(r, g)
        PROVE  TypeOK'
    <2>1. CASE process' = "raced" /\ UNCHANGED pc
      BY <2>1, <1>17 DEF BufferPanic
    <2>2. CASE Goto(r, g, "recover") /\ g = "middleware" /\ UNCHANGED process
      BY <2>2, <1>17 DEF BufferPanic
    <2> QED
      BY <2>1, <2>2, <1>17 DEF BufferPanic, Goroutines
  <1>18. ASSUME NEW r \in Requests, DeadlineFires(r)
        PROVE  TypeOK'
    BY <1>18 DEF DeadlineFires
  <1>19. ASSUME NEW r \in Requests, ClientGone(r)
        PROVE  TypeOK'
    BY <1>19 DEF ClientGone
  <1>20. ASSUME NEW r \in Requests, LatePanic(r)
        PROVE  TypeOK'
    BY <1>20 DEF LatePanic
  <1>21. CASE UNCHANGED vars
    BY <1>21 DEF vars
  <1> QED
    BY SMTT(30), <1>1, <1>2, <1>3, <1>4, <1>5, <1>6, <1>7, <1>8, <1>9, <1>10,
       <1>11, <1>12, <1>13, <1>14, <1>15, <1>16, <1>17, <1>18, <1>19, <1>20, <1>21 DEF Next, WriteStep, Terminated

\* The two goroutines and the branch move together, whichever request moves.
LEMMA PositionsStep ==
  ASSUME TypeOK, NEW q \in Requests, Positions(q), [Next]_vars
  PROVE  Positions(q)'
  <1> USE DEF TypeOK, Pcs, Writing, Goroutines, Docs, Statuses, OK, GatewayTimeout,
              At, Goto,
              Positions, MiddlewarePcs, HandlerPcs
  <1>1. ASSUME NEW r \in Requests, Accept(r)
        PROVE  Positions(q)'
    BY <1>1 DEF Accept
  <1>2. ASSUME NEW r \in Requests, TakeDone(r)
        PROVE  Positions(q)'
    BY <1>2 DEF TakeDone, Done
  <1>3. ASSUME NEW r \in Requests, TakeDeadline(r)
        PROVE  Positions(q)'
    BY <1>3 DEF TakeDeadline
  <1>4. ASSUME NEW r \in Requests, TakeCanceled(r)
        PROVE  Positions(q)'
    BY <1>4 DEF TakeCanceled
  <1>5. ASSUME NEW r \in Requests, LogRequest(r)
        PROVE  Positions(q)'
    BY <1>5 DEF LogRequest, CancelOnReturn
  <1>6. ASSUME NEW r \in Requests, Recover(r)
        PROVE  Positions(q)'
    BY <1>6 DEF Recover
  <1>7. ASSUME NEW r \in Requests, Finish(r)
        PROVE  Positions(q)'
    BY <1>7 DEF Finish, Committed
  <1>8. ASSUME NEW r \in Requests, NEW s \in HandlerStatuses, CallsReturn(r, s)
        PROVE  Positions(q)'
    BY <1>8, StatusesAssumption DEF CallsReturn
  <1>9. ASSUME NEW r \in Requests, HandlerPanics(r)
        PROVE  Positions(q)'
    BY <1>9 DEF HandlerPanics
  <1>10. ASSUME NEW r \in Requests, NEW g \in Goroutines, SetHeader(r, g)
        PROVE  Positions(q)'
    BY <1>10 DEF SetHeader
  <1>11. ASSUME NEW r \in Requests, NEW g \in Goroutines, CheckFlag(r, g)
        PROVE  Positions(q)'
    BY <1>11 DEF CheckFlag
  <1>12. ASSUME NEW r \in Requests, NEW g \in Goroutines, Mark(r, g)
        PROVE  Positions(q)'
    BY <1>12 DEF Mark, StatusOf
  <1>13. ASSUME NEW r \in Requests, NEW g \in Goroutines, Commit(r, g)
        PROVE  Positions(q)'
    BY <1>13 DEF Commit, Committed, StatusOf
  <1>14. ASSUME NEW r \in Requests, NEW g \in Goroutines, WriteBody(r, g)
        PROVE  Positions(q)'
    <2>1. OwnEffect(r, g)
      BY <1>14, OwnBody
    <2> QED
      BY <2>1 DEF OwnEffect, AfterBody
  <1>15. ASSUME NEW r \in Requests, HeaderRace(r)
        PROVE  Positions(q)'
    BY <1>15 DEF HeaderRace
  <1>16. ASSUME NEW r \in Requests, LateWrite(r)
        PROVE  Positions(q)'
    <2>1. LateEffect(r)
      BY <1>16, LateBody
    <2> QED
      BY <2>1 DEF LateEffect
  <1>17. ASSUME NEW r \in Requests, NEW g \in Goroutines, BufferPanic(r, g)
        PROVE  Positions(q)'
    <2>1. CASE process' = "raced" /\ UNCHANGED pc
      BY <2>1, <1>17 DEF BufferPanic
    <2>2. CASE Goto(r, g, "recover") /\ g = "middleware" /\ UNCHANGED process
      BY <2>2, <1>17 DEF BufferPanic
    <2> QED
      BY <2>1, <2>2, <1>17 DEF BufferPanic, Goroutines
  <1>18. ASSUME NEW r \in Requests, DeadlineFires(r)
        PROVE  Positions(q)'
    BY <1>18 DEF DeadlineFires
  <1>19. ASSUME NEW r \in Requests, ClientGone(r)
        PROVE  Positions(q)'
    BY <1>19 DEF ClientGone
  <1>20. ASSUME NEW r \in Requests, LatePanic(r)
        PROVE  Positions(q)'
    BY <1>20 DEF LatePanic
  <1>21. CASE UNCHANGED vars
    BY <1>21 DEF vars
  <1> QED
    BY SMTT(30), <1>1, <1>2, <1>3, <1>4, <1>5, <1>6, <1>7, <1>8, <1>9, <1>10,
       <1>11, <1>12, <1>13, <1>14, <1>15, <1>16, <1>17, <1>18, <1>19, <1>20, <1>21 DEF Next, WriteStep, Terminated

\* What the response holds follows from the positions, after the step too.
LEMMA ResponseStep ==
  ASSUME TypeOK, NEW q \in Requests, Positions(q), Response(q), [Next]_vars
  PROVE  Response(q)'
  <1> USE DEF TypeOK, Pcs, Writing, Goroutines, Docs, Statuses, OK, GatewayTimeout,
              At, Goto,
              Positions, MiddlewarePcs, HandlerPcs,
              Response, SoleWriter, Carries, Blank, Holds, StatusOf, DocOf
  <1>1. ASSUME NEW r \in Requests, Accept(r)
        PROVE  Response(q)'
    BY <1>1 DEF Accept
  <1>2. ASSUME NEW r \in Requests, TakeDone(r)
        PROVE  Response(q)'
    BY <1>2 DEF TakeDone, Done
  <1>3. ASSUME NEW r \in Requests, TakeDeadline(r)
        PROVE  Response(q)'
    BY <1>3 DEF TakeDeadline
  <1>4. ASSUME NEW r \in Requests, TakeCanceled(r)
        PROVE  Response(q)'
    BY <1>4 DEF TakeCanceled
  <1>5. ASSUME NEW r \in Requests, LogRequest(r)
        PROVE  Response(q)'
    BY <1>5 DEF LogRequest, CancelOnReturn
  <1>6. ASSUME NEW r \in Requests, Recover(r)
        PROVE  Response(q)'
    BY <1>6 DEF Recover
  <1>7. ASSUME NEW r \in Requests, Finish(r)
        PROVE  Response(q)'
    BY <1>7 DEF Finish, Committed
  <1>8. ASSUME NEW r \in Requests, NEW s \in HandlerStatuses, CallsReturn(r, s)
        PROVE  Response(q)'
    BY <1>8, StatusesAssumption DEF CallsReturn
  <1>9. ASSUME NEW r \in Requests, HandlerPanics(r)
        PROVE  Response(q)'
    BY <1>9 DEF HandlerPanics
  <1>10. ASSUME NEW r \in Requests, NEW g \in Goroutines, SetHeader(r, g)
        PROVE  Response(q)'
    BY <1>10 DEF SetHeader
  <1>11. ASSUME NEW r \in Requests, NEW g \in Goroutines, CheckFlag(r, g)
        PROVE  Response(q)'
    BY <1>11 DEF CheckFlag
  <1>12. ASSUME NEW r \in Requests, NEW g \in Goroutines, Mark(r, g)
        PROVE  Response(q)'
    BY <1>12 DEF Mark, StatusOf
  <1>13. ASSUME NEW r \in Requests, NEW g \in Goroutines, Commit(r, g)
        PROVE  Response(q)'
    BY <1>13 DEF Commit, Committed, StatusOf
  <1>14. ASSUME NEW r \in Requests, NEW g \in Goroutines, WriteBody(r, g)
        PROVE  Response(q)'
    <2>0. OwnEffect(r, g)
      BY <1>14, OwnBody
    <2>1. CASE q # r
      BY <2>1, <2>0 DEF OwnEffect
    <2>2. CASE q = r /\ g = "handler"
      <3>1. /\ pc[q]["handler"] = "body" /\ pc'[q]["handler"] = "ended"
            /\ pc'[q]["middleware"] = pc[q]["middleware"]
            /\ branch'[q] = branch[q] /\ answer'[q] = answer[q] /\ logged'[q] = logged[q]
            /\ wrote'[q] = wrote[q] /\ code'[q] = code[q] /\ past'[q] = past[q]
            /\ wire'[q] = IF wire[q] = 0 THEN 200 ELSE wire[q]
        BY <2>2, <2>0 DEF OwnEffect, Committed, AfterBody
      <3>2. CASE branch[q] = "none"
        <4>1. Carries(q, "handler") /\ Holds(q, <<>>) /\ answer[q] # 0
          BY <3>1, <3>2
        <4>2. ASSUME past[q] = {}
              PROVE  body'[q] = <<"handler">>
          <5>1. ~Contended(q, "handler", q)
            BY <3>2, <4>2 DEF Contended, OnBuffer, Reaches
          <5> QED
            BY <4>1, <4>2, <5>1, <2>2, <2>0, AppendToEmpty DEF OwnEffect
        <4> QED
          BY <3>1, <3>2, <4>1, <4>2
      <3> QED
        BY <3>1, <3>2
    <2>3. CASE q = r /\ g = "middleware"
      <3>1. /\ pc[q]["middleware"] = "body" /\ pc'[q]["middleware"] = "log"
            /\ pc'[q]["handler"] = pc[q]["handler"]
            /\ branch'[q] = branch[q] /\ answer'[q] = answer[q] /\ logged'[q] = logged[q]
            /\ wrote'[q] = wrote[q] /\ code'[q] = code[q] /\ past'[q] = past[q]
            /\ wire'[q] = IF wire[q] = 0 THEN 200 ELSE wire[q]
        BY <2>3, <2>0 DEF OwnEffect, Committed, AfterBody
      <3>2. CASE pc[q]["handler"] = "serving" /\ past[q] = {}
        <4>1. Carries(q, "middleware") /\ body[q] = <<>>
          BY <3>1, <3>2
        <4>2. body'[q] = <<"timeout">>
          <5>1. ~Contended(q, "middleware", q)
            BY <3>2 DEF Contended, OnBuffer, Reaches
          <5> QED
            BY <4>1, <5>1, <2>3, <2>0, AppendToEmpty DEF OwnEffect
        <4> QED
          BY <3>1, <3>2, <4>1, <4>2
      <3> QED
        BY <3>1, <3>2
    <2> QED
      BY <2>1, <2>2, <2>3
  <1>15. ASSUME NEW r \in Requests, HeaderRace(r)
        PROVE  Response(q)'
    BY <1>15 DEF HeaderRace
  <1>16. ASSUME NEW r \in Requests, LateWrite(r)
        PROVE  Response(q)'
    <2>1. LateEffect(r)
      BY <1>16, LateBody
    <2> QED
      BY <2>1 DEF LateEffect, Finished
  <1>17. ASSUME NEW r \in Requests, NEW g \in Goroutines, BufferPanic(r, g)
        PROVE  Response(q)'
    <2>1. CASE process' = "raced" /\ UNCHANGED pc
      BY <2>1, <1>17 DEF BufferPanic
    <2>2. CASE Goto(r, g, "recover") /\ g = "middleware" /\ UNCHANGED process
      <3>1. CASE q # r
        BY <3>1, <2>2, <1>17 DEF BufferPanic
      <3>2. CASE q = r
        <4>1. ~Finished(r) /\ \E p \in Requests : Reaches(r, p) /\ Contended(r, g, p)
          BY <2>2, <1>17 DEF BufferPanic, Finished
        <4>2. Contended(q, "middleware", q)
          BY <4>1, <3>2, <2>2 DEF Reaches
        <4>3. ~(pc[q]["handler"] = "serving" /\ past[q] = {})
          BY <4>2 DEF Contended, OnBuffer, Reaches
        <4>4. branch[q] = "deadline"
          BY <3>2, <2>2, <1>17 DEF BufferPanic
        <4> QED
          BY <4>3, <4>4, <3>2, <2>2, <1>17 DEF BufferPanic
      <3> QED
        BY <3>1, <3>2
    <2> QED
      BY <2>1, <2>2, <1>17 DEF BufferPanic, Goroutines
  <1>18. ASSUME NEW r \in Requests, DeadlineFires(r)
        PROVE  Response(q)'
    BY <1>18 DEF DeadlineFires
  <1>19. ASSUME NEW r \in Requests, ClientGone(r)
        PROVE  Response(q)'
    BY <1>19 DEF ClientGone
  <1>20. ASSUME NEW r \in Requests, LatePanic(r)
        PROVE  Response(q)'
    BY <1>20 DEF LatePanic
  <1>21. CASE UNCHANGED vars
    BY <1>21 DEF vars
  <1> HIDE DEF Response
  <1> QED
    BY SMTT(30), <1>1, <1>2, <1>3, <1>4, <1>5, <1>6, <1>7, <1>8, <1>9, <1>10,
       <1>11, <1>12, <1>13, <1>14, <1>15, <1>16, <1>17, <1>18, <1>19, <1>20, <1>21 DEF Next, WriteStep, Terminated

\* The timeout document, once in the body, stays there.
LEMMA TimeoutKeptStep ==
  ASSUME TypeOK, NEW q \in Requests, Positions(q), TimeoutKept(q), [Next]_vars
  PROVE  TimeoutKept(q)'
  <1> USE DEF TypeOK, Pcs, Writing, Goroutines, Docs, Statuses, OK, GatewayTimeout,
              At, Goto,
              Positions, MiddlewarePcs, HandlerPcs, TimeoutKept
  <1>1. ASSUME NEW r \in Requests, Accept(r)
        PROVE  TimeoutKept(q)'
    BY <1>1 DEF Accept
  <1>2. ASSUME NEW r \in Requests, TakeDone(r)
        PROVE  TimeoutKept(q)'
    BY <1>2 DEF TakeDone, Done
  <1>3. ASSUME NEW r \in Requests, TakeDeadline(r)
        PROVE  TimeoutKept(q)'
    BY <1>3 DEF TakeDeadline
  <1>4. ASSUME NEW r \in Requests, TakeCanceled(r)
        PROVE  TimeoutKept(q)'
    BY <1>4 DEF TakeCanceled
  <1>5. ASSUME NEW r \in Requests, LogRequest(r)
        PROVE  TimeoutKept(q)'
    BY <1>5 DEF LogRequest, CancelOnReturn
  <1>6. ASSUME NEW r \in Requests, Recover(r)
        PROVE  TimeoutKept(q)'
    BY <1>6, AppendDocument DEF Recover
  <1>7. ASSUME NEW r \in Requests, Finish(r)
        PROVE  TimeoutKept(q)'
    BY <1>7 DEF Finish, Committed
  <1>8. ASSUME NEW r \in Requests, NEW s \in HandlerStatuses, CallsReturn(r, s)
        PROVE  TimeoutKept(q)'
    BY <1>8, StatusesAssumption DEF CallsReturn
  <1>9. ASSUME NEW r \in Requests, HandlerPanics(r)
        PROVE  TimeoutKept(q)'
    BY <1>9 DEF HandlerPanics
  <1>10. ASSUME NEW r \in Requests, NEW g \in Goroutines, SetHeader(r, g)
        PROVE  TimeoutKept(q)'
    BY <1>10 DEF SetHeader
  <1>11. ASSUME NEW r \in Requests, NEW g \in Goroutines, CheckFlag(r, g)
        PROVE  TimeoutKept(q)'
    BY <1>11 DEF CheckFlag
  <1>12. ASSUME NEW r \in Requests, NEW g \in Goroutines, Mark(r, g)
        PROVE  TimeoutKept(q)'
    BY <1>12 DEF Mark, StatusOf
  <1>13. ASSUME NEW r \in Requests, NEW g \in Goroutines, Commit(r, g)
        PROVE  TimeoutKept(q)'
    BY <1>13 DEF Commit, Committed, StatusOf
  <1>14. ASSUME NEW r \in Requests, NEW g \in Goroutines, WriteBody(r, g)
        PROVE  TimeoutKept(q)'
    <2>0. OwnEffect(r, g)
      BY <1>14, OwnBody
    <2>1. CASE q = r /\ g = "middleware"
      <3>1. PICK d \in {"timeout", "torn"} : body'[q] = Append(body[q], d)
        BY <2>1, <2>0 DEF OwnEffect, DocOf
      <3> QED
        BY <3>1, AppendDocument
    <2>2. CASE ~(q = r /\ g = "middleware")
      <3>1. /\ body'[q] = body[q] \/ \E d \in Docs : body'[q] = Append(body[q], d)
            /\ branch'[q] = branch[q]
            /\ pc'[q]["middleware"] = pc[q]["middleware"]
        BY <2>2, <2>0 DEF OwnEffect, DocOf
      <3>2. HoldsTimeout(body[q]) => HoldsTimeout(body'[q])
        BY <3>1, BodyStep
      <3> QED
        BY <3>1, <3>2
    <2> QED
      BY <2>1, <2>2
  <1>15. ASSUME NEW r \in Requests, HeaderRace(r)
        PROVE  TimeoutKept(q)'
    BY <1>15 DEF HeaderRace
  <1>16. ASSUME NEW r \in Requests, LateWrite(r)
        PROVE  TimeoutKept(q)'
    <2>0. LateEffect(r)
      BY <1>16, LateBody
    <2>1. /\ body'[q] = body[q] \/ \E d \in Docs : body'[q] = Append(body[q], d)
          /\ branch'[q] = branch[q]
          /\ pc'[q]["middleware"] = pc[q]["middleware"]
      BY <2>0 DEF LateEffect
    <2>2. HoldsTimeout(body[q]) => HoldsTimeout(body'[q])
      BY <2>1, BodyStep
    <2> QED
      BY <2>1, <2>2
  <1>17. ASSUME NEW r \in Requests, NEW g \in Goroutines, BufferPanic(r, g)
        PROVE  TimeoutKept(q)'
    <2>1. CASE process' = "raced" /\ UNCHANGED pc
      BY <2>1, <1>17 DEF BufferPanic
    <2>2. CASE Goto(r, g, "recover") /\ g = "middleware" /\ UNCHANGED process
      BY <2>2, <1>17 DEF BufferPanic
    <2> QED
      BY <2>1, <2>2, <1>17 DEF BufferPanic, Goroutines
  <1>18. ASSUME NEW r \in Requests, DeadlineFires(r)
        PROVE  TimeoutKept(q)'
    BY <1>18 DEF DeadlineFires
  <1>19. ASSUME NEW r \in Requests, ClientGone(r)
        PROVE  TimeoutKept(q)'
    BY <1>19 DEF ClientGone
  <1>20. ASSUME NEW r \in Requests, LatePanic(r)
        PROVE  TimeoutKept(q)'
    BY <1>20 DEF LatePanic
  <1>21. CASE UNCHANGED vars
    BY <1>21 DEF vars
  <1> HIDE DEF TimeoutKept
  <1> QED
    BY SMTT(30), <1>1, <1>2, <1>3, <1>4, <1>5, <1>6, <1>7, <1>8, <1>9, <1>10,
       <1>11, <1>12, <1>13, <1>14, <1>15, <1>16, <1>17, <1>18, <1>19, <1>20, <1>21 DEF Next, WriteStep, Terminated

\* A body of one document was empty before that document was appended.
LEMMA AppendSingle ==
  ASSUME NEW b \in Seq(Docs), NEW d \in Docs
  PROVE  \A e \in Docs : Append(b, d) = <<e>> => b = <<>> /\ d = e
  <1>1. Len(Append(b, d)) = Len(b) + 1 /\ Append(b, d)[Len(b) + 1] = d /\ Len(b) \in Nat
    OBVIOUS
  <1>2. Len(b) = 0 => b = <<>>
    OBVIOUS
  <1> SUFFICES ASSUME NEW e \in Docs, Append(b, d) = <<e>>
               PROVE  b = <<>> /\ d = e
    OBVIOUS
  <1>3. Len(<<e>>) = 1 /\ <<e>>[1] = e
    OBVIOUS
  <1>4. Len(b) = 0
    BY <1>1, <1>3
  <1> QED
    BY <1>1, <1>2, <1>3, <1>4

\* What is left of a body whose last document was just appended.
LEMMA AppendFacts ==
  ASSUME NEW b \in Seq(Docs), NEW d \in Docs
  PROVE  /\ Append(b, d) = <<"handler">> => d = "handler"
         /\ Append(b, d) = <<"timeout">> => d = "timeout"
  BY AppendSingle DEF Docs

\* The documents that are neither of a request's own two.
Strays == {"recovered", "torn", "foreign", "statusless"}

\* What a recovered panic, a race or another request adds leaves neither document
\* alone in the body, and a document does not leave the other one alone.
LEMMA AddedShows ==
  ASSUME NEW b \in Seq(Docs)
  PROVE  /\ \A d \in Strays :
              Append(b, d) # <<"handler">> /\ Append(b, d) # <<"timeout">>
         /\ Append(b, "timeout") # <<"handler">>
         /\ Append(b, "handler") # <<"timeout">>
         /\ \A d \in Docs : Append(b, d) # <<>>
  <1>1. \A d \in Strays : d \in Docs /\ d # "handler" /\ d # "timeout"
    BY DEF Docs, Strays
  <1>2. "handler" \in Docs /\ "timeout" \in Docs /\ "handler" # "timeout"
    BY DEF Docs
  <1>3. \A d \in Docs : Append(b, d) # <<>>
    <2>1. \A d \in Docs : Len(Append(b, d)) = Len(b) + 1 /\ Len(b) \in Nat
      OBVIOUS
    <2>2. Len(<<>>) = 0
      OBVIOUS
    <2> QED
      BY <2>1, <2>2
  <1> QED
    BY <1>1, <1>2, <1>3, AppendFacts

\* Bodies of one document differ when the documents do, and are not empty.
LEMMA SinglesDiffer ==
  /\ <<"handler">> # <<"timeout">>
  /\ <<"handler">> # <<>>
  /\ <<"timeout">> # <<>>
  <1>1. <<"handler">>[1] = "handler" /\ <<"timeout">>[1] = "timeout"
    OBVIOUS
  <1>2. Len(<<"handler">>) = 1 /\ Len(<<"timeout">>) = 1 /\ Len(<<>>) = 0
    OBVIOUS
  <1> QED
    BY <1>1, <1>2

\* A response that has ended does not change any more.
LEMMA SettledStep ==
  ASSUME TypeOK, NEW q \in Requests, Positions(q), Settled(q), [Next]_vars
  PROVE  Settled(q)'
  <1> USE DEF TypeOK, Pcs, Writing, Goroutines, Docs, Statuses, OK, GatewayTimeout,
              At, Goto,
              Positions, MiddlewarePcs, HandlerPcs, Settled, Finished
  <1>1. ASSUME NEW r \in Requests, Accept(r)
        PROVE  Settled(q)'
    BY <1>1 DEF Accept
  <1>2. ASSUME NEW r \in Requests, TakeDone(r)
        PROVE  Settled(q)'
    BY <1>2 DEF TakeDone, Done
  <1>3. ASSUME NEW r \in Requests, TakeDeadline(r)
        PROVE  Settled(q)'
    BY <1>3 DEF TakeDeadline
  <1>4. ASSUME NEW r \in Requests, TakeCanceled(r)
        PROVE  Settled(q)'
    BY <1>4 DEF TakeCanceled
  <1>5. ASSUME NEW r \in Requests, LogRequest(r)
        PROVE  Settled(q)'
    BY <1>5 DEF LogRequest, CancelOnReturn
  <1>6. ASSUME NEW r \in Requests, Recover(r)
        PROVE  Settled(q)'
    <2>1. body[q] \in Seq(Docs)
      OBVIOUS
    <2>2. CASE q # r
      BY <2>2, <1>6 DEF Recover
    <2>3. CASE q = r
      <3>1. /\ body'[q] = Append(body[q], "recovered") /\ wire'[q] = wire[q]
            /\ pc'[q]["handler"] = pc[q]["handler"] /\ branch'[q] = branch[q]
            /\ ~Finished(q)'
        BY <2>3, <1>6 DEF Recover
      <3>2. body'[q] # <<"handler">> /\ body'[q] # <<"timeout">> /\ body'[q] # <<>>
        <4>0. "recovered" \in Docs
          OBVIOUS
        <4> HIDE DEF TypeOK, Positions, Settled, Docs
        <4>1. /\ Append(body[q], "recovered") # <<"handler">>
              /\ Append(body[q], "recovered") # <<"timeout">>
              /\ Append(body[q], "recovered") # <<>>
          BY <2>1, <4>0, AddedShows DEF Strays
        <4> QED
          BY <3>1, <4>1
      <3> QED
        BY <3>1, <3>2
    <2> QED
      BY <2>2, <2>3
  <1>7. ASSUME NEW r \in Requests, Finish(r)
        PROVE  Settled(q)'
    BY <1>7 DEF Finish, Committed
  <1>8. ASSUME NEW r \in Requests, NEW s \in HandlerStatuses, CallsReturn(r, s)
        PROVE  Settled(q)'
    BY <1>8, StatusesAssumption DEF CallsReturn
  <1>9. ASSUME NEW r \in Requests, HandlerPanics(r)
        PROVE  Settled(q)'
    BY <1>9 DEF HandlerPanics
  <1>10. ASSUME NEW r \in Requests, NEW g \in Goroutines, SetHeader(r, g)
        PROVE  Settled(q)'
    BY <1>10 DEF SetHeader
  <1>11. ASSUME NEW r \in Requests, NEW g \in Goroutines, CheckFlag(r, g)
        PROVE  Settled(q)'
    BY <1>11 DEF CheckFlag
  <1>12. ASSUME NEW r \in Requests, NEW g \in Goroutines, Mark(r, g)
        PROVE  Settled(q)'
    BY <1>12 DEF Mark, StatusOf
  <1>13. ASSUME NEW r \in Requests, NEW g \in Goroutines, Commit(r, g)
        PROVE  Settled(q)'
    BY <1>13 DEF Commit, Committed, StatusOf
  <1>14. ASSUME NEW r \in Requests, NEW g \in Goroutines, WriteBody(r, g)
        PROVE  Settled(q)'
    <2>0. OwnEffect(r, g)
      BY <1>14, OwnBody
    <2>1. body[q] \in Seq(Docs)
      OBVIOUS
    <2>2. CASE q # r
      BY <2>2, <2>0 DEF OwnEffect, AfterBody
    <2>3. CASE q = r
      <3>1. /\ wire'[q] # 0
            /\ branch'[q] = branch[q]
            /\ g = "handler" => pc'[q]["handler"] = "ended"
            /\ g = "middleware" => branch[q] = "deadline"
            /\ g = "middleware" => pc'[q]["handler"] = pc[q]["handler"]
            /\ \E d \in {DocOf(g), "torn"} : body'[q] = Append(body[q], d)
        BY <2>3, <2>0 DEF OwnEffect, Committed, AfterBody
      <3>2. /\ g = "middleware" => body'[q] # <<"handler">>
            /\ g = "handler" => body'[q] # <<"timeout">>
            /\ body'[q] # <<>>
        <4>0. DocOf(g) \in Docs /\ "torn" \in Docs
          BY DEF DocOf
        <4> HIDE DEF TypeOK, Positions, Settled, Docs
        <4>1. /\ Append(body[q], "timeout") # <<"handler">>
              /\ Append(body[q], "handler") # <<"timeout">>
              /\ Append(body[q], "torn") # <<"handler">>
              /\ Append(body[q], "torn") # <<"timeout">>
              /\ \A d \in Docs : Append(body[q], d) # <<>>
          BY <2>1, AddedShows DEF Strays
        <4> QED
          BY <3>1, <4>0, <4>1 DEF DocOf
      <3> QED
        BY <3>1, <3>2
    <2> QED
      BY <2>2, <2>3
  <1>15. ASSUME NEW r \in Requests, HeaderRace(r)
        PROVE  Settled(q)'
    BY <1>15 DEF HeaderRace
  <1>16. ASSUME NEW r \in Requests, LateWrite(r)
        PROVE  Settled(q)'
    <2>0. LateEffect(r)
      BY <1>16, LateBody
    <2>1. /\ wire' = wire /\ branch' = branch
          /\ pc'[q]["middleware"] = pc[q]["middleware"]
          /\ pc'[q]["handler"] = "ended" =>
               pc[q]["handler"] = "ended" \/ branch[q] \notin {"none", "done"}
          /\ pc[q]["handler"] = "ended" => pc'[q]["handler"] = "ended"
          /\ \/ body'[q] = body[q]
             \/ \E d \in {"foreign", "torn", "statusless"} : body'[q] = Append(body[q], d)
      BY <2>0 DEF LateEffect
    <2>2. /\ body'[q] = <<"handler">> => body[q] = <<"handler">>
          /\ body'[q] = <<"timeout">> => body[q] = <<"timeout">>
          /\ body'[q] = <<>> => body[q] = <<>>
      <3>1. body[q] \in Seq(Docs) /\ {"foreign", "torn", "statusless"} \subseteq Docs
        OBVIOUS
      <3> HIDE DEF TypeOK, Positions, Settled, Docs
      <3> QED
        BY <2>1, <3>1, AddedShows DEF Strays
    <2> QED
      BY <2>1, <2>2
  <1>17. ASSUME NEW r \in Requests, NEW g \in Goroutines, BufferPanic(r, g)
        PROVE  Settled(q)'
    <2>1. CASE process' = "raced" /\ UNCHANGED pc
      BY <2>1, <1>17 DEF BufferPanic
    <2>2. CASE Goto(r, g, "recover") /\ g = "middleware" /\ UNCHANGED process
      BY <2>2, <1>17 DEF BufferPanic
    <2> QED
      BY <2>1, <2>2, <1>17 DEF BufferPanic, Goroutines
  <1>18. ASSUME NEW r \in Requests, DeadlineFires(r)
        PROVE  Settled(q)'
    BY <1>18 DEF DeadlineFires
  <1>19. ASSUME NEW r \in Requests, ClientGone(r)
        PROVE  Settled(q)'
    BY <1>19 DEF ClientGone
  <1>20. ASSUME NEW r \in Requests, LatePanic(r)
        PROVE  Settled(q)'
    BY <1>20 DEF LatePanic
  <1>21. CASE UNCHANGED vars
    BY <1>21 DEF vars
  <1> HIDE DEF Settled
  <1> QED
    BY SMTT(30), <1>1, <1>2, <1>3, <1>4, <1>5, <1>6, <1>7, <1>8, <1>9, <1>10,
       <1>11, <1>12, <1>13, <1>14, <1>15, <1>16, <1>17, <1>18, <1>19, <1>20, <1>21 DEF Next, WriteStep, Terminated

\* What a client got is what it had before the step.
Unchanged(q) ==
  /\ Finished(q)'
  /\ branch'[q] = branch[q] /\ wire'[q] = wire[q] /\ body'[q] = body[q]
  /\ body[q] = <<"handler">> => answer'[q] = answer[q]

\* Nothing changes what a client got once its response has ended.
LEMMA FinalStep ==
  ASSUME TypeOK, NEW q \in Requests, Positions(q), Settled(q), Finished(q), [Next]_vars
  PROVE  Unchanged(q)
  <1> USE DEF TypeOK, Pcs, Writing, Goroutines, Docs, Statuses, OK, GatewayTimeout,
              At, Goto,
              Settled, Finished, InFlight, Unchanged
  <1>1. ASSUME NEW r \in Requests, Accept(r)
        PROVE  Unchanged(q)
    BY <1>1 DEF Accept
  <1>2. ASSUME NEW r \in Requests, TakeDone(r)
        PROVE  Unchanged(q)
    BY <1>2 DEF TakeDone, Done
  <1>3. ASSUME NEW r \in Requests, TakeDeadline(r)
        PROVE  Unchanged(q)
    BY <1>3 DEF TakeDeadline
  <1>4. ASSUME NEW r \in Requests, TakeCanceled(r)
        PROVE  Unchanged(q)
    BY <1>4 DEF TakeCanceled
  <1>5. ASSUME NEW r \in Requests, LogRequest(r)
        PROVE  Unchanged(q)
    BY <1>5 DEF LogRequest, CancelOnReturn
  <1>6. ASSUME NEW r \in Requests, Recover(r)
        PROVE  Unchanged(q)
    BY <1>6 DEF Recover
  <1>7. ASSUME NEW r \in Requests, Finish(r)
        PROVE  Unchanged(q)
    BY <1>7 DEF Finish, Committed
  <1>8. ASSUME NEW r \in Requests, NEW s \in HandlerStatuses, CallsReturn(r, s)
        PROVE  Unchanged(q)
    BY <1>8 DEF CallsReturn
  <1>9. ASSUME NEW r \in Requests, HandlerPanics(r)
        PROVE  Unchanged(q)
    BY <1>9 DEF HandlerPanics
  <1>10. ASSUME NEW r \in Requests, NEW g \in Goroutines, SetHeader(r, g)
        PROVE  Unchanged(q)
    BY <1>10 DEF SetHeader
  <1>11. ASSUME NEW r \in Requests, NEW g \in Goroutines, CheckFlag(r, g)
        PROVE  Unchanged(q)
    BY <1>11 DEF CheckFlag
  <1>12. ASSUME NEW r \in Requests, NEW g \in Goroutines, Mark(r, g)
        PROVE  Unchanged(q)
    BY <1>12 DEF Mark, StatusOf
  <1>13. ASSUME NEW r \in Requests, NEW g \in Goroutines, Commit(r, g)
        PROVE  Unchanged(q)
    BY <1>13 DEF Commit, Committed, StatusOf
  <1>14. ASSUME NEW r \in Requests, NEW g \in Goroutines, WriteBody(r, g)
        PROVE  Unchanged(q)
    <2>1. OwnEffect(r, g)
      BY <1>14, OwnBody
    <2> QED
      BY <2>1 DEF OwnEffect, AfterBody
  <1>15. ASSUME NEW r \in Requests, HeaderRace(r)
        PROVE  Unchanged(q)
    BY <1>15 DEF HeaderRace
  <1>16. ASSUME NEW r \in Requests, LateWrite(r)
        PROVE  Unchanged(q)
    <2>1. LateEffect(r)
      BY <1>16, LateBody
    <2> QED
      BY <2>1 DEF LateEffect
  <1>17. ASSUME NEW r \in Requests, NEW g \in Goroutines, BufferPanic(r, g)
        PROVE  Unchanged(q)
    <2>1. CASE process' = "raced" /\ UNCHANGED pc
      BY <2>1, <1>17 DEF BufferPanic
    <2>2. CASE Goto(r, g, "recover") /\ g = "middleware" /\ UNCHANGED process
      BY <2>2, <1>17 DEF BufferPanic
    <2> QED
      BY <2>1, <2>2, <1>17 DEF BufferPanic, Goroutines
  <1>18. ASSUME NEW r \in Requests, DeadlineFires(r)
        PROVE  Unchanged(q)
    BY <1>18 DEF DeadlineFires
  <1>19. ASSUME NEW r \in Requests, ClientGone(r)
        PROVE  Unchanged(q)
    BY <1>19 DEF ClientGone
  <1>20. ASSUME NEW r \in Requests, LatePanic(r)
        PROVE  Unchanged(q)
    BY <1>20 DEF LatePanic
  <1>21. CASE UNCHANGED vars
    BY <1>21 DEF vars
  <1> QED
    BY SMTT(30), <1>1, <1>2, <1>3, <1>4, <1>5, <1>6, <1>7, <1>8, <1>9, <1>10,
       <1>11, <1>12, <1>13, <1>14, <1>15, <1>16, <1>17, <1>18, <1>19, <1>20, <1>21 DEF Next, WriteStep, Terminated

\* The handlers a request inherits are interrupted ones, and stay so.
LEMMA InheritedStep ==
  ASSUME TypeOK, \A q \in Requests : Positions(q) /\ Settled(q) /\ Inherited(q),
         [Next]_vars, NEW p \in Requests
  PROVE  Inherited(p)'
  <1>1. ASSUME NEW q \in Requests, Finished(q), branch[q] \in {"deadline", "canceled"}
        PROVE  Finished(q)' /\ branch'[q] = branch[q]
    BY <1>1, FinalStep DEF Unchanged
  <1>2. CASE \E r \in Requests : Accept(r)
    <2>1. PICK r \in Requests : Accept(r)
      BY <1>2
    <2>2. CASE p # r
      BY <2>1, <2>2, <1>1 DEF Accept, Inherited, TypeOK
    <2>3. CASE p = r
      <3>1. past'[p] \subseteq Abandoned /\ ~Finished(p)
        BY <2>1, <2>3 DEF Accept, At, Finished, TypeOK
      <3>2. \A q \in Abandoned : Finished(q) /\ branch[q] \in {"deadline", "canceled"}
        BY DEF Abandoned, Positions, Finished, TypeOK
      <3> QED
        BY <3>1, <3>2, <1>1 DEF Abandoned, Inherited
    <2> QED
      BY <2>2, <2>3
  <1>3. CASE past' = past
    BY <1>1, <1>3 DEF Inherited, TypeOK
  <1>4. past' = past \/ \E r \in Requests : Accept(r)
    BY DEF Next, WriteStep, Terminated, vars,
      TakeDone, TakeDeadline, TakeCanceled, LogRequest, Recover, Finish,
      CallsReturn, HandlerPanics, SetHeader, CheckFlag, Mark, Commit, WriteBody,
      LateWrite, LatePanic, HeaderRace, BufferPanic, DeadlineFires, ClientGone
  <1> QED
    BY <1>2, <1>3, <1>4

\* A goroutine that writes while another uses the same buffer, or late, is there
\* because the select of some request took ctx.Done().
LEMMA ContendedInterrupted ==
  ASSUME TypeOK, \A q \in Requests : Positions(q) /\ Inherited(q),
         NEW r \in Requests, NEW g \in Goroutines, pc[r][g] = "body",
         NEW p \in Requests, Reaches(r, p), Contended(r, g, p)
  PROVE  \E q \in Requests : branch[q] \in {"deadline", "canceled"}
  <1>1. PICK q \in Requests, h \in Goroutines : <<q, h>> # <<r, g>> /\ OnBuffer(q, h, p)
    BY DEF Contended
  <1>2. CASE r # p
    BY <1>2 DEF Reaches, Inherited
  <1>3. CASE q # p
    BY <1>1, <1>3 DEF OnBuffer, Reaches, Inherited
  <1>4. CASE r = p /\ q = p
    <2>1. g # h
      BY <1>1, <1>4
    <2> QED
      BY <1>1, <1>4, <2>1 DEF OnBuffer, Positions, Goroutines, Writing, TypeOK
  <1> QED
    BY <1>2, <1>3, <1>4

\* Only a race of writers can end the process as "raced", and each needs a
\* goroutine that writes after the select took ctx.Done().
LEMMA RaceStep ==
  ASSUME TypeOK, \A q \in Requests : Positions(q) /\ Inherited(q),
         RaceNeedsInterruption, [Next]_vars
  PROVE  RaceNeedsInterruption'
  <1>1. CASE process # "up"
    <2>1. UNCHANGED vars
      BY <1>1 DEF Next, WriteStep, Terminated, vars, At,
        Accept, TakeDone, TakeDeadline, TakeCanceled, LogRequest, Recover, Finish,
        CallsReturn, HandlerPanics, SetHeader, CheckFlag, Mark, Commit, WriteBody,
        LateWrite, LatePanic, HeaderRace, BufferPanic, DeadlineFires, ClientGone
    <2> QED
      BY <2>1 DEF vars, RaceNeedsInterruption
  <1>2. CASE process = "up" /\ process' # "raced"
    BY <1>2 DEF RaceNeedsInterruption
  <1>3. CASE process = "up" /\ process' = "raced"
    <2>1. PICK r \in Requests : \/ HeaderRace(r) \/ LatePanic(r)
                                \/ \E g \in Goroutines : BufferPanic(r, g)
      BY <1>3 DEF Next, WriteStep, Terminated, vars, Goto,
        Accept, TakeDone, TakeDeadline, TakeCanceled, LogRequest, Recover, Finish,
        CallsReturn, HandlerPanics, SetHeader, CheckFlag, Mark, Commit, WriteBody,
        LateWrite, DeadlineFires, ClientGone
    <2>2. branch' = branch
      BY <2>1 DEF HeaderRace, LatePanic, BufferPanic
    <2>3. \E q \in Requests : branch[q] \in {"deadline", "canceled"}
      <3>1. CASE HeaderRace(r)
        <4>1. PICK g, h \in Goroutines, q \in Requests :
                /\ <<r, g>> # <<q, h>> /\ pc[r][g] = "set"
                /\ (q = r /\ pc[q][h] = "set") \/ WalksHeader(q, h, r)
          BY <3>1 DEF HeaderRace
        <4>2. CASE q # r
          BY <4>1, <4>2 DEF WalksHeader, Reaches, Inherited
        <4>3. CASE q = r
          BY <4>1, <4>3 DEF WalksHeader, Positions, Goroutines, Writing, TypeOK
        <4> QED
          BY <4>2, <4>3
      <3>2. CASE LatePanic(r)
        BY <3>2 DEF LatePanic, At, Finished, Positions, TypeOK
      <3>3. CASE \E g \in Goroutines : BufferPanic(r, g)
        BY <3>3, ContendedInterrupted DEF BufferPanic, At
      <3> QED
        BY <2>1, <3>1, <3>2, <3>3
    <2> QED
      BY <2>2, <2>3 DEF RaceNeedsInterruption
  <1> QED
    BY <1>1, <1>2, <1>3

-----------------------------------------------------------------------------

\* IInv holds in the initial states.
LEMMA InitInv == Init => IInv
  BY DEF Init, IInv, TypeOK, Pcs, Writing, Goroutines, Docs, Statuses,
         Positions, MiddlewarePcs, HandlerPcs, Response, SoleWriter, Blank,
         Holds, TimeoutKept, Settled, Finished, Inherited, RaceNeedsInterruption

\* Every step preserves IInv.
LEMMA StepInv == IInv /\ [Next]_vars => IInv'
  BY TypeStep, PositionsStep, ResponseStep, TimeoutKeptStep, SettledStep,
     InheritedStep, RaceStep DEF IInv

\* The invariant holds in every reachable state.
THEOREM Invariance == Spec => []IInv
  BY InitInv, StepInv, PTL DEF Spec

\* Every variable keeps its type, and the process dies only in the known ways.
THEOREM TypeCorrectness == Spec => []TypeOK
  <1>1. IInv => TypeOK
    BY DEF IInv
  <1> QED
    BY <1>1, Invariance, PTL

\* For any number of requests and any handler: an uninterrupted request gets the
\* handler's document, under its status, and so does the log.
THEOREM UninterruptedAnswers == Spec => []UninterruptedAnswerIntact
  <1>1. IInv => UninterruptedAnswerIntact
    BY DEF IInv, UninterruptedAnswerIntact, Finished, Positions, Response,
           SoleWriter, Carries, Holds, StatusOf, DocOf
  <1> QED
    BY <1>1, Invariance, PTL

\* A request whose deadline passed is never ended without the timeout document.
THEOREM TimeoutAnswers == Spec => []TimeoutDocumentSent
  <1>1. IInv => TimeoutDocumentSent
    BY DEF IInv, TimeoutDocumentSent, Finished, TimeoutKept
  <1> QED
    BY <1>1, Invariance, PTL

\* A handler that still waits for the API when its request ends has left the 504
\* and the log alone.
THEOREM AbandonedHandlers == Spec => []AbandonedHandlerHarmless
  <1>1. IInv => AbandonedHandlerHarmless
    BY DEF IInv, AbandonedHandlerHarmless, Finished, Response, SoleWriter,
           Carries, Holds, StatusOf, DocOf
  <1> QED
    BY <1>1, Invariance, PTL

\* No request that is answered in time can bring the process down by a race.
THEOREM RacesNeedInterruption == Spec => []RaceNeedsInterruption
  <1>1. IInv => RaceNeedsInterruption
    BY DEF IInv
  <1> QED
    BY <1>1, Invariance, PTL

-----------------------------------------------------------------------------
(***************************************************************************)
(* RequestPipeline implements the safety part of RequestContract.          *)
(***************************************************************************)

\* What the client has got when its response ends is what the contract allows, and
\* the documents of several writers if an abandoned handler held its writer.
LEMMA ReplyAllowed ==
  ASSUME IInv', NEW r \in Requests, Finished(r)'
  PROVE  \/ ReplyOf(r)' \in Contract!Reply[Interruption(r)']
         \/ ReplyOf(r)' = "mixed" /\ past'[r] # {}
  <1> USE DEF IInv, Finished, ReplyOf, Interruption, Contract!Reply
  <1>1. branch'[r] \in {"done", "deadline", "canceled"}
    BY DEF TypeOK, Positions
  <1>2. CASE branch'[r] = "done"
    <2>1. wire'[r] = answer'[r] /\ (past'[r] = {} => body'[r] = <<"handler">>)
      BY <1>2 DEF Positions, Response, SoleWriter, Carries, Holds, StatusOf, DocOf
    <2>2. body'[r] # <<"timeout">>
      BY <1>2 DEF Settled
    <2>3. CASE body'[r] = <<"handler">>
      BY <1>2, <2>1, <2>3, SinglesDiffer
    <2>4. CASE body'[r] # <<"handler">> /\ body'[r] # <<>>
      BY <1>2, <2>1, <2>2, <2>4
    <2>5. body'[r] # <<>>
      BY <1>2 DEF Positions, Settled
    <2> QED
      BY <2>3, <2>4, <2>5
  <1>3. CASE branch'[r] = "deadline"
    <2>1. HoldsTimeout(body'[r])
      BY <1>3 DEF TimeoutKept
    <2>2. ~HoldsTimeout(<<>>) /\ ~HoldsTimeout(<<"handler">>)
      BY DEF HoldsTimeout
    <2>3. body'[r] # <<>> /\ body'[r] # <<"handler">>
      BY <2>1, <2>2
    <2> QED
      BY <1>3, <2>3
  <1>4. CASE branch'[r] = "canceled"
    <2>1. body'[r] # <<"timeout">>
      BY <1>4 DEF Settled
    <2> QED
      BY <1>4, <2>1
  <1> QED
    BY <1>1, <1>2, <1>3, <1>4

\* A request whose middleware neither starts nor ends is in the same phase and
\* has the same reply for the contract.
LEMMA SameView ==
  ASSUME IInv, [Next]_vars, NEW q \in Requests,
         pc'[q]["middleware"] = "idle" <=> pc[q]["middleware"] = "idle",
         Finished(q)' <=> Finished(q)
  PROVE  Phase(q)' = Phase(q) /\ ReplyOf(q)' = ReplyOf(q)
  <1>1. Phase(q)' = Phase(q)
    BY DEF Phase, Finished
  <1>2. CASE Finished(q)
    <2>1. /\ wire'[q] = wire[q] /\ body'[q] = body[q]
          /\ body[q] = <<"handler">> => answer'[q] = answer[q]
      BY <1>2, FinalStep DEF IInv, Unchanged
    <2> QED
      BY <1>1, <1>2, <2>1 DEF ReplyOf
  <1>3. CASE ~Finished(q)
    BY <1>1, <1>3 DEF ReplyOf
  <1> QED
    BY <1>2, <1>3

\* Steps that start, interrupt and end no request are invisible to the contract.
LEMMA Stutters ==
  ASSUME IInv, [Next]_vars, process' = process,
         \A q \in Requests :
           /\ Interruption(q)' = Interruption(q)
           /\ pc'[q]["middleware"] = "idle" <=> pc[q]["middleware"] = "idle"
           /\ Finished(q)' <=> Finished(q)
  PROVE  UNCHANGED Contract!cvars
  <1>1. \A q \in Requests : Phase(q)' = Phase(q) /\ ReplyOf(q)' = ReplyOf(q)
    <2> SUFFICES ASSUME NEW q \in Requests
                 PROVE  Phase(q)' = Phase(q) /\ ReplyOf(q)' = ReplyOf(q)
      OBVIOUS
    <2> QED
      BY SameView
  <1> QED
    BY <1>1 DEF Contract!cvars

\* One request ends: the others are as they were, and its reply is allowed.
LEMMA Closes ==
  ASSUME IInv, IInv', [Next]_vars, NEW r \in Requests,
         process = "up", process' = "up",
         ~Finished(r), Finished(r)', pc[r]["middleware"] # "idle",
         branch' = branch, past' = past, \A q \in Requests \ {r} : pc'[q] = pc[q]
  PROVE  Contract!Close(r)
  <1>1. \A q \in Requests \ {r} : Phase(q)' = Phase(q) /\ ReplyOf(q)' = ReplyOf(q)
    BY SameView DEF Finished
  <1>2. \A q \in Requests : Interruption(q)' = Interruption(q)
    BY DEF Interruption
  <1>3. \A q \in past[r] : /\ q \in Requests \ {r}
                           /\ Phase(q) = "closed" /\ Interruption(q) # "no"
    BY DEF IInv, Inherited, TypeOK, Phase, Interruption, Finished
  <1>4. past[r] # {} => Contract!Disturbed(r)
    BY <1>3 DEF Contract!Disturbed
  <1>5. ReplyOf(r)' \in Contract!Allowed(r)
    BY <1>2, <1>4, ReplyAllowed DEF Contract!Allowed
  <1>6. Phase(r) = "open" /\ Phase(r)' = "closed"
    BY DEF Phase, Finished
  <1> QED
    BY <1>1, <1>2, <1>5, <1>6 DEF Contract!Close

\* One request is interrupted: no reply and no other request changes.
LEMMA Interrupts ==
  ASSUME IInv, [Next]_vars, NEW r \in Requests, NEW b \in {"deadline", "canceled"},
         process = "up", process' = "up",
         pc[r]["middleware"] = "select", branch[r] = "none",
         pc'[r]["middleware"] \notin {"idle", "finished"},
         branch' = [branch EXCEPT ![r] = b],
         \A q \in Requests \ {r} : pc'[q] = pc[q]
  PROVE  Contract!Interrupt(r)
  <1>1. \A q \in Requests : Phase(q)' = Phase(q) /\ ReplyOf(q)' = ReplyOf(q)
    <2> SUFFICES ASSUME NEW q \in Requests
                 PROVE  Phase(q)' = Phase(q) /\ ReplyOf(q)' = ReplyOf(q)
      OBVIOUS
    <2> QED
      BY SameView DEF Finished
  <1>2. branch \in [Requests -> {"none", "done", "deadline", "canceled"}]
    BY DEF IInv, TypeOK
  <1>3. /\ Interruption(r) = "no" /\ Interruption(r)' = b
        /\ \A q \in Requests \ {r} : Interruption(q)' = Interruption(q)
    BY <1>2 DEF Interruption
  <1>4. Phase(r) = "open"
    BY DEF Phase, Finished
  <1> QED
    BY <1>1, <1>3, <1>4 DEF Contract!Interrupt

\* The process dies: nothing else changes.
LEMMA Crashes ==
  ASSUME process = "up", process' # "up",
         UNCHANGED <<pc, branch, answer, wire, body>>
  PROVE  Contract!Crash
  BY DEF Contract!Crash, Phase, Interruption, ReplyOf, Finished

\* Every step of the two goroutines is a step of the contract or invisible to it.
LEMMA StepRefines ==
  ASSUME IInv, IInv', [Next]_vars
  PROVE  [Contract!CNext]_(Contract!cvars)
  <1> USE DEF At, Goto
  <1>0. TypeOK /\ \A r \in Requests : Positions(r)
    BY DEF IInv
  <1>1. ASSUME NEW r \in Requests, Accept(r)
        PROVE  [Contract!CNext]_(Contract!cvars)
    <2>1. /\ Phase(r) = "pending" /\ Phase(r)' = "open" /\ ~Finished(r) /\ ~Finished(r)'
          /\ \A q \in Requests \ {r} : pc'[q] = pc[q]
          /\ \A q \in Requests : Interruption(q)' = Interruption(q)
          /\ process = "up" /\ process' = "up"
      BY <1>0, <1>1 DEF Accept, Phase, Finished, Interruption, TypeOK, Goroutines
    <2>2. \A q \in Requests \ {r} : Phase(q)' = Phase(q) /\ ReplyOf(q)' = ReplyOf(q)
      BY <2>1, SameView DEF Finished
    <2>3. ReplyOf(r) = "none" /\ ReplyOf(r)' = "none"
      BY <2>1 DEF ReplyOf
    <2> QED
      BY <2>1, <2>2, <2>3 DEF Contract!CNext, Contract!Open
  <1>2. ASSUME NEW r \in Requests, TakeDone(r)
        PROVE  [Contract!CNext]_(Contract!cvars)
    <2>1. /\ process' = process
          /\ \A q \in Requests :
               /\ Interruption(q)' = Interruption(q)
               /\ pc'[q]["middleware"] = "idle" <=> pc[q]["middleware"] = "idle"
               /\ Finished(q)' <=> Finished(q)
      BY <1>0, <1>2 DEF TakeDone, Positions, Interruption, Finished, TypeOK, Goroutines
    <2> QED
      BY <2>1, Stutters
  <1>3. ASSUME NEW r \in Requests, TakeDeadline(r)
        PROVE  [Contract!CNext]_(Contract!cvars)
    <2>1. /\ process = "up" /\ process' = "up"
          /\ pc[r]["middleware"] = "select" /\ branch[r] = "none"
          /\ pc'[r]["middleware"] \notin {"idle", "finished"}
          /\ branch' = [branch EXCEPT ![r] = "deadline"]
          /\ \A q \in Requests \ {r} : pc'[q] = pc[q]
      BY <1>0, <1>3 DEF TakeDeadline, Positions, TypeOK, Goroutines
    <2> QED
      BY <2>1, Interrupts DEF Contract!CNext
  <1>4. ASSUME NEW r \in Requests, TakeCanceled(r)
        PROVE  [Contract!CNext]_(Contract!cvars)
    <2>1. /\ process = "up" /\ process' = "up"
          /\ pc[r]["middleware"] = "select" /\ branch[r] = "none"
          /\ pc'[r]["middleware"] \notin {"idle", "finished"}
          /\ branch' = [branch EXCEPT ![r] = "canceled"]
          /\ \A q \in Requests \ {r} : pc'[q] = pc[q]
      BY <1>0, <1>4 DEF TakeCanceled, Positions, TypeOK, Goroutines
    <2> QED
      BY <2>1, Interrupts DEF Contract!CNext
  <1>5. ASSUME NEW r \in Requests, LogRequest(r)
        PROVE  [Contract!CNext]_(Contract!cvars)
    <2>1. /\ process' = process
          /\ \A q \in Requests :
               /\ Interruption(q)' = Interruption(q)
               /\ pc'[q]["middleware"] = "idle" <=> pc[q]["middleware"] = "idle"
               /\ Finished(q)' <=> Finished(q)
      BY <1>0, <1>5 DEF LogRequest, Interruption, Finished, TypeOK, Goroutines
    <2> QED
      BY <2>1, Stutters
  <1>6. ASSUME NEW r \in Requests, Recover(r)
        PROVE  [Contract!CNext]_(Contract!cvars)
    <2>1. /\ process' = process
          /\ \A q \in Requests :
               /\ Interruption(q)' = Interruption(q)
               /\ pc'[q]["middleware"] = "idle" <=> pc[q]["middleware"] = "idle"
               /\ Finished(q)' <=> Finished(q)
      BY <1>0, <1>6 DEF Recover, Interruption, Finished, TypeOK, Goroutines
    <2> QED
      BY <2>1, Stutters
  <1>7. ASSUME NEW r \in Requests, Finish(r)
        PROVE  [Contract!CNext]_(Contract!cvars)
    <2>1. /\ process = "up" /\ process' = "up" /\ ~Finished(r) /\ Finished(r)'
          /\ pc[r]["middleware"] # "idle" /\ branch' = branch /\ past' = past
          /\ \A q \in Requests \ {r} : pc'[q] = pc[q]
      BY <1>0, <1>7 DEF Finish, Finished, TypeOK, Goroutines
    <2> QED
      BY <2>1, Closes DEF Contract!CNext
  <1>8. ASSUME NEW r \in Requests, NEW s \in HandlerStatuses, CallsReturn(r, s)
        PROVE  [Contract!CNext]_(Contract!cvars)
    <2>1. /\ process' = process
          /\ \A q \in Requests :
               /\ Interruption(q)' = Interruption(q)
               /\ pc'[q]["middleware"] = "idle" <=> pc[q]["middleware"] = "idle"
               /\ Finished(q)' <=> Finished(q)
      BY <1>0, <1>8 DEF CallsReturn, Interruption, Finished, TypeOK, Goroutines
    <2> QED
      BY <2>1, Stutters
  <1>9. ASSUME NEW r \in Requests, HandlerPanics(r)
        PROVE  [Contract!CNext]_(Contract!cvars)
    BY <1>9, Crashes DEF HandlerPanics, Contract!CNext
  <1>10. ASSUME NEW r \in Requests, NEW g \in Goroutines, SetHeader(r, g)
        PROVE  [Contract!CNext]_(Contract!cvars)
    <2>1. /\ process' = process
          /\ \A q \in Requests :
               /\ Interruption(q)' = Interruption(q)
               /\ pc'[q]["middleware"] = "idle" <=> pc[q]["middleware"] = "idle"
               /\ Finished(q)' <=> Finished(q)
      BY <1>0, <1>10 DEF SetHeader, Interruption, Finished, TypeOK, Goroutines
    <2> QED
      BY <2>1, Stutters
  <1>11. ASSUME NEW r \in Requests, NEW g \in Goroutines, CheckFlag(r, g)
        PROVE  [Contract!CNext]_(Contract!cvars)
    <2>1. /\ process' = process
          /\ \A q \in Requests :
               /\ Interruption(q)' = Interruption(q)
               /\ pc'[q]["middleware"] = "idle" <=> pc[q]["middleware"] = "idle"
               /\ Finished(q)' <=> Finished(q)
      BY <1>0, <1>11 DEF CheckFlag, Interruption, Finished, TypeOK, Goroutines
    <2> QED
      BY <2>1, Stutters
  <1>12. ASSUME NEW r \in Requests, NEW g \in Goroutines, Mark(r, g)
        PROVE  [Contract!CNext]_(Contract!cvars)
    <2>1. /\ process' = process
          /\ \A q \in Requests :
               /\ Interruption(q)' = Interruption(q)
               /\ pc'[q]["middleware"] = "idle" <=> pc[q]["middleware"] = "idle"
               /\ Finished(q)' <=> Finished(q)
      BY <1>0, <1>12 DEF Mark, Interruption, Finished, TypeOK, Goroutines
    <2> QED
      BY <2>1, Stutters
  <1>13. ASSUME NEW r \in Requests, NEW g \in Goroutines, Commit(r, g)
        PROVE  [Contract!CNext]_(Contract!cvars)
    <2>1. /\ process' = process
          /\ \A q \in Requests :
               /\ Interruption(q)' = Interruption(q)
               /\ pc'[q]["middleware"] = "idle" <=> pc[q]["middleware"] = "idle"
               /\ Finished(q)' <=> Finished(q)
      BY <1>0, <1>13 DEF Commit, Interruption, Finished, TypeOK, Goroutines
    <2> QED
      BY <2>1, Stutters
  <1>14. ASSUME NEW r \in Requests, NEW g \in Goroutines, WriteBody(r, g)
        PROVE  [Contract!CNext]_(Contract!cvars)
    <2>1. /\ process' = process
          /\ \A q \in Requests :
               /\ Interruption(q)' = Interruption(q)
               /\ pc'[q]["middleware"] = "idle" <=> pc[q]["middleware"] = "idle"
               /\ Finished(q)' <=> Finished(q)
      BY <1>0, <1>14 DEF WriteBody, AfterBody, Interruption, Finished, TypeOK, Goroutines
    <2> QED
      BY <2>1, Stutters
  <1>15. ASSUME NEW r \in Requests, HeaderRace(r)
        PROVE  [Contract!CNext]_(Contract!cvars)
    BY <1>15, Crashes DEF HeaderRace, Contract!CNext
  <1>16. ASSUME NEW r \in Requests, LateWrite(r)
        PROVE  [Contract!CNext]_(Contract!cvars)
    <2>0. LateEffect(r)
      BY <1>0, <1>16, LateBody
    <2>1. /\ process' = process
          /\ \A q \in Requests :
               /\ Interruption(q)' = Interruption(q)
               /\ pc'[q]["middleware"] = "idle" <=> pc[q]["middleware"] = "idle"
               /\ Finished(q)' <=> Finished(q)
      BY <1>0, <2>0 DEF LateEffect, Interruption, Finished, TypeOK, Goroutines
    <2> QED
      BY <2>1, Stutters
  <1>17. ASSUME NEW r \in Requests, NEW g \in Goroutines, BufferPanic(r, g)
        PROVE  [Contract!CNext]_(Contract!cvars)
    <2>1. CASE process' = "raced" /\ UNCHANGED pc
      BY <1>17, <2>1, Crashes DEF BufferPanic, Contract!CNext
    <2>2. CASE Goto(r, g, "recover") /\ g = "middleware" /\ UNCHANGED process
      <3>1. \A q \in Requests :
              /\ Interruption(q)' = Interruption(q)
              /\ pc'[q]["middleware"] = "idle" <=> pc[q]["middleware"] = "idle"
              /\ Finished(q)' <=> Finished(q)
        BY <1>0, <1>17, <2>2 DEF BufferPanic, Interruption, Finished, TypeOK, Goroutines
      <3> QED
        BY <2>2, <3>1, Stutters
    <2> QED
      BY <1>17, <2>1, <2>2 DEF BufferPanic, Goroutines
  <1>18. ASSUME NEW r \in Requests, DeadlineFires(r)
        PROVE  [Contract!CNext]_(Contract!cvars)
    <2>1. /\ process' = process
          /\ \A q \in Requests :
               /\ Interruption(q)' = Interruption(q)
               /\ pc'[q]["middleware"] = "idle" <=> pc[q]["middleware"] = "idle"
               /\ Finished(q)' <=> Finished(q)
      BY <1>0, <1>18 DEF DeadlineFires, Interruption, Finished, TypeOK, Goroutines
    <2> QED
      BY <2>1, Stutters
  <1>19. ASSUME NEW r \in Requests, ClientGone(r)
        PROVE  [Contract!CNext]_(Contract!cvars)
    <2>1. /\ process' = process
          /\ \A q \in Requests :
               /\ Interruption(q)' = Interruption(q)
               /\ pc'[q]["middleware"] = "idle" <=> pc[q]["middleware"] = "idle"
               /\ Finished(q)' <=> Finished(q)
      BY <1>0, <1>19 DEF ClientGone, Interruption, Finished, TypeOK, Goroutines
    <2> QED
      BY <2>1, Stutters
  <1>20. ASSUME NEW r \in Requests, LatePanic(r)
        PROVE  [Contract!CNext]_(Contract!cvars)
    BY <1>20, Crashes DEF LatePanic, Contract!CNext
  <1>21. CASE UNCHANGED vars
    BY <1>21 DEF vars, Contract!cvars, Phase, Interruption, ReplyOf, Finished
  <1> QED
    BY SMTT(30), <1>1, <1>2, <1>3, <1>4, <1>5, <1>6, <1>7, <1>8, <1>9, <1>10,
       <1>11, <1>12, <1>13, <1>14, <1>15, <1>16, <1>17, <1>18, <1>19, <1>20, <1>21 DEF Next, WriteStep, Terminated

\* For any number of requests, what clients see of the two goroutines of each
\* request is what RequestContract allows: one reply, final, and the handler's own
\* unless the request was interrupted.
THEOREM ContractSafety == Spec => Contract!CSafety
  <1>1. Init => Contract!CInit
    BY DEF Init, Contract!CInit, Phase, Interruption, ReplyOf, Finished, Goroutines
  <1> QED
    BY <1>1, StepRefines, Invariance, PTL DEF Spec, Contract!CSafety

=============================================================================
