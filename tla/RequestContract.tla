-------------------------- MODULE RequestContract --------------------------
(***************************************************************************)
(* What the agent's HTTP layer promises a client, without goroutines:      *)
(* every request that arrives gets one final reply, or the process dies.   *)
(* The reply is the handler's own document under the handler's own status  *)
(* as long as nothing interrupted the request, nor one that ended before   *)
(* it.  One whose deadline passed still gets something, but it may be the  *)
(* documents of several writers mixed.                                     *)
(***************************************************************************)
EXTENDS Naturals

CONSTANT Requests

VARIABLES phase,        \* "pending", "open" or "closed"
          interruption, \* what cut the request short, "no" if nothing did
          reply,        \* what the client got, "none" before the end
          up            \* is the process running?

cvars == <<phase, interruption, reply, up>>

\* What a request may be answered with, by what interrupted it.
Reply == [no       |-> {"own"},
          deadline |-> {"timeout", "mixed"},
          canceled |-> {"own", "empty", "mixed"}]

\* Was another request left to a handler nobody waits for?
Disturbed(r) ==
  \E q \in Requests \ {r} : phase[q] = "closed" /\ interruption[q] # "no"

Allowed(r) ==
  Reply[interruption[r]] \cup (IF Disturbed(r) THEN {"mixed"} ELSE {})

CInit ==
  /\ phase = [r \in Requests |-> "pending"]
  /\ interruption = [r \in Requests |-> "no"]
  /\ reply = [r \in Requests |-> "none"]
  /\ up = TRUE

Open(r) ==
  /\ up /\ phase[r] = "pending"
  /\ phase' = [phase EXCEPT ![r] = "open"]
  /\ UNCHANGED <<interruption, reply, up>>

Interrupt(r) ==
  /\ up /\ phase[r] = "open" /\ interruption[r] = "no"
  /\ \E i \in {"deadline", "canceled"} :
       interruption' = [interruption EXCEPT ![r] = i]
  /\ UNCHANGED <<phase, reply, up>>

Close(r) ==
  /\ up /\ phase[r] = "open"
  /\ phase' = [phase EXCEPT ![r] = "closed"]
  /\ \E a \in Allowed(r) : reply' = [reply EXCEPT ![r] = a]
  /\ UNCHANGED <<interruption, up>>

Crash ==
  /\ up
  /\ up' = FALSE
  /\ UNCHANGED <<phase, interruption, reply>>

CNext == Crash \/ \E r \in Requests : Open(r) \/ Interrupt(r) \/ Close(r)

CSafety == CInit /\ [][CNext]_cvars

CSpec == CSafety /\ \A r \in Requests : WF_cvars(Close(r))

=============================================================================
