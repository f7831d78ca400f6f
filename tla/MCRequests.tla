----------------------------- MODULE MCRequests -----------------------------
(* Either three threads of one process, two on one host and one on another, *)
(* or two commands on different sites, whose tokens share a file; there a   *)
(* tick is fifteen seconds.                                                 *)
EXTENDS HttpRequests, TokenCache, TLC

CONSTANTS t1, t2, t3, h1, h2, one, two
VARIABLE actors

MCHostOf == (t1 :> h1) @@ (t2 :> h1) @@ (t3 :> h2)
MCKeyOf == (one :> "retail") @@ (two :> "classic")
MCSizeOf == ("retail" :> 1) @@ ("classic" :> 2)

AllDone ==
  /\ clock = 0 /\ file = NoFile /\ pc = [p \in Process |-> "done"] /\ held = [p \in Process |-> Nothing]
  /\ looked = [p \in Process |-> 0] /\ attempt = looked /\ requests = looked /\ due = looked /\ sentAt = looked

MCInit ==
  /\ actors \in {"threads", "commands"}
  /\ RequestsInit
  /\ IF actors = "commands" THEN Init ELSE AllDone

MCNext ==
  /\ UNCHANGED actors
  /\ \/ actors = "threads" /\ RequestsNext /\ UNCHANGED vars
     \/ actors = "commands" /\ Next /\ UNCHANGED requesting

(* Time passes, a sleep that is over ends, every request is answered or     *)
(* times out, pauses end, and a thread or a process runs on.                *)
MCSpec ==
  /\ MCInit /\ [][MCNext]_<<actors, requesting, vars>>
  /\ WF_requesting(actors = "threads" /\ Moment)
  /\ \A c \in Caller : WF_requesting(actors = "threads" /\ GoesOn(c))
  /\ \A p \in Process : WF_vars(actors = "commands" /\ Progress(p))
=============================================================================
