-------------------------- MODULE ServiceContract ---------------------------
(***************************************************************************)
(* What the process promises its clients, without threads, sockets or a    *)
(* model: a service that starts, serves, drains and stops.  A connection   *)
(* is admitted while the service serves, and at most one more while it     *)
(* drains; an admitted connection is answered or dropped.  The service may *)
(* stop under the requests it admitted (nobody waits for them), and it may *)
(* die, but only while it has one to blame.                                *)
(***************************************************************************)
CONSTANT Clients

VARIABLES phase,   \* of the service
          conn,    \* of each connection
          late     \* has a connection been admitted while draining?

serviceVars == <<phase, conn, late>>

Phase == {"starting", "serving", "draining", "stopped", "crashed"}
Alive == phase \in {"starting", "serving", "draining"}

ServiceInit ==
  /\ phase = "starting" /\ late = FALSE
  /\ conn = [k \in Clients |-> "none"]

\* The connections still waiting when the socket goes are refused with it.
Refuse(S, c) == [k \in Clients |-> IF k \in S THEN "refused" ELSE c[k]]
Waiting == {k \in Clients : conn[k] = "waiting"}

Advance ==
  /\ \/ phase = "starting" /\ phase' \in {"serving", "draining", "stopped"}
     \/ phase = "serving" /\ phase' = "draining"
     \/ phase = "draining" /\ phase' = "stopped"
  /\ UNCHANGED <<conn, late>>

Crash ==
  /\ \E k \in Clients : conn[k] = "admitted"
  /\ phase' = "crashed"
  /\ UNCHANGED <<conn, late>>

Arrive(k) ==
  /\ phase \in {"serving", "draining"} /\ conn[k] = "none"
  /\ conn' = [conn EXCEPT ![k] = "waiting"]
  /\ UNCHANGED <<phase, late>>

Admit(k) ==
  /\ conn[k] = "waiting"
  /\ \/ phase = "serving" /\ UNCHANGED late
     \/ phase = "draining" /\ ~late /\ late' = TRUE
  /\ \E S \in {{}, Waiting \ {k}} :
       /\ phase = "serving" => S = {}
       /\ conn' = [Refuse(S, conn) EXCEPT ![k] = "admitted"]
  /\ UNCHANGED phase

RefuseWaiting ==
  /\ phase = "draining"
  /\ conn' = Refuse(Waiting, conn)
  /\ UNCHANGED <<phase, late>>

Complete(k) ==
  /\ conn[k] = "admitted" /\ conn' \in {[conn EXCEPT ![k] = o] : o \in {"answered", "dropped"}}
  /\ UNCHANGED <<phase, late>>

ServiceNext ==
  /\ Alive
  /\ \/ Advance \/ Crash \/ RefuseWaiting
     \/ \E k \in Clients : Arrive(k) \/ Admit(k) \/ Complete(k)

ServiceSpec == ServiceInit /\ [][ServiceNext]_serviceVars

=============================================================================
