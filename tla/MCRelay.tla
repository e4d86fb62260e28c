------------------------------ MODULE MCRelay ------------------------------
(***************************************************************************)
(* Units of five seconds: a heartbeat every ten, a poll and a lease of     *)
(* thirty, a request that waits at most twenty for its answer, and five    *)
(* when the service is prompt.                                             *)
(*                                                                         *)
(* The properties below are what the comments of the code say without a    *)
(* condition.  The code does not keep them; the relay_*.cfg show how.      *)
(***************************************************************************)
EXTENDS Relay

(* The lease never runs out in the loop, whatever is late (relay.rs,        *)
(* HEARTBEAT_BOUNDS).                                                       *)
LeaseNeverLapses == at \in InLoop => lease > 0

(* However a session ends, the service hears of it (relay.rs, bridge): even  *)
(* where no post fails (PostsArrive), a message can abort the task that is   *)
(* to post.                                                                  *)
PostsArrive == Init /\ [][Next /\ ~HubEndFails]_vars
EveryoneIsTold ==
  \A a \in Asker : session[a] \in {"asked", "carried"} => Attended(a)

(* A stream that has gone quiet is read as a dead link (relay.rs,            *)
(* READ_TIMEOUT).                                                           *)
QuietIsNoticed == deaf ~> ~deaf

(* A connection that cannot be opened is tried again (relay.rs, run).         *)
AlwaysRetried == at = "opening" ~> at # "opening" /\ at # "unanswered"
=============================================================================
