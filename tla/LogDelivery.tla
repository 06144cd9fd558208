----------------------------- MODULE LogDelivery -----------------------------
(***************************************************************************)
(* What the push path promises for each log, without buffers, tasks,       *)
(* attempts or sessions: a log is new, then held, then has one outcome for *)
(* good; only a held log is delivered, at most MaxDeliveries times; and    *)
(* what is called acknowledged has been delivered.  LogPusher implements   *)
(* it.  At-least-once delivery is NOT promised: a held log may be given up *)
(* or lost.                                                                *)
(***************************************************************************)
EXTENDS Naturals

CONSTANTS Logs, MaxDeliveries

VARIABLES
  fate,       (* where each log is in its life                               *)
  delivered   (* how often the consumer has been given each log              *)

Final == {"acked", "discarded", "dropped", "lost"}

Init ==
  /\ fate = [l \in Logs |-> "new"]
  /\ delivered = [l \in Logs |-> 0]

(* New logs are taken over; some, and some held ones, may be dropped. *)
Accept ==
  /\ \A l \in Logs : \/ fate'[l] = fate[l]
                     \/ fate[l] = "new" /\ fate'[l] \in {"held", "dropped"}
                     \/ fate[l] = "held" /\ fate'[l] = "dropped"
  /\ UNCHANGED delivered

(* The consumer is given some of the held logs. *)
Deliver ==
  /\ \A l \in Logs : \/ delivered'[l] = delivered[l]
                     \/ /\ fate[l] = "held"
                        /\ delivered[l] < MaxDeliveries
                        /\ delivered'[l] = delivered[l] + 1
  /\ UNCHANGED fate

(* Held logs are let go of. *)
Resolve ==
  /\ \A l \in Logs : \/ fate'[l] = fate[l]
                     \/ /\ fate[l] = "held"
                        /\ fate'[l] \in Final
                        /\ fate'[l] = "acked" => delivered[l] > 0
  /\ UNCHANGED delivered

Next == Accept \/ Deliver \/ Resolve

Spec == Init /\ [][Next]_<<fate, delivered>>
=============================================================================
