------------------------------- MODULE LogQuery -------------------------------
(***************************************************************************)
(* What a caller of BinarySearchQuerier.query_logs may rely on: one answer *)
(* or one error, and an answer lists the logs of the range in block order, *)
(* each block once, apart from blocks that some node did not list before.  *)
(***************************************************************************)
EXTENDS Integers

CONSTANTS
  First, Last,  (* the range asked for                                       *)
  MayLack       (* the blocks whose logs a node may not list                 *)

VARIABLES
  outcome,      (* how the query has ended, if it has                        *)
  got,          (* the blocks whose logs were returned, in order             *)
  lacking       (* the blocks that were left out of an answer so far         *)

vars == <<outcome, got, lacking>>

(* s lists the elements of S in ascending order. *)
Lists(s, S) ==
  /\ {s[i] : i \in DOMAIN s} = S
  /\ \A i, j \in DOMAIN s : i < j => s[i] < s[j]

(* The blocks nodes leave out in a step; an abandoned part of the query    *)
(* may meet more of them after the query has ended.                        *)
MoreLacking ==
  /\ lacking \subseteq lacking'
  /\ lacking' \subseteq lacking \cup MayLack

Init == outcome = "pending" /\ got = <<>> /\ lacking = {}

Omit == MoreLacking /\ UNCHANGED <<outcome, got>>

Answer ==
  /\ outcome = "pending"
  /\ outcome' = "answered"
  /\ MoreLacking
  /\ \E gone \in SUBSET lacking' : Lists(got', (First..Last) \ gone)

Raise ==
  /\ outcome = "pending"
  /\ outcome' \in {"failed", "exhausted", "cancelled"}
  /\ UNCHANGED <<got, lacking>>

Next == Omit \/ Answer \/ Raise

Spec == Init /\ [][Next]_vars /\ WF_vars(Raise \/ Answer)
=============================================================================
