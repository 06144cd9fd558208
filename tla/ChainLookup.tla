----------------------------- MODULE ChainLookup -----------------------------
(***************************************************************************)
(* main.py: the dictionary _backtest_runners, which has each runner under  *)
(* the name and the id of its chain, and how requests look chains up.      *)
(*                                                                         *)
(* A runner is the place of its chain in the configuration.  Neither       *)
(* load_config nor _create_backtest_runners asks for distinct names.       *)
(***************************************************************************)
EXTENDS Naturals, Sequences

CONSTANTS
  Configured,   (* config.chains                                             *)
  Keys,         (* names and ids of chains, and what requests ask for        *)
  Lower         (* str.lower                                                 *)

ASSUME LookupAssumption ==
  /\ Configured \in Seq([name : Keys, id : Keys])
  /\ Lower \in [Keys -> Keys]

NoRunner == 0

KeysOf(i) == {Configured[i].name, Configured[i].id}

(* The chains that put a runner under key k, and the one that is left      *)
(* there: of later assignments the last stays.                             *)
Named(k) == {i \in DOMAIN Configured : k \in KeysOf(i)}

Runner(k) == CHOOSE i \in Named(k) : \A j \in Named(k) : j <= i

(* The chains with a key that is k but for its case, and the first such    *)
(* key in the order of the dictionary, which is that of first insertion.   *)
Alike(k) == {i \in DOMAIN Configured : \E key \in KeysOf(i) : Lower[key] = Lower[k]}

FirstAlike(k) ==
  LET i == CHOOSE i \in Alike(k) : \A j \in Alike(k) : i <= j
  IN  IF Lower[Configured[i].name] = Lower[k] THEN Configured[i].name ELSE Configured[i].id

(* The last loop, over the runners the dictionary still has. *)
InValues(k) ==
  {i \in DOMAIN Configured :
     /\ \E key \in KeysOf(i) : Runner(key) = i
     /\ Configured[i].id = k \/ Lower[Configured[i].name] = Lower[k]}

(* _find_backtest_runner: the key itself, a key like it, or a runner the  *)
(* dictionary has, though after the first two there is none left to find.  *)
find(k) ==
  IF Named(k) # {} THEN Runner(k)
  ELSE IF Alike(k) # {} THEN Runner(FirstAlike(k))
  ELSE IF InValues(k) # {} THEN CHOOSE i \in InValues(k) : TRUE
  ELSE NoRunner

(* The chains whose turn in _auto_submit_backtest goes to runner i. *)
TurnsOf(i) == {j \in DOMAIN Configured : Runner(Configured[j].name) = i}
=============================================================================
