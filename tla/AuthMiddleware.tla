---------------------------- MODULE AuthMiddleware ----------------------------
(***************************************************************************)
(* middleware/auth_middleware.py: what becomes of a request before its     *)
(* handler is called.                                                      *)
(*                                                                         *)
(* A time is a number of seconds.  A header is what Authorization holds:   *)
(* nothing, something that is not two words, another scheme than Bearer,   *)
(* or a token, whose signature and form are in order or not and which may  *)
(* carry an exp.                                                           *)
(***************************************************************************)
EXTENDS Integers

CONSTANTS
  PublicPaths,  (* public_paths, which are served to anyone                  *)
  Offset        (* how far the host's local time is ahead of UTC             *)

ASSUME AuthAssumption == Offset \in Int

NoExpiry == -1

HeaderType ==
  [form : {"absent", "malformed", "other", "bearer"}, sound : BOOLEAN, exp : Nat \cup {NoExpiry}]

-----------------------------------------------------------------------------
(* jwt.decode accepts the token: sound, and exp, if any, is to come. *)
Decodes(h, now) == h.sound /\ (h.exp # NoExpiry => now < h.exp)

(* datetime.utcnow().timestamp(): the time is read in UTC but taken for    *)
(* local time.                                                             *)
Apparent(now) == now - Offset

(* JWTVerifier.verify_token returns the payload. *)
verify_token(h, now) ==
  /\ Decodes(h, now)
  /\ h.exp # NoExpiry => Apparent(now) <= h.exp

(* How dispatch goes on: the handler is called for the token's user or for *)
(* no user, or 401 is answered.                                            *)
dispatch(path, h, now) ==
  IF h.form = "bearer" /\ verify_token(h, now) THEN "user"
  ELSE IF path \in PublicPaths THEN "anonymous"
  ELSE "refused"
=============================================================================
