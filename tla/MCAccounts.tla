----------------------------- MODULE MCAccounts -----------------------------
(***************************************************************************)
(* Three usernames, of three to five bytes, so that payloads end at every  *)
(* place of a group of three and hold the characters + and /; two emails   *)
(* and passwords, so that a registration may repeat either, both or        *)
(* neither; a lifetime of two seconds of three ticks, so that tokens are   *)
(* issued and used at every part of a second; an int of 15 bits, which     *)
(* overflows within two bytes, as one of 32 does within five.              *)
(***************************************************************************)
EXTENDS Accounts, TLC

MCUsername == {<<97, 98, 62>>, <<97, 98, 63, 100>>, <<97, 195, 190, 98, 97>>}

MCJson == [c \in PayloadClaims |-> c.username \o <<c.user_id, c.iat, c.exp>>]

Symmetry == Permutations(Email) \cup Permutations(Password)
=============================================================================
