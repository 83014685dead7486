------------------------------ MODULE MCAccounts ------------------------------
(* The administrator and one user, the default workspace and one more; writes  *)
(* that overlap, writes that do not, and the management of two keys.           *)
EXTENDS AccountsProperties

MCWorlds == {{}, {"serial"}, {"serial", "quiet"}, {"keys"}}
=============================================================================
