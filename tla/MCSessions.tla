----------------------------- MODULE MCSessions -----------------------------
(***************************************************************************)
(* Two requests at a time, and up to four sessions: two logins of which    *)
(* each is refreshed once, or any other way to use them up.                *)
(***************************************************************************)
EXTENDS Sessions
=============================================================================
