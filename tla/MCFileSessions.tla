-------------------------- MODULE MCFileSessions --------------------------
(* Two gunicorn workers that serve one request each, or the threads of one *)
(* process, as in debug mode.                                              *)
EXTENDS FileSessions, TLC

CONSTANTS one, two

Gunicorn == (one :> 1) @@ (two :> 1)
Debug == (one :> 2) @@ (two :> 0)
Servers == {Gunicorn, Debug}
=============================================================================
