------------------------------- MODULE MCPool -------------------------------
(* pgxpool opens four connections unless POSTGRES_URL says otherwise       *)
(* (cmd/main.go:67) or there are more processors.                          *)
EXTENDS Pool
=============================================================================
