------------------------------- MODULE MCKcp -------------------------------
(* Constants for model-checking Kcp. *)
EXTENDS Kcp

CONSTANTS p, q

\* Three messages, so that one that is lost, repeated or overtaken shows.
Messages == {p, q}
ThreeMessages == <<p, q, q>>
=============================================================================
