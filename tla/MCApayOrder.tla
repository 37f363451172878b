----------------------------- MODULE MCApayOrder -----------------------------
(* Instance of ApayOrder for TLC. *)
EXTENDS ApayOrder

CONSTANT h1
=============================================================================
