----------------------------- MODULE MCGateway -----------------------------
(* A small instance of Gateway for TLC: one upstream of each kind. *)
EXTENDS Gateway

CONSTANTS web, pipe, vault

MCOrder == <<web, pipe, vault>>
=============================================================================
