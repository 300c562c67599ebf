---------------------------- MODULE MCWSPresence ----------------------------
(* Two users: one with two devices, one with a single one.                 *)
EXTENDS WSPresence

CONSTANTS alice, bob, a1, a2, b1

MCUsers == {alice, bob}
MCSockets == {a1, a2, b1}
MCOwner == [p \in MCSockets |-> IF p = b1 THEN bob ELSE alice]

=============================================================================
