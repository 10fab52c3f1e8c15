---------------------------- MODULE MCItemStore ----------------------------
(* A chest of two slots and one of a single slot.                          *)
EXTENDS ItemStore, TLC

CONSTANTS big, small

MCChests == {big, small}
MCSize == [c \in MCChests |-> IF c = big THEN 2 ELSE 1]
=============================================================================
