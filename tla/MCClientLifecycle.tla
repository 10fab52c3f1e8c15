------------------------- MODULE MCClientLifecycle -------------------------
(* Connections of one role: a turtle that reconnects, or several.          *)
EXTENDS ClientLifecycle

CONSTANTS crafter

MCRoles == {crafter}
MCRoleOf == [c \in Conns |-> crafter]
=============================================================================
