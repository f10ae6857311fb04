---------------------------- MODULE MCRateLimiter ----------------------------
(***************************************************************************)
(* Two workers serve one client; a limit of two requests in a window of    *)
(* three ticks, so that a window can begin, fill, refuse and end while the *)
(* other worker still holds an EXPIRE of the window before.                *)
(***************************************************************************)
EXTENDS RateLimiter
===============================================================================
