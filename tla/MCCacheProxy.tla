---------------------------- MODULE MCCacheProxy ----------------------------
(***************************************************************************)
(* Small instances of CacheProxy.                                          *)
(***************************************************************************)
EXTENDS CacheProxy

\* Two requests to one process and one to another.
MCHome == [r \in Request |-> IF r = "r3" THEN "q" ELSE "p"]

\* The one with two may be shut down, killed, or killed while it shuts down.
MCEnds == [p \in Process |-> IF p = "p" THEN {"shutdown", "exit"} ELSE {}]

\* Where locks exclude nobody no promise depends on the kind of key.
MCCases == {<<"unix", "artifact">>, <<"unix", "metadata">>, <<"windows", "artifact">>}
=============================================================================
