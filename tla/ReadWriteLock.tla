---------------------------- MODULE ReadWriteLock ----------------------------
(***************************************************************************)
(* What pkg/filelock promises the callers of WithExclusive and WithShared: *)
(* a callback runs alone, or with other shared callbacks only, and a call  *)
(* may come back without having run it.                                    *)
(***************************************************************************)
CONSTANT Caller

VARIABLE call   \* what each caller is doing: "out", or its mode and stage

Mode == {"shared", "exclusive"}
Stage == {"wanted", "held"}
Out == [mode |-> "none", stage |-> "out"]
Wanted(mode) == [mode |-> mode, stage |-> "wanted"]
Held(mode) == [mode |-> mode, stage |-> "held"]

Init == call = [c \in Caller |-> Out]

Ask(c, mode) ==
  /\ call[c] = Out
  /\ call' = [call EXCEPT ![c] = Wanted(mode)]

Acquire(c, mode) ==
  /\ call[c] = Wanted(mode)
  /\ \A d \in Caller \ {c} :
       call[d].stage = "held" => mode = "shared" /\ call[d].mode = "shared"
  /\ call' = [call EXCEPT ![c] = Held(mode)]

\* The call returns: its callback has run, or it gave up waiting.
Leave(c) ==
  /\ call[c] # Out
  /\ call' = [call EXCEPT ![c] = Out]

Next == \E c \in Caller : Leave(c) \/ \E mode \in Mode : Ask(c, mode) \/ Acquire(c, mode)

Spec == Init /\ [][Next]_call
=============================================================================
