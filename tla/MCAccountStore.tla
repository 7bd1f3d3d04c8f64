--------------------------- MODULE MCAccountStore ---------------------------
\* Names, processes and credentials are interchangeable.
EXTENDS AccountStore, TLC

Symmetry == Permutations(Procs) \cup Permutations(Names) \cup Permutations(Creds)

\* What a step or a property reads: nothing of the secrets of a tainted name, no
\* credential once it is stored, no staleness when all is tainted.
Local(p) ==
  LET hidden == proc[p].name \in tainted IN
  [proc[p] EXCEPT
     !.cred = IF hidden \/ proc[p].at \in {"open", "reopen", "write", "replace"}
              THEN None ELSE @,
     !.got = IF hidden THEN {h \in Halves : @[h] = "given"} ELSE @,
     !.stale = @ /\ tainted # Names]

Seen ==
  <<file, tmp, tainted, cut \ tainted, {p \in met : proc[p].name \notin tainted}, robbed,
    [n \in Names |-> IF n \in tainted THEN None ELSE keyring[n]],
    [p \in Procs |-> Local(p)]>>
=============================================================================
