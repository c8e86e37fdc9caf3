------------------------------ MODULE MCReports ------------------------------
(***************************************************************************)
(* The grammars that put the constructs together, with the table of what   *)
(* they leave in an error report.                                          *)
(***************************************************************************)
EXTENDS MCConstructs, Reports

\* A grammar leaves the same wherever a text stands, but for the positions.
Written(h) == [pos |-> h.pos, traces |-> <<>> \o h.traces]
RECURSIVE Leaving(_, _, _, _), LeavingFrom(_, _, _, _, _)
Leaving(n, mode, s, p) ==
  Written(LeavesGiven(n, mode, s, p,
    LeavingFrom(n, BeginsAs(n, mode, s, p), BeginsWith(n, mode, s, p), s, p),
    InContext(Own(Forwarded(n), p), Leaving(Forwarded(n), mode, s, p)),
    Leaving(n, mode, s, Reads(Kids(n)[1], s, p).end)))
LeavingFrom(n, mode, i, s, p) ==
  IF i > Len(Kids(n)) THEN EmptyHistory
  ELSE Joined(InContext(Own(Kids(n)[i], p), Leaving(Kids(n)[i], mode, s, p)),
              IF ~GoesOn(n, mode, i, s, p) THEN EmptyHistory
              ELSE LeavingFrom(n, mode, i + 1, s, GoesOnAt(n, mode, i, s, p)))

Shifted(h, p) ==
  IF h = EmptyHistory THEN h
  ELSE [pos |-> h.pos + p,
        traces |-> [t \in DOMAIN h.traces |->
          [h.traces[t] EXCEPT
            !.context = [c \in DOMAIN @ |-> [@[c] EXCEPT !.pos = @ + p]]]]]
LeavesTable ==
  Explicit([t \in Remainders |->
    Explicit([b \in MCNode \X Modes |-> Leaving(b[1], b[2], t, 0)])])
Branching == {b \in MCNode \X Modes \X (1..6) :
                Branches(b[1], b[2]) /\ b[3] <= Len(Kids(b[1])) + 1}
LeavesFromTable ==
  Explicit([t \in Remainders |->
    Explicit([b \in Branching |-> Written(LeavingFrom(b[1], b[2], b[3], t, 0))])])
MCLeaves(n, mode, s, p) ==
  LET t == Remains(s, p)
  IN Shifted(LeavesTable[t][<<n, mode>>], p)
MCLeavesFrom(n, mode, i, s, p) ==
  LET t == Remains(s, p)
  IN Shifted(LeavesFromTable[t][<<n, mode, i>>], p)
=============================================================================
