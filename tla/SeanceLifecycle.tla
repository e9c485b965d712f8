-------------------------- MODULE SeanceLifecycle --------------------------
(***************************************************************************)
(* What a reader of the tables seances and rapports_prof may rely on,      *)
(* whatever requests race: a séance is started or reported missed once,    *)
(* a started one ends once and for good, a report is filed at most once    *)
(* for a séance that exists, and a deletion takes the report along.        *)
(* Module Seances is shown to implement this one.                          *)
(***************************************************************************)

CONSTANT SeanceIds

VARIABLES phase,  \* phase[s]: where séance s is in its life
          filed   \* the séances that have a report

vars == <<phase, filed>>

Phases == {"absent", "running", "ended", "missed", "deleted"}

TypeOK ==
  /\ phase \in [SeanceIds -> Phases]
  /\ filed \in SUBSET SeanceIds

Init ==
  /\ phase = [s \in SeanceIds |-> "absent"]
  /\ filed = {}

\* A séance comes into being running, or as the trace of a missed segment.
Appear(s, p) ==
  /\ phase[s] = "absent"
  /\ phase' = [phase EXCEPT ![s] = p]
  /\ UNCHANGED filed

\* The teacher ends one séance, or the lazy cron ends several at once.
End(S) ==
  /\ \A s \in S : phase[s] = "running"
  /\ phase' = [s \in SeanceIds |-> IF s \in S THEN "ended" ELSE phase[s]]
  /\ UNCHANGED filed

File(s) ==
  /\ phase[s] \in {"running", "ended", "missed"}
  /\ s \notin filed
  /\ filed' = filed \cup {s}
  /\ UNCHANGED phase

\* The séances of a teacher's account or of a program session, and their reports, go with it.
Delete(S) ==
  /\ \A s \in S : phase[s] \in {"running", "ended", "missed"}
  /\ phase' = [s \in SeanceIds |-> IF s \in S THEN "deleted" ELSE phase[s]]
  /\ filed' = filed \ S

Next ==
  \/ \E s \in SeanceIds : Appear(s, "running") \/ Appear(s, "missed") \/ File(s)
  \/ \E S \in SUBSET SeanceIds : End(S) \/ Delete(S)

Spec == Init /\ [][Next]_vars
=============================================================================
