-------------------------- MODULE Planner_proofs --------------------------
(***************************************************************************)
(* What a decision of the planner says about the baseline and the two      *)
(* entries it was made from, for every baseline, entry and policy.         *)
(***************************************************************************)
EXTENDS Planner, TLAPS

\* What makes decision d right for baseline b and entries l and r: existing
\* data is replaced or removed only in an initialized root, where the other
\* side has moved on and this one is as the baseline has it; a path is passed
\* over only if it is as recorded, and recorded as in sync only with bytes
\* that were compared.
Justified(d, i, b, l, r, e) ==
  /\ d \in Decisions
  /\ d.kind = "ensure-remote" =>
       l # Absent /\ (r = Absent \/ (i /\ RemoteEquivalent(b.remote, r)))
  /\ d.kind = "ensure-local" =>
       r # Absent /\ (l = Absent \/ (i /\ LocalEquivalent(b.local, l)))
  /\ d.kind = "delete-remote" =>
       i /\ l = Absent /\ r # Absent /\ RemoteEquivalent(b.remote, r)
  /\ d.kind = "delete-local" =>
       i /\ r = Absent /\ l # Absent /\ LocalEquivalent(b.local, l)
  /\ d.kind = "noop" => Unchanged(b, l, r)
  /\ d.kind = "drop-baseline" => l = Absent /\ r = Absent
  /\ d.kind = "commit-baseline" =>
       /\ l # Absent /\ r # Absent /\ l.kind = r.kind
       /\ l.kind = "dir" \/ e = "equal"
  /\ d.kind = "compare-content" => e = "unknown" /\ l # Absent /\ r # Absent
  /\ d.kind = "conflict" => d.conflict \in ConflictKinds /\ (l # Absent \/ r # Absent)

\* Every decision of the planner is justified.
LEMMA PlanPathJustified ==
  ASSUME NEW i \in BOOLEAN, NEW b, NEW l, NEW r, NEW e \in Evidence
  PROVE  Justified(PlanPath(i, b, l, r, e), i, b, l, r, e)
<1> DEFINE Good(d) == Justified(d, i, b, l, r, e)
<1>1. l # Absent \/ r # Absent => \A k \in ConflictKinds : Good(Conflict(k))
  BY DEF Justified, Conflict, Decisions, DecisionKinds, ExternalKinds, ConflictKinds
<1>2. /\ Unchanged(b, l, r) => Good(Decide("noop"))
      /\ l = Absent /\ r = Absent => Good(Decide("drop-baseline"))
      /\ e = "unknown" /\ l # Absent /\ r # Absent => Good(Decide("compare-content"))
      /\ /\ l # Absent /\ r # Absent /\ l.kind = r.kind
         /\ l.kind = "dir" \/ e = "equal"
         => Good(Decide("commit-baseline"))
  BY DEF Justified, Decide, Decisions, DecisionKinds, ExternalKinds
<1>3. /\ l # Absent /\ (r = Absent \/ (i /\ RemoteEquivalent(b.remote, r)))
           => Good(Decide("ensure-remote"))
      /\ r # Absent /\ (l = Absent \/ (i /\ LocalEquivalent(b.local, l)))
           => Good(Decide("ensure-local"))
      /\ i /\ l = Absent /\ r # Absent /\ RemoteEquivalent(b.remote, r)
           => Good(Decide("delete-remote"))
      /\ i /\ r = Absent /\ l # Absent /\ LocalEquivalent(b.local, l)
           => Good(Decide("delete-local"))
  BY DEF Justified, Decide, Decisions, DecisionKinds, ExternalKinds
<1> HIDE DEF Good
<1>4. ASSUME l # Absent, r # Absent, l.kind = r.kind, NEW k \in ConflictKinds
      PROVE  Good(PlanFilePair(l, r, k, e))
  BY <1>1, <1>2, <1>4 DEF PlanFilePair, PlanContentConvergence, Evidence
<1>5. CASE ~i
  <2>1. b = EmptyBaseline /\ l = Absent /\ r = Absent => Unchanged(b, l, r)
    BY DEF EmptyBaseline, Unchanged, LocalEquivalent, RemoteEquivalent
  <2>2. b = EmptyBaseline \/ l # Absent \/ r # Absent => Good(PlanInitial(l, r, e))
    BY <1>1, <1>2, <1>3, <1>4, <2>1 DEF PlanInitial, ConflictKinds
  <2> QED  BY <1>2, <1>5, <2>2 DEF PlanPath, PlanPairing, Good
<1>6. CASE i
  <2>1. RemoteEquivalent(b.remote, r) => Good(PlanLocalOnlyChange(l, r))
    BY <1>2, <1>3, <1>6 DEF PlanLocalOnlyChange
  <2>2. LocalEquivalent(b.local, l) => Good(PlanRemoteOnlyChange(l, r))
    BY <1>2, <1>3, <1>6 DEF PlanRemoteOnlyChange
  <2>3. ~KindMismatch(b, l, r) => Good(PlanBothChanged(b, l, r, e))
    BY <1>1, <1>2, <1>4 DEF PlanBothChanged, KindMismatch, ConflictKinds
  <2>4. ~KindMismatch(b, l, r) /\ l # Absent /\ r # Absent /\ l.kind = "dir"
          => Good(Decide("commit-baseline"))
    BY <1>2 DEF KindMismatch
  <2>5. Good(PlanThreeWay(b, l, r, e))
    BY <1>1, <1>2, <2>1, <2>2, <2>3, <2>4
       DEF PlanThreeWay, KindMismatch, Unchanged, ConflictKinds
  <2> QED  BY <1>6, <2>5 DEF PlanPath, Good
<1> QED  BY <1>5, <1>6 DEF Good

\* What the comparison of a path's bytes turns the decision d into.
Resolves(d, resolved) ==
  IF d.kind = "compare-content" THEN resolved.kind \in {"commit-baseline", "conflict"}
                                ELSE resolved = d

\* A comparison decides its path, and has no part in any other decision.
LEMMA EvidenceResolves ==
  ASSUME NEW i \in BOOLEAN, NEW b, NEW l, NEW r, NEW e \in {"equal", "different"}
  PROVE  Resolves(PlanPath(i, b, l, r, "unknown"), PlanPath(i, b, l, r, e))
<1>1. ASSUME NEW k
      PROVE  Resolves(PlanFilePair(l, r, k, "unknown"), PlanFilePair(l, r, k, e))
  BY DEF Resolves, PlanFilePair, PlanContentConvergence, Decide, Conflict
<1>2. ASSUME NEW d PROVE d.kind # "compare-content" => Resolves(d, d)
  BY DEF Resolves
<1>3. /\ \A k : Decide(k).kind = k
      /\ \A k : Conflict(k).kind = "conflict"
  BY DEF Decide, Conflict
<1>4. Resolves(PlanInitial(l, r, "unknown"), PlanInitial(l, r, e))
  BY <1>1, <1>2, <1>3 DEF PlanInitial
<1>5. Resolves(PlanBothChanged(b, l, r, "unknown"), PlanBothChanged(b, l, r, e))
  BY <1>1, <1>2, <1>3 DEF PlanBothChanged
<1>6. Resolves(PlanLocalOnlyChange(l, r), PlanLocalOnlyChange(l, r))
  BY <1>3 DEF Resolves, PlanLocalOnlyChange
<1>7. Resolves(PlanRemoteOnlyChange(l, r), PlanRemoteOnlyChange(l, r))
  BY <1>3 DEF Resolves, PlanRemoteOnlyChange
<1>8. Resolves(PlanThreeWay(b, l, r, "unknown"), PlanThreeWay(b, l, r, e))
  BY <1>2, <1>3, <1>5, <1>6, <1>7 DEF PlanThreeWay
<1>9. Resolves(PlanPairing(b, l, r, "unknown"), PlanPairing(b, l, r, e))
  BY <1>2, <1>3, <1>4 DEF PlanPairing
<1> QED  BY <1>8, <1>9 DEF PlanPath

\* The loop around the content comparisons (cycle.go, runRootCycle): once every
\* path that asks for a comparison has its evidence, planning again asks for
\* none, proposes the same deletes, and passes the mass-delete gate if the
\* first plan did.  So the loop ends after one round, and the gate that it
\* evaluates a second time has nothing new to say.
THEOREM OneComparisonRound ==
  ASSUME NEW i \in BOOLEAN, NEW b, NEW l, NEW r, NEW evidence,
         \A p \in DOMAIN b :
           IF PlanPath(i, b[p], l[p], r[p], "unknown").kind = "compare-content"
             THEN evidence[p] \in {"equal", "different"}
             ELSE evidence[p] = "unknown"
  PROVE  LET first  == PlanFullSnapshot(i, b, l, r, [p \in DOMAIN b |-> "unknown"])
             second == PlanFullSnapshot(i, b, l, r, evidence)
         IN /\ \A p \in DOMAIN b : second[p].kind # "compare-content"
            /\ \A p \in DOMAIN b : first[p].kind # "compare-content" => second[p] = first[p]
            /\ ProposedDeletes(second) = ProposedDeletes(first)
            /\ PlanBlocked(i, b, second) <=> PlanBlocked(i, b, first)
<1> DEFINE first  == PlanFullSnapshot(i, b, l, r, [p \in DOMAIN b |-> "unknown"])
           second == PlanFullSnapshot(i, b, l, r, evidence)
           Deletes(plan) == {p \in DOMAIN plan : plan[p].kind \in DeleteKinds}
<1>1. /\ DOMAIN first = DOMAIN b /\ DOMAIN second = DOMAIN b
      /\ \A p \in DOMAIN b : first[p] = PlanPath(i, b[p], l[p], r[p], "unknown")
      /\ \A p \in DOMAIN b : second[p] = PlanPath(i, b[p], l[p], r[p], evidence[p])
  BY DEF PlanFullSnapshot
<1> HIDE DEF first, second
<1>2. ASSUME NEW p \in DOMAIN b
      PROVE  IF first[p].kind = "compare-content"
               THEN second[p].kind \in {"commit-baseline", "conflict"}
               ELSE second[p] = first[p]
  <2>1. CASE first[p].kind = "compare-content"
    <3>1. evidence[p] \in {"equal", "different"}
      BY <1>1, <2>1
    <3>2. Resolves(PlanPath(i, b[p], l[p], r[p], "unknown"),
                   PlanPath(i, b[p], l[p], r[p], evidence[p]))
      BY <3>1, EvidenceResolves
    <3> QED  BY <1>1, <2>1, <3>2 DEF Resolves
  <2>2. CASE first[p].kind # "compare-content"
    BY <1>1, <2>2
  <2> QED  BY <2>1, <2>2
<1>3. Deletes(first) = Deletes(second)
  BY <1>1, <1>2 DEF DeleteKinds
<1>4. ProposedDeletes(first) = ProposedDeletes(second)
  BY <1>3 DEF ProposedDeletes
<1>5. PlanBlocked(i, b, second) <=> PlanBlocked(i, b, first)
  BY <1>4 DEF PlanBlocked
<1>6. \A p \in DOMAIN b : second[p].kind # "compare-content"
  BY <1>2
<1> QED  BY <1>2, <1>4, <1>5, <1>6 DEF first, second
=============================================================================
