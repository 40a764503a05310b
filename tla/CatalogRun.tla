----------------------------- MODULE CatalogRun -----------------------------
(***************************************************************************)
(* The run command with the test catalog: Plan is TestCatalog's Generate   *)
(* and CaseBefore its CaseIdBefore.  What the plan of a project promises.  *)
(***************************************************************************)
EXTENDS TestCatalog, RunCommand

ASSUME ProjectsAssumption ==
  \A w \in {v \in Worlds : Readable(v)} :
    /\ IsSeq(w.config.skip_globally) /\ IsSeq(Files(w))
    /\ \A i \in DOMAIN Files(w) : EndpointOK(Files(w)[i].endpoint)

\* The plan is what the catalog generates.
ASSUME PlanAssumption ==
  \A w \in {v \in Worlds : Readable(v)} :
    PlanOf(w) = Generate({r.endpoint : r \in Loaded(Files(w))}, w.config.skip_globally)

\* No two cases of an endpoint have the same id: a report groups the attempts of
\* a case by it (the ordinals of the boundary battery are computed, not counted).
CaseIdsUnique ==
  phase = "planned" =>
    Cardinality({ <<c.endpoint, c.kind, c.ordinal>> : c \in ToSet(plan.cases) }) = Len(plan.cases)

\* A boundary case sends a value the constraint admits if it is the inside one,
\* and one it rejects if it is the outside one; otherwise the verdict that
\* expects 2xx or 400 of it is wrong.
BoundariesStraddle ==
  phase = "planned" => \A c \in ToSet(plan.cases) : c.kind = "boundary_battery" =>
    LET e == EndpointOf(c)
        f == CHOOSE g \in ToSet(FieldsOf(e)) : g.path = c.what
    IN  Satisfies(c.bound[3], c.bound[1], f.limits[c.bound[1]]) <=> c.bound[2] = "inside"

\* A case the generators made and the plan lacks is accounted for by a warning
\* that names its endpoint or the global token that matched it.
DropsAreWarned ==
  phase = "planned" =>
    \A r \in endpoints : \A c \in ToSet(RawCases(r.endpoint)) \ ToSet(plan.cases) :
      \E w \in plan.warnings :
        \/ w[1] = "skipped" /\ w[2] \in {0, c.endpoint} /\ MatchesToken(c, w[3])
        \/ w[1] = "pair" /\ w[2] = c.endpoint /\ c.kind = "head_get_parity"

\* Whatever markers are asked for and confirmed, a production environment gets
\* no request that may write, except for endpoints declared prod_safe.
ProdSendsOnlyReads ==
  phase = "open" /\ world.env.prod =>
    \A c \in ToSet(mine) : Sends(EndpointOf(c), c) \subseteq Reads \/ EndpointOf(c).prod_safe

\* The plan of a project means what its reader takes it to mean: ids name one case,
\* boundary values lie on the side their case says, nothing is dropped silently
\* and production's selection only reads.
CatalogIsSound ==
  CaseIdsUnique /\ BoundariesStraddle /\ DropsAreWarned /\ ProdSendsOnlyReads
=============================================================================
