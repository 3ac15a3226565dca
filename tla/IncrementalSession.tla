------------------------- MODULE IncrementalSession -------------------------
(***************************************************************************)
(* The incremental analysis session of the compiler engine                 *)
(* (wrela-compiler/src/incremental.rs) with the two tracked producers it   *)
(* drives: CanonicalHirLowerer::lower_tracked (wrela-hir-lower) and        *)
(* CanonicalSemanticAnalyzer::{derive_change_set, analyze_tracked}         *)
(* (wrela-sema).  A session keeps the last complete revision and serves    *)
(* the next request from as much of it as it can show to be unchanged.     *)
(* The question is whether a warm answer is the answer a cold session      *)
(* would have given.                                                       *)
(*                                                                         *)
(* Data.  A source revision gives each declaration a content: the          *)
(* declarations it calls at run time, those it evaluates at compile time,  *)
(* a literal, whether it is public, and how many HIR records it lowers to. *)
(* Lowering a declaration depends on its own content, on its place in the  *)
(* dense HIR arenas, and through name resolution on what the files its     *)
(* file leads to expose.  The facts of an image depend on the declarations *)
(* its root leads to.                                                      *)
(***************************************************************************)
EXTENDS Naturals, FiniteSets, FiniteSetsExt

CONSTANTS
  Decls,        \* DeclarationIds, 1..n in arena order
  FileOf,       \* the file of each declaration
  Root,         \* the declaration of the requested image
  Sources,      \* the source revisions a client may submit
  Packages,     \* package graphs: [shape, id]
  Graphs,       \* source graph digests
  Idents,       \* semantic identities: compiler, target, profile, request, mode
  ImageIdents   \* those whose mode is AnalysisMode::Image

\* Declarations are dense and in the order of their files; a client submits
\* contents over them and names a root.
ASSUME SessionAssumption ==
  /\ Decls = 1..Cardinality(Decls)
  /\ FileOf \in [Decls -> Nat]
  /\ \A d, e \in Decls : d < e => FileOf[d] <= FileOf[e]
  /\ Root \in Decls
  /\ \A src \in Sources :
       /\ src = [d \in Decls |-> src[d]]
       /\ \A d \in Decls : src[d].calls \cup src[d].consts \subseteq Decls
  /\ ImageIdents \subseteq Idents

Files == {FileOf[d] : d \in Decls}
DeclsOf(f) == {d \in Decls : FileOf[d] = f}

VARIABLES
  state,    \* IncrementalAnalysisSession.state, NoState or a complete revision
  pc,       \* where the running analyze is
  req,      \* its request
  plan,     \* which producers it may reuse
  hir,      \* the HIR of this call, once lowered
  analysis, \* its semantic product
  outcome   \* how the last call ended

incVars == <<state, pc, req, plan, hir, analysis, outcome>>

NoState == [none |-> TRUE]
Nothing == [nothing |-> TRUE]

-----------------------------------------------------------------------------
(* What the sources mean *)

Refs(c) == c.calls \cup c.consts

\* The least set that holds start and, with an element, what next leads to from
\* it: where a loop ends that adds successors until nothing is new.
Closure(next, start) ==
  {x \in DOMAIN next :
     \A S \in SUBSET DOMAIN next :
       (start \subseteq S /\ \A y \in S : next[y] \subseteq S) => x \in S}

\* The files a file leads to in revision src, itself included.
FileUses(src, f) == {FileOf[e] : e \in UNION {Refs(src[d]) : d \in DeclsOf(f)}}
FilesFrom(src, f) == Closure([g \in Files |-> FileUses(src, g)], {f})

\* What name resolution sees of a declaration of another file.
Exposed(c) == [pub |-> c.pub, refs |-> Refs(c)]

\* The first record of a declaration in the dense arenas.
Base(src, d) == MapThenSumSet(LAMBDA e : src[e].size, {e \in Decls : e < d})
Size(src) == MapThenSumSet(LAMBDA e : src[e].size, Decls)

\* The HIR of one declaration as a cold lowering produces it.
LoweredDecl(src, d) ==
  [own   |-> src[d],
   base  |-> Base(src, d),
   bound |-> [e \in {e \in Decls : FileOf[e] \in FilesFrom(src, FileOf[d]) \ {FileOf[d]}} |->
                Exposed(src[e])]]

Programs == [src \in Sources |-> [d \in Decls |-> LoweredDecl(src, d)]]

\* LowerOutput: the program, the package graph it holds, the digest of the
\* source graph and the source revisions it was sealed with.
LowerCold(r) ==
  [program |-> Programs[r.src],
   packages |-> r.packages, graph |-> r.graph, revisions |-> r.src]

References(program) == [d \in Decls |-> Refs(program[d].own)]
Calls(program) == [d \in Decls |-> program[d].own.calls]

\* The facts of an image: what its root leads to.
Facts(program) ==
  [d \in Closure(References(program), {Root}) |-> program[d].own]
\* Origins of FunctionFacts: every function the image runs.
Functions(program) == Closure(Calls(program), {Root}) \ {Root}

\* A name of another file resolves only when it is public; otherwise the
\* image has errors and the analysis is not successful.
Complete(program) ==
  \A d \in Decls : \A e \in Refs(program[d].own) :
    FileOf[e] # FileOf[d] => program[e].own.pub

AnalyzeCold(h, r) ==
  [program |-> h.program, graph |-> r.graph, ident |-> r.ident, facts |-> Facts(h.program)]

-----------------------------------------------------------------------------
(* Deriving what changed: derive_hir_changes and affected_files *)

\* Files whose digest differs between the retained and the current revision.
DirectChanges(old, src) == {f \in Files : \E d \in DeclsOf(f) : old[d] # src[d]}

\* Mutant: only the files that name a changed file directly.
Dependents_OneRound(old, direct) ==
  direct \cup {f \in Files : FileUses(old, f) \cap direct # {}}

\* Mutant: the set starts empty and gathers the users only.
Dependents_UsersOnly(old, direct) ==
  {f \in Files : FileUses(old, f) \cap direct # {}}

\* The loop over the resolved uses of the retained HIR, to its fixed point.
Dependents(old, direct) ==
  Closure([g \in Files |-> {f \in Files : g \in FileUses(old, f)}], direct)

\* compatible_package_graphs and source_revision_shapes_match: the topology of
\* the packages and the path of every file.
CompatiblePackages(p, q) == p.shape = q.shape

\* Mutant: the mode of the request is not compared with the retained root.
SemanticIdentityMatches_AnyIdent(old, r) == r.ident \in ImageIdents

\* semantic_identity_matches: every field of the build identity but the source
\* graph, and an image mode that names the retained root.
SemanticIdentityMatches(old, r) ==
  old.analysis.ident = r.ident /\ r.ident \in ImageIdents

\* Mutant: the digest of the source graph stands for the sources.
IsExact_ByGraph(old, r) ==
  /\ old.hir.graph = r.graph
  /\ old.hir.packages = r.packages
  /\ SemanticIdentityMatches(old, r)

\* The request is the retained revision, to the last identity.
IsExact(old, r) ==
  /\ DirectChanges(old.revisions, r.src) = {}
  /\ old.hir.graph = r.graph
  /\ old.hir.packages = r.packages
  /\ SemanticIdentityMatches(old, r)

\* A plan whose semantic product is made afresh.
Whole(how) == [hir |-> how, semantic |-> FALSE, affected |-> {}]
Cold == Whole("cold")

\* How analyze serves a well-formed request: which HIR it takes and whether
\* the semantic product may be reused; "refuse" when the identities lie.
Plan(old, r) ==
  LET direct == DirectChanges(old.revisions, r.src)
      same   == old.hir.graph = r.graph
  IN  CASE old = NoState -> Cold
        [] old # NoState /\ ~CompatiblePackages(old.hir.packages, r.packages) -> Cold
        [] OTHER ->
             IF IsExact(old, r) THEN Whole("exact")
             ELSE IF direct = {}
             THEN IF ~same THEN Cold
                  ELSE IF old.hir.packages # r.packages
                       THEN Whole("refuse")
                       ELSE Whole("retained")
             ELSE IF same THEN Whole("refuse")
             ELSE [hir |-> "tracked", semantic |-> SemanticIdentityMatches(old, r),
                   affected |-> Dependents(old.revisions, direct)]

-----------------------------------------------------------------------------
(* The tracked producers *)

Reusable(affected) == {d \in Decls : FileOf[d] \notin affected}

\* Reused records keep their identities, so their declarations must still
\* begin where they began: install_reused_record refuses a gap, and a record
\* written over a fresh one is refused when the program is sealed.
ArenasAlign(old, r, affected) ==
  \A d \in Reusable(affected) : Base(old.revisions, d) = Base(r.src, d)

LowerTracked(old, r, affected) ==
  [LowerCold(r) EXCEPT !.program =
     [d \in Decls |-> IF d \in Reusable(affected) THEN old.hir.program[d]
                      ELSE Programs[r.src][d]]]

\* compatible_hir_graphs: the arenas of both programs have the same lengths.
CompatiblePrograms(old, r) == Size(old.revisions) = Size(r.src)

\* A literal payload edit inside a private helper that takes nothing.
LiteralOnly(p, c, d) ==
  /\ [c[d] EXCEPT !.own.lit = p[d].own.lit] = p[d]
  /\ ~p[d].own.pub
  /\ d # Root

\* Mutant: a changed declaration is taken not to reach its users.
AffectedDecls_NoUsers(p, c) ==
  LET changed == {d \in Decls : p[d] # c[d]}
  IN  IF \E d \in changed : ~LiteralOnly(p, c, d) THEN Decls ELSE changed

\* affected_declarations: everything, unless each edit is literal-only; then
\* the closure over the references of both programs.
AffectedDecls(p, c) ==
  LET changed == {d \in Decls : p[d] # c[d]}
      users == [e \in Decls |-> {d \in Decls : e \in Refs(p[d].own) \cup Refs(c[d].own)}]
  IN  IF \E d \in changed : ~LiteralOnly(p, c, d) THEN Decls ELSE Closure(users, changed)

\* Whether some retained semantic declaration is affected.
SemanticAffected(old, h) ==
  LET p == old.analysis.program
  IN  AffectedDecls(p, h.program) \cap ({Root} \cup Functions(p)) # {}

\* Whole-product reuse supports the minimum image, which runs no function.
Minimal(old) == Functions(old.analysis.program) = {}

\* The retained facts under the identities of the current build.
AnalyzeReused(old, h, r) ==
  [AnalyzeCold(h, r) EXCEPT !.facts = old.analysis.facts]

-----------------------------------------------------------------------------
(* The session *)

Request == [src : Sources, packages : Packages, graph : Graphs, ident : Idents]

IncInit ==
  /\ state = NoState
  /\ pc = "idle"
  /\ req = Nothing /\ plan = Cold
  /\ hir = Nothing /\ analysis = Nothing
  /\ outcome = "none"

\* Locals of a call are dropped when it returns; the request it answered stays
\* visible to the properties.
Return(how) ==
  /\ pc' = "idle"
  /\ outcome' = how
  /\ hir' = Nothing /\ analysis' = Nothing /\ plan' = Cold
  /\ req' = IF how = "ok" THEN req ELSE Nothing

\* analyze: identities and parsed revisions are validated and the change is
\* derived from the retained products, never from the caller.
BeginAnalysis(r) ==
  /\ pc = "idle"
  /\ req' = r
  /\ outcome' = "none"
  /\ plan' = Plan(state, r)
  /\ pc' = "planned"
  /\ UNCHANGED <<state, hir, analysis>>

\* A parsed file does not carry the digest of its source, or a limit is zero.
BeginRefused ==
  /\ pc = "idle"
  /\ Return("refused")
  /\ UNCHANGED state

\* Any poll of the cancellation callback or of a comparison meter ends the
\* call with an error.
GiveUp ==
  /\ pc # "idle"
  /\ Return("cancelled")
  /\ UNCHANGED state

RefuseIdentity ==
  /\ pc = "planned" /\ plan.hir = "refuse"
  /\ Return("refused")
  /\ UNCHANGED state

\* The retained products are the answer.
AnswerExact ==
  /\ pc = "planned" /\ plan.hir = "exact"
  /\ Return("ok")
  /\ UNCHANGED state

\* Mutant: the session takes the new HIR before the semantic product exists.
KeptWhileLowering_Early(h) ==
  state' = IF state = NoState THEN state ELSE [state EXCEPT !.hir = h, !.revisions = req.src]

\* Nothing is published before both products are sealed.
KeptWhileLowering(h) == state' = state

Lower ==
  /\ pc = "planned" /\ plan.hir \in {"cold", "retained", "tracked"}
  /\ plan.hir = "tracked" => ArenasAlign(state, req, plan.affected)
  /\ hir' = CASE plan.hir = "cold" -> LowerCold(req)
              [] plan.hir = "retained" -> state.hir
              [] plan.hir = "tracked" -> LowerTracked(state, req, plan.affected)
  /\ pc' = "lowered"
  /\ KeptWhileLowering(hir')
  /\ UNCHANGED <<req, plan, analysis, outcome>>

\* UnsupportedReuseShape or InvalidProgram: reused records moved.
LowerRefused ==
  /\ pc = "planned" /\ plan.hir = "tracked"
  /\ ~ArenasAlign(state, req, plan.affected)
  /\ Return("shape")
  /\ UNCHANGED state

AnalyzeFresh ==
  /\ pc = "lowered"
  /\ plan.semantic => CompatiblePrograms(state, req) /\ SemanticAffected(state, hir)
  /\ analysis' = AnalyzeCold(hir, req)
  /\ pc' = "analyzed"
  /\ UNCHANGED <<state, req, plan, hir, outcome>>

AnalyzeWarm ==
  /\ pc = "lowered" /\ plan.semantic
  /\ CompatiblePrograms(state, req)
  /\ ~SemanticAffected(state, hir)
  /\ Minimal(state)
  /\ analysis' = AnalyzeReused(state, hir, req)
  /\ pc' = "analyzed"
  /\ UNCHANGED <<state, req, plan, hir, outcome>>

\* derive_change_set: RequestMismatch when an arena changed its length.
AnalyzeMismatch ==
  /\ pc = "lowered" /\ plan.semantic
  /\ ~CompatiblePrograms(state, req)
  /\ Return("mismatch")
  /\ UNCHANGED state

\* UnsupportedReuseShape: the root is unaffected but the image is not minimal.
AnalyzeUnsupported ==
  /\ pc = "lowered" /\ plan.semantic
  /\ CompatiblePrograms(state, req)
  /\ ~SemanticAffected(state, hir)
  /\ ~Minimal(state)
  /\ Return("unsupported")
  /\ UNCHANGED state

\* Mutant: a partial semantic product is retained as well.
Publishable_Partial(a) == TRUE

\* analysis_output.successful()
Publishable(a) == Complete(a.program)

Incomplete ==
  /\ pc = "analyzed" /\ ~Publishable(analysis)
  /\ Return("incomplete")
  /\ UNCHANGED state

Commit ==
  /\ pc = "analyzed" /\ Publishable(analysis)
  /\ state' = [revisions |-> req.src, hir |-> hir, analysis |-> analysis]
  /\ Return("ok")

\* The engine restarts: a session is only memory.
Restart ==
  /\ state # NoState \/ pc # "idle"
  /\ state' = NoState
  /\ Return("none")

\* Mutant: the products of a snapshot are not compared with one another.
SnapshotFits_Unpaired(s) == s.versions /\ s.revisions = s.hir.revisions

\* validate_snapshot: versions and standard package, the revisions the HIR was
\* sealed with, and a semantic product of that same program and graph.
SnapshotFits(s) ==
  /\ s.versions
  /\ s.revisions = s.hir.revisions
  /\ s.analysis.program = s.hir.program
  /\ s.analysis.graph = s.hir.graph

\* Every product a producer can have sealed under an image identity.
Sealed ==
  {[hir |-> LowerCold(r), analysis |-> AnalyzeCold(LowerCold(r), r)] :
     r \in {r \in Request : r.ident \in ImageIdents /\ Complete(LowerCold(r).program)}}

\* A snapshot's fields are public: it may pair the HIR of one sealed product
\* with the semantic product of another, the revisions of either and any
\* versions.  A new session restores from it.
Restore ==
  /\ state = NoState /\ pc = "idle" /\ outcome = "none"
  /\ \E h, a \in Sealed, versions \in BOOLEAN : \E x \in {h, a} :
       LET s == [versions |-> versions, revisions |-> x.hir.revisions,
                 hir |-> h.hir, analysis |-> a.analysis]
       IN  IF SnapshotFits(s)
           THEN /\ state' = [revisions |-> s.revisions, hir |-> s.hir, analysis |-> s.analysis]
                /\ outcome' = "restored"
           ELSE /\ outcome' = "corrupt"
                /\ UNCHANGED state
  /\ UNCHANGED <<pc, req, plan, hir, analysis>>

Analyze ==
  \/ RefuseIdentity \/ AnswerExact \/ Lower \/ LowerRefused
  \/ AnalyzeFresh \/ AnalyzeWarm \/ AnalyzeMismatch \/ AnalyzeUnsupported
  \/ Incomplete \/ Commit

IncNext ==
  \/ \E r \in Request : BeginAnalysis(r)
  \/ BeginRefused
  \/ Analyze
  \/ GiveUp
  \/ Restart
  \/ Restore

IncSpec == IncInit /\ [][IncNext]_incVars

-----------------------------------------------------------------------------
(* Properties *)

\* A retained revision, the plan and the products of the running call have
\* their types; a call holds a product exactly when it has passed its producer.
IncrementalTypeOK ==
  /\ state = NoState \/ DOMAIN state = {"revisions", "hir", "analysis"}
  /\ pc \in {"idle", "planned", "lowered", "analyzed"}
  /\ req = Nothing \/ req \in Request
  /\ plan.hir \in {"cold", "exact", "refuse", "retained", "tracked"}
  /\ plan.affected \subseteq Files
  /\ plan.hir = "tracked" => state # NoState /\ plan.affected # {}
  /\ (hir # Nothing) <=> pc \in {"lowered", "analyzed"}
  /\ (analysis # Nothing) <=> pc = "analyzed"
  /\ outcome \in {"none", "ok", "refused", "cancelled", "incomplete", "shape",
                  "mismatch", "unsupported", "restored", "corrupt"}

\* What a session retains is what a cold session would have produced from the
\* retained revision: reuse through file dependents, reused HIR records, the
\* literal-only closure and restored snapshots never leave a stale record or a
\* stale fact behind (incremental.rs analyze, restore; affected_files;
\* affected_declarations).
WarmIsCold ==
  state # NoState =>
    LET r == [src |-> state.revisions, packages |-> state.hir.packages,
              graph |-> state.hir.graph, ident |-> state.analysis.ident]
    IN  /\ state.hir = LowerCold(r)
        /\ state.analysis = AnalyzeCold(LowerCold(r), r)
        /\ Complete(state.hir.program)

\* A successful answer is for the request: its sources, packages, source graph
\* and semantic identity, on the exact, retained, tracked and cold paths alike.
AnswerIsCurrent ==
  outcome = "ok" =>
    /\ state # NoState
    /\ state.revisions = req.src
    /\ state.hir.packages = req.packages /\ state.hir.graph = req.graph
    /\ state.analysis.ident = req.ident

\* The same with the types: what the running call holds, and what it answered.
AnswersHold == IncrementalTypeOK /\ AnswerIsCurrent

\* A call that has not succeeded leaves the retained revision as it was, so it
\* can be retried: cancellation, an exhausted meter, a refusal and an
\* incomplete image discard only locals (incremental.rs, comment on analyze).
PriorSurvives ==
  [][ (pc' # "idle" \/ outcome' \notin {"none", "ok", "restored"}) => state' = state ]_incVars
=============================================================================
