--------------------------- MODULE DiagnosticsProofs ---------------------------
(***************************************************************************)
(* Proofs about diagnostics: what is computed for the files of a module    *)
(* (ModuleRules and VersionConstraints), for every module, every set of    *)
(* constraints and every version, and which results the editor ends up     *)
(* showing (DiagnosticsPublish), for any documents, texts and tasks.       *)
(***************************************************************************)
EXTENDS ModuleRules, DiagnosticsPublish, QueueLemmas, FiniteSetTheorems

-----------------------------------------------------------------------------
(* The gate on versions.                                                   *)

LEMMA AtLeastTransitive ==
  ASSUME NEW u \in VersionKey, NEW v \in VersionKey, NEW w \in VersionKey,
         AtLeast(w, v), AtLeast(v, u)
  PROVE  AtLeast(w, u)
BY DEF VersionKey, AtLeast, Below

(* The keys are totally ordered: of two different ones one is below.       *)
LEMMA BelowIsTotal ==
  ASSUME NEW v \in VersionKey, NEW w \in VersionKey
  PROVE  Below(v, w) \/ Below(w, v) \/ v = w
BY DEF VersionKey, Below

LEMMA BelowAsymmetric ==
  ASSUME NEW v \in VersionKey, NEW w \in VersionKey
  PROVE  ~(Below(v, w) /\ Below(w, v)) /\ ~Below(v, v)
BY DEF VersionKey, Below

(* A constraint of a lower bound admits nothing below its version.         *)
LEMMA LowerBoundBinds ==
  ASSUME NEW c \in Constraint, c.op \in {"=", ">", ">=", "~>"},
         NEW v \in VersionKey, SatisfiesOne(c, v)
  PROVE  AtLeast(v, c.version)
<1>1. c.version \in VersionKey
  BY DEF Constraint
<1>2. CASE c.op = "="
  BY <1>1, <1>2, BelowAsymmetric DEF SatisfiesOne, AtLeast
<1>3. CASE c.op = ">"
  BY <1>1, <1>3, BelowAsymmetric DEF SatisfiesOne, AtLeast
<1>4. CASE c.op \in {">=", "~>"}
  BY <1>4 DEF SatisfiesOne, PessimisticMatches
<1>5. QED
  BY <1>2, <1>3, <1>4

(* The gate is sound for every set of constraints: a version it admits is  *)
(* no older than the threshold, pre-releases and `~>` included, although   *)
(* upper bounds, `!=` and the strictness of `>` are ignored.               *)
THEOREM GateAdmitsNoOlder ==
  ASSUME NEW cs \in SUBSET Constraint, cs # {}, NEW threshold \in VersionKey,
         Supports(cs, threshold), NEW v \in VersionKey, SatisfiesAll(cs, v)
  PROVE  AtLeast(v, threshold)
<1>1. PICK c \in cs : c.op \in {"=", ">", ">=", "~>"} /\ AtLeast(c.version, threshold)
  BY DEF Supports, LowerBounds
<1>2. c \in Constraint /\ c.version \in VersionKey
  BY DEF Constraint
<1>3. AtLeast(v, c.version)
  BY <1>1, <1>2, LowerBoundBinds DEF SatisfiesAll
<1>4. QED
  BY <1>1, <1>2, <1>3, AtLeastTransitive

-----------------------------------------------------------------------------
(* What was computed last is what the stored files report.                 *)
IInv ==
  /\ docs \in [Files -> [blocks : SUBSET Blocks, clean : BOOLEAN]]
  /\ diags = AllReported(docs)

LEMMA StepIInv == IInv /\ [RulesNext]_rulesVars => IInv'
<1> SUFFICES ASSUME IInv, [RulesNext]_rulesVars PROVE IInv'
  OBVIOUS
<1> USE DEF IInv, Set
<1>1. ASSUME NEW f \in Files, NEW b \in Blocks, Add(f, b) \/ Drop(f, b) PROVE IInv'
  <2>1. \/ docs' = [docs EXCEPT ![f].blocks = @ \cup {b}]
        \/ docs' = [docs EXCEPT ![f].blocks = @ \ {b}]
    BY <1>1 DEF Add, Drop
  <2>2. diags' = AllReported(docs')
    BY <1>1 DEF Add, Drop
  <2>3. QED
    BY <2>1, <2>2
<1>2. ASSUME NEW f \in Files, NEW b \in Blocks, NEW c \in Blocks, Rewrite(f, b, c) PROVE IInv'
  BY <1>2 DEF Rewrite
<1>3. ASSUME NEW f \in Config, NEW g \in Config, NEW b \in Blocks, Move(f, g, b) PROVE IInv'
  BY <1>3 DEF Move, Files, SameDir
<1>4. ASSUME NEW f \in Config, ToggleSyntax(f) PROVE IInv'
  BY <1>4 DEF ToggleSyntax, Files, SameDir
<1>5. CASE UNCHANGED rulesVars
  BY <1>5 DEF rulesVars
<1>6. QED
  BY <1>1, <1>2, <1>3, <1>4, <1>5 DEF RulesNext

(* Of all the rules only the gated one speaks of null resources.           *)
LEMMA OnlyGated ==
  ASSUME NEW d, NEW f, NEW facts, NEW code \in Reported(d, f, facts),
         code[1] = "deprecated_null_resource"
  PROVE  Supports(CoreConstraints(d), CoreThreshold)
<1>1. \A rule, blocks : code \in On(rule, blocks) => code[1] = rule
  BY DEF On
<1>2. /\ code # <<"syntax", "file">> /\ code \notin Undefined(d, f)
      /\ code \notin Unused(d, f, facts) /\ code \notin Untyped(d, f, facts)
  BY <1>1 DEF Undefined, Unused, Untyped
<1>3. /\ code \notin SensitiveOutput(d, f) /\ code \notin MissingTags(d, f)
      /\ code \notin DeprecatedProvider(d, f) /\ code \notin LockDrift(d, f)
  BY <1>1 DEF SensitiveOutput, MissingTags, DeprecatedProvider, LockDrift
<1>4. /\ code \notin VersionPresence(facts) /\ code \notin ProviderVersionPresence(d, f, facts)
      /\ code \notin UnusedProviders(d, f, facts)
  BY <1>1 DEF VersionPresence, ProviderVersionPresence, UnusedProviders
<1>5. code \in DeprecatedCore(d, f)
  BY <1>2, <1>3, <1>4, Zenon DEF Reported
<1>6. QED
  BY <1>5 DEF DeprecatedCore

(* Whatever is written into a module, a null_resource is called superseded *)
(* only when every admitted version of Terraform has its replacement.      *)
THEOREM SupersededOnlyByKnown == RulesSpec => []GateSound
<1>1. RulesInit => IInv
  BY DEF RulesInit, IInv
<1>2. IInv => GateSound
  <2> SUFFICES ASSUME IInv, NEW f \in Config, "deprecated_null_resource" \in RulesOf(f),
                      CoreConstraints(docs) # {},
                      NEW v \in Probes, SatisfiesAll(CoreConstraints(docs), v)
               PROVE  AtLeast(v, CoreThreshold)
    BY DEF GateSound
  <2>1. Supports(CoreConstraints(docs), CoreThreshold)
    BY OnlyGated DEF IInv, RulesOf, AllReported, SameDir
  <2>2. CoreConstraints(docs) \subseteq Constraint
    BY RulesAssumption DEF IInv, CoreConstraints, InModule, Of, Files
  <2>3. QED
    BY <2>1, <2>2, RulesAssumption, GateAdmitsNoOlder
<1>3. QED
  BY <1>1, <1>2, StepIInv, PTL DEF RulesSpec

-----------------------------------------------------------------------------
(* Two states of a module that differ in one file, in nothing that its     *)
(* fingerprint or the three unhashed attributes hold.                      *)
SameToPeers(d, e, f) ==
  /\ \A h \in Files \ {f} : e[h] = d[h]
  /\ Fingerprint(e[f]) = Fingerprint(d[f])
  /\ Unhashed(e[f]) = Unhashed(d[f])

SensitiveIn(doc) == {b.name : b \in {v \in Of(doc, "variable") : v.sensitive}}
ProvidersIn(doc) == UNION {ProviderOf(b) : b \in doc.blocks}
NamedIn(doc) == {<<b.block, b.name>> : b \in Of(doc, "resource") \cup Of(doc, "output")}

(* What the fingerprint and the unhashed attributes determine of a file.   *)
LEMMA HashedParts ==
  ASSUME NEW x, NEW y, Fingerprint(x) = Fingerprint(y), Unhashed(x) = Unhashed(y)
  PROVE  /\ Definitions(x) \cup NamedIn(x) = Definitions(y) \cup NamedIn(y)
         /\ References(x) = References(y)
         /\ TerraformBlocks(x) = TerraformBlocks(y)
         /\ SensitiveIn(x) = SensitiveIn(y)
         /\ Of(x, "provider") = Of(y, "provider") /\ Of(x, "call") = Of(y, "call")
BY DEF Fingerprint, Unhashed, SensitiveIn, NamedIn

LEMMA HashedTerraform ==
  ASSUME NEW x, NEW y, TerraformBlocks(x) = TerraformBlocks(y)
  PROVE  /\ Of(x, "terraform") = Of(y, "terraform")
         /\ Of(x, "required") = Of(y, "required")
<1>1. \A z : /\ Of(z, "terraform") = {b \in TerraformBlocks(z) : b.block = "terraform"}
            /\ Of(z, "required") = {b \in TerraformBlocks(z) : b.block = "required"}
  BY DEF Of, TerraformBlocks
<1>2. QED
  BY <1>1

LEMMA HashedNames ==
  ASSUME NEW x, NEW y, Definitions(x) \cup NamedIn(x) = Definitions(y) \cup NamedIn(y)
  PROVE  /\ Definitions(x) = Definitions(y)
         /\ \A p : (\E b \in Of(x, "resource") : b.name = p)
                    <=> (\E b \in Of(y, "resource") : b.name = p)
<1>1. \A z, kind, name :
        <<kind, name>> \in Definitions(z) \cup NamedIn(z) <=>
          \E b \in z.blocks : /\ b.block = kind /\ b.name = name
                              /\ kind \in Named \cup {"resource", "output"}
  BY DEF Definitions, NamedIn, Of
<1>2. \A z, kind, name :
        <<kind, name>> \in Definitions(z) <=>
          <<kind, name>> \in Definitions(z) \cup NamedIn(z) /\ kind \in Named
  <2> TAKE z, kind, name
  <2>1. <<kind, name>> \in Definitions(z) <=>
          \E b \in z.blocks : b.block = kind /\ b.name = name /\ kind \in Named
    BY DEF Definitions
  <2>2. <<kind, name>> \in Definitions(z) \cup NamedIn(z) /\ kind \in Named <=>
          \E b \in z.blocks : b.block = kind /\ b.name = name /\ kind \in Named
    BY <1>1
  <2>3. QED
    BY <2>1, <2>2, Zenon
<1>3. \A z : \A pair \in Definitions(z) : pair = <<pair[1], pair[2]>>
  BY DEF Definitions
<1>4. Definitions(x) = Definitions(y)
  <2>1. \A pair \in Definitions(x) : pair \in Definitions(y)
    BY <1>2, <1>3
  <2>2. \A pair \in Definitions(y) : pair \in Definitions(x)
    BY <1>2, <1>3
  <2>3. QED
    BY <2>1, <2>2, Zenon
<1>5. \A z, p : (\E b \in Of(z, "resource") : b.name = p)
               <=> <<"resource", p>> \in Definitions(z) \cup NamedIn(z)
  BY <1>1 DEF Of
<1>6. QED
  BY <1>4, <1>5

LEMMA HashedProviders ==
  ASSUME NEW x, NEW y, Fingerprint(x) = Fingerprint(y), Unhashed(x) = Unhashed(y)
  PROVE  ProvidersIn(x) = ProvidersIn(y)
<1>1. \A z, p : p \in ProvidersIn(z) <=>
        \/ \E b \in Of(z, "resource") : b.name = p
        \/ <<"data", p>> \in Definitions(z)
        \/ \E b \in Of(z, "provider") \cup Of(z, "call") : b.name = p
  <2> TAKE z, p
  <2>1. p \in ProvidersIn(z) <=>
          \E b \in z.blocks : b.block \in {"resource", "data", "provider", "call"} /\ b.name = p
    BY DEF ProvidersIn, ProviderOf
  <2>2. <<"data", p>> \in Definitions(z) <=> \E b \in z.blocks : b.block = "data" /\ b.name = p
    BY DEF Definitions, Named
  <2>3. QED
    BY <2>1, <2>2 DEF Of
<1>2. \A p : p \in ProvidersIn(x) <=> p \in ProvidersIn(y)
  <2> TAKE p
  <2>1. /\ Definitions(x) \cup NamedIn(x) = Definitions(y) \cup NamedIn(y)
        /\ Of(x, "provider") = Of(y, "provider") /\ Of(x, "call") = Of(y, "call")
    BY HashedParts, Zenon
  <2>2. /\ Definitions(x) = Definitions(y)
        /\ (\E b \in Of(x, "resource") : b.name = p) <=> (\E b \in Of(y, "resource") : b.name = p)
    <3>1. Definitions(x) \cup NamedIn(x) = Definitions(y) \cup NamedIn(y)
      BY <2>1
    <3>2. QED
      BY <3>1, HashedNames
  <2>3. /\ Of(x, "provider") \cup Of(x, "call") = Of(y, "provider") \cup Of(y, "call")
        /\ <<"data", p>> \in Definitions(x) <=> <<"data", p>> \in Definitions(y)
    BY <2>1, <2>2
  <2>4. QED
    BY <1>1, <2>2, <2>3, Zenon
<1>3. QED
  <2>1. \A z : ProvidersIn(z) = UNION {ProviderOf(b) : b \in z.blocks}
    BY DEF ProvidersIn
  <2>2. QED
    BY <1>2

(* What the module-wide questions are answered from.                       *)
LEMMA SameFacts ==
  ASSUME NEW d, NEW e, NEW f \in SameDir, SameToPeers(d, e, f)
  PROVE  \A h \in SameDir :
           /\ Definitions(e[h]) = Definitions(d[h]) /\ References(e[h]) = References(d[h])
           /\ TerraformBlocks(e[h]) = TerraformBlocks(d[h])
           /\ Of(e[h], "terraform") = Of(d[h], "terraform")
           /\ Of(e[h], "required") = Of(d[h], "required")
           /\ Of(e[h], "provider") = Of(d[h], "provider")
           /\ SensitiveIn(e[h]) = SensitiveIn(d[h]) /\ ProvidersIn(e[h]) = ProvidersIn(d[h])
<1> SUFFICES ASSUME NEW h \in SameDir, h = f
             PROVE  /\ Definitions(e[h]) = Definitions(d[h]) /\ References(e[h]) = References(d[h])
                    /\ TerraformBlocks(e[h]) = TerraformBlocks(d[h])
                    /\ Of(e[h], "terraform") = Of(d[h], "terraform")
                    /\ Of(e[h], "required") = Of(d[h], "required")
                    /\ Of(e[h], "provider") = Of(d[h], "provider")
                    /\ SensitiveIn(e[h]) = SensitiveIn(d[h]) /\ ProvidersIn(e[h]) = ProvidersIn(d[h])
  BY DEF SameToPeers, Files
<1>1. Fingerprint(e[h]) = Fingerprint(d[h]) /\ Unhashed(e[h]) = Unhashed(d[h])
  BY DEF SameToPeers
<1>2. QED
  BY <1>1, HashedParts, HashedNames, HashedTerraform, HashedProviders, Zenon

LEMMA SameModule ==
  ASSUME NEW d, NEW e, NEW f \in SameDir, SameToPeers(d, e, f)
  PROVE  /\ \A block \in {"terraform", "required", "provider"} : InModule(e, block) = InModule(d, block)
         /\ Referenced(e) = Referenced(d) /\ UsedProviders(e) = UsedProviders(d)
         /\ SensitiveVariables(e) = SensitiveVariables(d)
<1>1. /\ InModule(e, "terraform") = InModule(d, "terraform")
      /\ InModule(e, "required") = InModule(d, "required")
      /\ InModule(e, "provider") = InModule(d, "provider")
  BY SameFacts DEF InModule
<1>2. Referenced(e) = Referenced(d)
  BY SameFacts DEF Referenced
<1>3. UsedProviders(e) = UsedProviders(d)
  <2>1. \A s, p : p \in UsedProviders(s) <=> \E h \in SameDir : p \in ProvidersIn(s[h])
    BY DEF UsedProviders, ProvidersIn
  <2>2. \A p : p \in UsedProviders(e) <=> p \in UsedProviders(d)
    BY <2>1, SameFacts
  <2>3. QED
    BY <2>2 DEF UsedProviders
<1>4. SensitiveVariables(e) = SensitiveVariables(d)
  <2>1. \A s, n : n \in SensitiveVariables(s) <=> \E h \in SameDir : n \in SensitiveIn(s[h])
    BY DEF SensitiveVariables, SensitiveIn, InModule, Of
  <2>2. \A n : n \in SensitiveVariables(e) <=> n \in SensitiveVariables(d)
    BY <2>1, SameFacts
  <2>3. QED
    BY <2>2 DEF SensitiveVariables
<1>5. QED
  BY <1>1, <1>2, <1>3, <1>4

LEMMA SameAdapter ==
  ASSUME NEW d, NEW e, NEW f \in SameDir, SameToPeers(d, e, f), NEW g \in SameDir
  PROVE  Adapter(e, g) = Adapter(d, g)
<1>1. IsRoot(e) = IsRoot(d)
  BY RulesAssumption DEF IsRoot, SameToPeers, Files, SameDir
<1>2. IsApplyable(e) = IsApplyable(d)
  BY <1>1, SameModule DEF IsApplyable
<1>3. IsPrimary(e, g) = IsPrimary(d, g)
  BY SameFacts DEF IsPrimary
<1>4. WithVersion(e) = WithVersion(d) /\ HasRequiredVersion(e) = HasRequiredVersion(d)
  BY SameModule DEF WithVersion, HasRequiredVersion
<1>5. UsedProviders(e) = UsedProviders(d)
  BY SameModule
<1>6. QED
  BY <1>1, <1>2, <1>3, <1>4, <1>5, Zenon DEF Adapter

LEMMA SameReports ==
  ASSUME NEW d, NEW e, NEW f \in SameDir, SameToPeers(d, e, f), NEW g \in SameDir, g # f,
         NEW facts
  PROVE  Reported(e, g, facts) = Reported(d, g, facts)
<1>1. e[g] = d[g]
  BY DEF SameToPeers, Files
<1>2. Undefined(e, g) = Undefined(d, g)
  <2>1. \A ref : Defined(e, g, ref) <=> Defined(d, g, ref)
    BY <1>1, SameFacts DEF Defined
  <2>2. QED
    BY <1>1, <2>1 DEF Undefined
<1>3. Unused(e, g, facts) = Unused(d, g, facts) /\ Untyped(e, g, facts) = Untyped(d, g, facts)
  BY <1>1, SameModule DEF Unused, Untyped
<1>4. SensitiveOutput(e, g) = SensitiveOutput(d, g) /\ MissingTags(e, g) = MissingTags(d, g)
  BY <1>1, SameModule DEF SensitiveOutput, MissingTags, DefaultTags
<1>5. DeprecatedCore(e, g) = DeprecatedCore(d, g)
  BY <1>1, SameModule DEF DeprecatedCore, CoreConstraints
<1>6. DeprecatedProvider(e, g) = DeprecatedProvider(d, g)
  <2>1. \A p : ProviderSupports(e, p) = ProviderSupports(d, p)
    BY SameModule DEF ProviderSupports, ProviderConstraints
  <2>2. QED
    BY <1>1, <2>1 DEF DeprecatedProvider
<1>7. /\ LockDrift(e, g) = LockDrift(d, g)
      /\ ProviderVersionPresence(e, g, facts) = ProviderVersionPresence(d, g, facts)
      /\ UnusedProviders(e, g, facts) = UnusedProviders(d, g, facts)
  BY <1>1 DEF LockDrift, ProviderVersionPresence, UnusedProviders
<1>8. QED
  BY <1>1, <1>2, <1>3, <1>4, <1>5, <1>6, <1>7, Zenon DEF Reported

(* did_change may leave the peers alone: an edit that keeps the            *)
(* fingerprint, the sensitive variables, the provider blocks and the       *)
(* provider function calls changes no other file's diagnostics, in every   *)
(* module and for every edit.                                              *)
THEOREM PeersMayRest == RulesSpec => PeersRefreshed
<1>1. RulesInit => IInv
  BY DEF RulesInit, IInv
<1>2. IInv /\ IInv' /\ [RulesNext]_rulesVars =>
        [\A f \in SameDir :
           (/\ EditOf(f)
            /\ Fingerprint(docs'[f]) = Fingerprint(docs[f])
            /\ Unhashed(docs'[f]) = Unhashed(docs[f]))
           => \A g \in SameDir \ {f} : diags'[g] = diags[g]]_rulesVars
  <2> SUFFICES ASSUME IInv, IInv', NEW f \in SameDir, EditOf(f),
                      Fingerprint(docs'[f]) = Fingerprint(docs[f]),
                      Unhashed(docs'[f]) = Unhashed(docs[f]),
                      NEW g \in SameDir \ {f}
               PROVE  diags'[g] = diags[g]
    OBVIOUS
  <2>1. SameToPeers(docs, docs', f)
    BY DEF SameToPeers, EditOf
  <2>2. Adapter(docs', g) = Adapter(docs, g)
    BY <2>1, SameAdapter
  <2>3. Reported(docs', g, Adapter(docs', g)) = Reported(docs, g, Adapter(docs, g))
    BY <2>1, <2>2, SameReports
  <2>4. diags'[g] = Reported(docs', g, Adapter(docs', g)) /\ diags[g] = Reported(docs, g, Adapter(docs, g))
    BY DEF IInv, AllReported
  <2>5. QED
    BY <2>3, <2>4
<1>3. QED
  BY <1>1, <1>2, StepIInv, PTL DEF RulesSpec, PeersRefreshed

-----------------------------------------------------------------------------
(* The bulk scan's one pass over a module.                                 *)

(* Files hold finitely many blocks, test files none that configure, and    *)
(* no file of a module calls that module itself.                           *)
DocsInv ==
  /\ \A f \in Files : IsFiniteSet(docs[f].blocks)
  /\ \A f \in Tests : \A b \in docs[f].blocks : b.block \in {"use", "provider"}
  /\ \A f \in SameDir : \A b \in docs[f].blocks : ~(b.block = "module" /\ b.here)

LEMMA StepDocs == IInv /\ DocsInv /\ [RulesNext]_rulesVars => DocsInv'
<1> SUFFICES ASSUME IInv, DocsInv, [RulesNext]_rulesVars PROVE DocsInv'
  OBVIOUS
<1>1. ASSUME NEW f \in Files, NEW old, NEW new, IsFiniteSet(old), IsFiniteSet(new),
             docs' = [docs EXCEPT ![f].blocks = (@ \ old) \cup new],
             f \in Tests => \A b \in new : b.block \in {"use", "provider"},
             f \in SameDir => \A b \in new : ~(b.block = "module" /\ b.here)
      PROVE  DocsInv'
  <2>1. \A h \in Files : docs'[h].blocks = IF h = f THEN (docs[h].blocks \ old) \cup new
                                           ELSE docs[h].blocks
    BY <1>1 DEF IInv
  <2>2. \A h \in Files : IsFiniteSet(docs'[h].blocks)
    <3>1. \A h \in Files : IsFiniteSet(docs[h].blocks \ old)
      BY FS_Difference DEF DocsInv
    <3>2. IsFiniteSet((docs[f].blocks \ old) \cup new)
      BY <1>1, <3>1, FS_Union
    <3> QED BY <2>1, <3>2 DEF DocsInv
  <2>3. \A h \in Tests : \A b \in docs'[h].blocks : b.block \in {"use", "provider"}
    BY <1>1, <2>1 DEF DocsInv, Files, SameDir
  <2>4. \A h \in SameDir : \A b \in docs'[h].blocks : ~(b.block = "module" /\ b.here)
    BY <1>1, <2>1 DEF DocsInv, Files
  <2> QED BY <2>2, <2>3, <2>4 DEF DocsInv
<1>2. /\ IsFiniteSet({}) /\ \A b : IsFiniteSet({b})
      /\ \A s : s = (s \ {}) \cup {}
  BY FS_EmptySet, FS_Singleton
<1>3. ASSUME NEW f \in Files, NEW b \in Blocks, Add(f, b) PROVE DocsInv'
  <2>1. docs' = [docs EXCEPT ![f].blocks = (@ \ {}) \cup {b}]
    BY <1>3 DEF Add, Set
  <2>2. /\ f \in Tests => \A c \in {b} : c.block \in {"use", "provider"}
        /\ f \in SameDir => \A c \in {b} : ~(c.block = "module" /\ c.here)
    BY <1>3, RulesAssumption DEF Add, Fits, SameDir
  <2> QED BY <1>1, <1>2, <2>1, <2>2
<1>4. ASSUME NEW f \in Files, NEW b \in Blocks, Drop(f, b) PROVE DocsInv'
  <2>1. docs' = [docs EXCEPT ![f].blocks = (@ \ {b}) \cup {}]
    BY <1>4 DEF Drop, Set
  <2> QED BY <1>1, <1>2, <2>1
<1>5. ASSUME NEW f \in Files, NEW b \in Blocks, NEW c \in Blocks, Rewrite(f, b, c) PROVE DocsInv'
  <2>1. docs' = [docs EXCEPT ![f].blocks = (@ \ {b}) \cup {c}]
    BY <1>5 DEF Rewrite, Set
  <2>2. /\ f \in Tests => \A e \in {c} : e.block \in {"use", "provider"}
        /\ f \in SameDir => \A e \in {c} : ~(e.block = "module" /\ e.here)
    BY <1>5, RulesAssumption DEF Rewrite, Fits, SameDir
  <2> QED BY <1>1, <1>2, <2>1, <2>2
<1>6. ASSUME NEW f \in Config, NEW g \in Config, NEW b \in Blocks, Move(f, g, b) PROVE DocsInv'
  <2>1. f \in Files /\ g \in Files /\ f # g /\ f \notin Tests /\ g \notin Tests
    BY <1>6, RulesAssumption DEF Move, Files, SameDir
  <2>2. \A h \in Files : docs'[h].blocks = IF h = f THEN docs[h].blocks \ {b}
                                           ELSE IF h = g THEN docs[h].blocks \cup {b}
                                           ELSE docs[h].blocks
    BY <1>6, <2>1 DEF Move, Set, IInv
  <2>3. \A h \in Files : IsFiniteSet(docs'[h].blocks)
    <3>1. IsFiniteSet(docs[f].blocks \ {b})
      BY <2>1, FS_Difference DEF DocsInv
    <3>2. IsFiniteSet(docs[g].blocks \cup {b})
      BY <1>2, <2>1, FS_Union DEF DocsInv
    <3> QED BY <2>2, <3>1, <3>2 DEF DocsInv
  <2>4. \A h \in Tests : docs'[h].blocks = docs[h].blocks
    BY <2>1, <2>2 DEF Files, SameDir
  <2>5. ~(b.block = "module" /\ b.here)
    BY <1>6, <2>1 DEF Move, DocsInv, SameDir
  <2>6. \A h \in SameDir : \A c \in docs'[h].blocks : ~(c.block = "module" /\ c.here)
    BY <2>2, <2>5 DEF DocsInv, Files
  <2> QED BY <2>3, <2>4, <2>6 DEF DocsInv
<1>7. ASSUME NEW f \in Config, ToggleSyntax(f) PROVE DocsInv'
  <2>1. \A h \in Files : docs'[h].blocks = docs[h].blocks
    BY <1>7 DEF ToggleSyntax, Set, IInv, Files, SameDir
  <2> QED BY <2>1 DEF DocsInv, Files, SameDir
<1>8. CASE UNCHANGED rulesVars
  BY <1>8 DEF rulesVars, DocsInv
<1> QED BY <1>3, <1>4, <1>5, <1>6, <1>7, <1>8 DEF RulesNext

LEMMA AlwaysDocs == RulesSpec => [](IInv /\ DocsInv)
<1>1. RulesInit => IInv /\ DocsInv
  BY FS_EmptySet DEF RulesInit, IInv, DocsInv, Files, SameDir
<1> QED BY <1>1, StepIInv, StepDocs, PTL DEF RulesSpec

BlocksOf(d) == UNION {{<<f, b>> : b \in d[f].blocks} : f \in SameDir}

LEMMA BlocksAreFinite ==
  ASSUME NEW d, \A f \in SameDir : IsFiniteSet(d[f].blocks)
  PROVE  IsFiniteSet(BlocksOf(d))
<1> DEFINE all == UNION {d[f].blocks : f \in SameDir}
<1>1. IsFiniteSet({d[f].blocks : f \in SameDir})
  <2> DEFINE parts == {d[f].blocks : f \in SameDir}
             part == [f \in SameDir |-> d[f].blocks]
  <2>1. part \in Surjection(SameDir, parts)
    BY DEF Surjection
  <2>2. IsFiniteSet(SameDir)
    BY RulesAssumption DEF SameDir
  <2> HIDE DEF parts, part
  <2>3. IsFiniteSet(parts)
    BY <2>1, <2>2, FS_Surjection
  <2> QED BY <2>3 DEF parts
<1>2. IsFiniteSet(all)
  BY <1>1, FS_UNION
<1>3. IsFiniteSet(SameDir \X all)
  BY <1>2, RulesAssumption, FS_Product, Zenon DEF SameDir
<1>4. BlocksOf(d) \in SUBSET (SameDir \X all)
  BY DEF BlocksOf
<1> QED BY <1>3, <1>4, FS_Subset

(* What the pass ought to have collected of some blocks.                   *)
Gathered(s) ==
  [used |-> UNION {ProviderOf(at[2]) : at \in s},
   withVersion |-> {at[2].name : at \in {a \in s : a[2].block = "required" /\ a[2].version # {}}},
   hasVersion |-> \E at \in s : at[2].block = "terraform" /\ at[2].version # {},
   terraform |-> {at[1] : at \in {a \in s : a[2].block \in {"terraform", "required"}}},
   config |-> \E at \in s : at[2].block = "provider" \/ (at[2].block = "terraform" /\ at[2].backend)]

NothingYet == [used |-> {}, withVersion |-> {}, hasVersion |-> FALSE, terraform |-> {}, config |-> FALSE]

LEMMA GatheredNothing == Gathered({}) = NothingYet
  BY DEF Gathered, NothingYet

LEMMA CollectGathers ==
  ASSUME NEW s, NEW at \in s
  PROVE  Collect(at, Gathered(s \ {at})) = Gathered(s)
<1> DEFINE rest == Gathered(s \ {at})
<1>1. rest.used \cup ProviderOf(at[2]) = UNION {ProviderOf(a[2]) : a \in s}
  BY DEF Gathered
<1>2. (IF at[2].block = "required" /\ at[2].version # {}
       THEN rest.withVersion \cup {at[2].name} ELSE rest.withVersion)
        = {a[2].name : a \in {a \in s : a[2].block = "required" /\ a[2].version # {}}}
  BY DEF Gathered
<1>3. (rest.hasVersion \/ (at[2].block = "terraform" /\ at[2].version # {}))
        = \E a \in s : a[2].block = "terraform" /\ a[2].version # {}
  BY DEF Gathered
<1>4. (IF at[2].block \in {"terraform", "required"} THEN rest.terraform \cup {at[1]} ELSE rest.terraform)
        = {a[1] : a \in {a \in s : a[2].block \in {"terraform", "required"}}}
  BY DEF Gathered
<1>5. (rest.config \/ at[2].block = "provider" \/ (at[2].block = "terraform" /\ at[2].backend))
        = \E a \in s : a[2].block = "provider" \/ (a[2].block = "terraform" /\ a[2].backend)
  BY DEF Gathered
<1> HIDE DEF rest
<1> QED BY <1>1, <1>2, <1>3, <1>4, <1>5, Zenon DEF Collect, Gathered, rest


(* The pass, which takes the blocks one by one in no particular order,     *)
(* collects just that.                                                     *)
LEMMA PassGathers ==
  ASSUME NEW d, IsFiniteSet(BlocksOf(d))
  PROVE  Pass(d) = Gathered(BlocksOf(d))
<1> DEFINE any(s) == CHOOSE at \in s : TRUE
           all == BlocksOf(d)
           Turn(h) == [s \in SUBSET all |->
                         IF s = {} THEN NothingYet ELSE Collect(any(s), h[s \ {any(s)}])]
<1>1. PICK g : g = (CHOOSE h : h = Turn(h)) /\ Pass(d) = g[all]
  BY Zenon DEF Pass, FoldSet, MapThenFoldSet, BlocksOf, NothingYet
<1>2. \E h : h = Turn(h)
  <2> DEFINE h == [s \in SUBSET all |-> Gathered(s)]
  <2>1. ASSUME NEW s \in SUBSET all
        PROVE  h[s] = IF s = {} THEN NothingYet ELSE Collect(any(s), h[s \ {any(s)}])
    <3>1. CASE s = {}
      BY <3>1, GatheredNothing
    <3>2. CASE s # {}
      <4>1. any(s) \in s /\ s \ {any(s)} \in SUBSET all
        BY <3>2
      <4> HIDE DEF any
      <4>2. h[s \ {any(s)}] = Gathered(s \ {any(s)}) /\ h[s] = Gathered(s)
        BY <4>1
      <4> HIDE DEF h
      <4> QED BY <3>2, <4>1, <4>2, CollectGathers
    <3> QED BY <3>1, <3>2
  <2>2. h = [s \in SUBSET all |-> h[s]]
    OBVIOUS
  <2> HIDE DEF h, any
  <2>3. h = Turn(h)
    BY <2>1, <2>2
  <2> QED BY <2>3
<1>3. g = Turn(g)
  BY <1>1, <1>2, Zenon
<1> HIDE DEF any
<1>4. \A s \in SUBSET all : g[s] = IF s = {} THEN NothingYet ELSE Collect(any(s), g[s \ {any(s)}])
  BY <1>3
<1> HIDE DEF Turn, all
<1> DEFINE wrong == {n \in Nat : \E s \in SUBSET all : Cardinality(s) = n /\ g[s] # Gathered(s)}
<1>5. wrong = {}
  <2> SUFFICES ASSUME wrong # {} PROVE FALSE
    OBVIOUS
  <2>1. PICK n \in wrong : \A m \in wrong : n <= m
    BY LeastOf
  <2>2. PICK s \in SUBSET all : Cardinality(s) = n /\ g[s] # Gathered(s)
    BY <2>1
  <2>3. s # {}
    BY <1>4, <2>2, GatheredNothing
  <2>4. any(s) \in s
    BY <2>3 DEF any
  <2>5. IsFiniteSet(s)
    BY FS_Subset DEF all
  <2>6. Cardinality(s \ {any(s)}) = n - 1 /\ Cardinality(s \ {any(s)}) \in Nat
    <3>1. IsFiniteSet(s \ {any(s)})
      BY <2>5, FS_Subset
    <3> QED BY <2>2, <2>4, <2>5, <3>1, FS_RemoveElement, FS_CardinalityType
  <2>7. g[s \ {any(s)}] = Gathered(s \ {any(s)})
    <3>1. n - 1 \in Nat /\ n - 1 \notin wrong
      BY <2>1, <2>6
    <3> QED BY <2>6, <3>1
  <2>8. g[s] = Collect(any(s), g[s \ {any(s)}])
    BY <1>4, <2>3
  <2> QED BY <2>2, <2>4, <2>7, <2>8, CollectGathers
<1>6. Cardinality(all) \in Nat
  BY FS_CardinalityType DEF all
<1>7. g[all] = Gathered(all)
  BY <1>5, <1>6
<1> QED BY <1>1, <1>7 DEF all

LEMMA SnapshotIsAdapter ==
  ASSUME NEW d, \A f \in SameDir : IsFiniteSet(d[f].blocks),
         \A f \in SameDir : \A b \in d[f].blocks : ~(b.block = "module" /\ b.here),
         NEW f \in Config
  PROVE  SnapshotOf(d)[f] = Adapter(d, f)
<1>1. PICK pass : pass = Gathered(BlocksOf(d)) /\ Pass(d) = pass
  BY BlocksAreFinite, PassGathers
<1>2. SnapshotOf(d)[f] =
        [used |-> pass.used, withVersion |-> pass.withVersion, hasVersion |-> pass.hasVersion,
         primary |-> pass.terraform # {} /\ f = Min(pass.terraform),
         root |-> ~ReferencedHere(d), applyable |-> ~ReferencedHere(d) /\ pass.config]
  BY <1>1, Zenon DEF SnapshotOf
<1>3. /\ \A g \in SameDir : \A b \in d[g].blocks : <<g, b>> \in BlocksOf(d)
      /\ \A at \in BlocksOf(d) : at[1] \in SameDir /\ at[2] \in d[at[1]].blocks
      /\ \A g, b : <<g, b>>[1] = g /\ <<g, b>>[2] = b
  BY DEF BlocksOf
<1>4. pass.used = UsedProviders(d)
  <2>1. pass.used = UNION {ProviderOf(at[2]) : at \in BlocksOf(d)}
    BY <1>1 DEF Gathered
  <2>2. \A p : p \in pass.used <=> \E g \in SameDir : \E b \in d[g].blocks : p \in ProviderOf(b)
    <3> TAKE p
    <3>1. p \in pass.used <=> \E at \in BlocksOf(d) : p \in ProviderOf(at[2])
      BY <2>1
    <3>2. (\E at \in BlocksOf(d) : p \in ProviderOf(at[2])) <=>
            \E g \in SameDir : \E b \in d[g].blocks : p \in ProviderOf(b)
      BY <1>3
    <3> QED BY <3>1, <3>2
  <2>3. \A p : p \in UsedProviders(d) <=> \E g \in SameDir : \E b \in d[g].blocks : p \in ProviderOf(b)
    BY DEF UsedProviders
  <2>4. pass.used = UNION {ProviderOf(at[2]) : at \in BlocksOf(d)}
    BY <2>1
  <2> QED BY <2>2, <2>3, <2>4 DEF UsedProviders
<1>5. pass.withVersion = WithVersion(d)
  <2>1. pass.withVersion = {at[2].name : at \in {a \in BlocksOf(d) :
                              a[2].block = "required" /\ a[2].version # {}}}
    BY <1>1 DEF Gathered
  <2>2. \A p : p \in pass.withVersion <=>
          \E g \in SameDir : \E b \in d[g].blocks :
            b.block = "required" /\ b.version # {} /\ p = b.name
    <3> TAKE p
    <3>1. p \in pass.withVersion <=> \E at \in BlocksOf(d) :
            at[2].block = "required" /\ at[2].version # {} /\ p = at[2].name
      BY <2>1
    <3>2. (\E at \in BlocksOf(d) :
             at[2].block = "required" /\ at[2].version # {} /\ p = at[2].name) <=>
            \E g \in SameDir : \E b \in d[g].blocks :
              b.block = "required" /\ b.version # {} /\ p = b.name
      BY <1>3
    <3> QED BY <3>1, <3>2
  <2>3. \A p : p \in WithVersion(d) <=>
          \E g \in SameDir : \E b \in d[g].blocks :
            b.block = "required" /\ b.version # {} /\ p = b.name
    BY DEF WithVersion, InModule, Of
  <2> QED BY <2>1, <2>2, <2>3 DEF WithVersion
<1>6. pass.hasVersion = HasRequiredVersion(d)
  <2>1. pass.hasVersion = \E at \in BlocksOf(d) : at[2].block = "terraform" /\ at[2].version # {}
    BY <1>1 DEF Gathered
  <2>2. HasRequiredVersion(d) <=>
          \E g \in SameDir : \E b \in d[g].blocks : b.block = "terraform" /\ b.version # {}
    BY DEF HasRequiredVersion, InModule, Of
  <2>3. (\E at \in BlocksOf(d) : at[2].block = "terraform" /\ at[2].version # {}) <=>
          \E g \in SameDir : \E b \in d[g].blocks : b.block = "terraform" /\ b.version # {}
    BY <1>3
  <2>4. HasRequiredVersion(d) \in BOOLEAN
    BY DEF HasRequiredVersion
  <2> QED BY <2>1, <2>2, <2>3, <2>4
<1>7. \A g : g \in pass.terraform <=> g \in SameDir /\ TerraformBlocks(d[g]) # {}
  <2>1. pass.terraform = {at[1] : at \in {a \in BlocksOf(d) : a[2].block \in {"terraform", "required"}}}
    BY <1>1 DEF Gathered
  <2>2. \A g : g \in pass.terraform <=>
          g \in SameDir /\ \E b \in d[g].blocks : b.block \in {"terraform", "required"}
    <3> TAKE g
    <3>1. g \in pass.terraform <=> \E at \in BlocksOf(d) :
            at[2].block \in {"terraform", "required"} /\ g = at[1]
      BY <2>1
    <3>2. (\E at \in BlocksOf(d) : at[2].block \in {"terraform", "required"} /\ g = at[1]) <=>
            g \in SameDir /\ \E b \in d[g].blocks : b.block \in {"terraform", "required"}
      BY <1>3
    <3> QED BY <3>1, <3>2
  <2>3. \A g : TerraformBlocks(d[g]) # {} <=>
          \E b \in d[g].blocks : b.block \in {"terraform", "required"}
    BY DEF TerraformBlocks, Of
  <2> QED BY <2>2, <2>3
<1>8. (pass.terraform # {} /\ f = Min(pass.terraform)) = IsPrimary(d, f)
  <2>1. \A g \in pass.terraform : g \in Nat
    BY <1>7, RulesAssumption DEF SameDir
  <2>2. CASE pass.terraform = {}
    BY <1>7, <2>2 DEF IsPrimary, SameDir
  <2>3. CASE pass.terraform # {}
    <3>1. PICK least \in pass.terraform : \A g \in pass.terraform : least <= g
      BY <2>1, <2>3, LeastOf
    <3>2. Min(pass.terraform) = least
      <4>1. Min(pass.terraform) \in pass.terraform /\ \A g \in pass.terraform : Min(pass.terraform) <= g
        BY <3>1, Zenon DEF Min
      <4> QED BY <2>1, <3>1, <4>1
    <3>3. IsPrimary(d, f) <=> f \in pass.terraform /\ \A g \in pass.terraform : f <= g
      BY <1>7 DEF IsPrimary, SameDir
    <3>4. f = least <=> f \in pass.terraform /\ \A g \in pass.terraform : f <= g
      BY <2>1, <3>1
    <3>5. IsPrimary(d, f) \in BOOLEAN
      BY DEF IsPrimary
    <3> QED BY <2>3, <3>2, <3>3, <3>4, <3>5
  <2> QED BY <2>2, <2>3
<1>9. ~ReferencedHere(d) <=> IsRoot(d)
  <2>1. \A g \in SameDir : \A b \in Of(d[g], "module") : ~b.here
    BY DEF Of
  <2> QED BY <2>1 DEF ReferencedHere, IsRoot, Files
<1>10. (~ReferencedHere(d) /\ pass.config) = IsApplyable(d)
  <2>1. pass.config = \E at \in BlocksOf(d) :
          at[2].block = "provider" \/ (at[2].block = "terraform" /\ at[2].backend)
    BY <1>1 DEF Gathered
  <2>2. (\E at \in BlocksOf(d) :
          at[2].block = "provider" \/ (at[2].block = "terraform" /\ at[2].backend)) <=>
          \E g \in SameDir : \E b \in d[g].blocks :
            b.block = "provider" \/ (b.block = "terraform" /\ b.backend)
    BY <1>3
  <2>3. IsApplyable(d) <=> IsRoot(d) /\ \E g \in SameDir : \E b \in d[g].blocks :
            b.block = "provider" \/ (b.block = "terraform" /\ b.backend)
    BY DEF IsApplyable, InModule, Of
  <2>4. IsApplyable(d) \in BOOLEAN
    BY DEF IsApplyable
  <2>5. pass.config <=> \E g \in SameDir : \E b \in d[g].blocks :
          b.block = "provider" \/ (b.block = "terraform" /\ b.backend)
    BY <2>1, <2>2
  <2>7. (~ReferencedHere(d) /\ pass.config) <=> IsApplyable(d)
    BY <2>3, <2>5, <1>9
  <2> QED BY <2>4, <2>7
<1>11. Adapter(d, f) =
         [used |-> UsedProviders(d), withVersion |-> WithVersion(d),
          hasVersion |-> HasRequiredVersion(d), primary |-> IsPrimary(d, f),
          root |-> IsRoot(d), applyable |-> IsApplyable(d)]
  BY DEF Adapter
<1>12. IsRoot(d) = ~ReferencedHere(d)
  <2>1. IsRoot(d) \in BOOLEAN
    BY DEF IsRoot
  <2> QED BY <1>9, <2>1
<1> QED BY <1>2, <1>4, <1>5, <1>6, <1>8, <1>10, <1>11, <1>12


(* SnapshotAgrees, for any module and blocks: what the bulk scan reports   *)
(* from the facts of its one pass is what an edit reports from the store.  *)
THEOREM ScanAndStoreAgree == RulesSpec => []SnapshotAgrees
<1>1. IInv /\ DocsInv => SnapshotAgrees
  <2> SUFFICES ASSUME IInv, DocsInv, NEW f \in Config
               PROVE  Reported(docs, f, SnapshotOf(docs)[f]) = diags[f]
    BY DEF SnapshotAgrees
  <2>1. SnapshotOf(docs)[f] = Adapter(docs, f)
    BY SnapshotIsAdapter DEF DocsInv, Files
  <2>2. diags[f] = Reported(docs, f, Adapter(docs, f))
    BY DEF IInv, AllReported, SameDir
  <2> QED BY <2>1, <2>2
<1> QED BY <1>1, AlwaysDocs, PTL

-----------------------------------------------------------------------------
(* Blocks that move between the files of a module.                         *)

(* Every block of a configuration file of d stands in one of e.            *)
Holds(d, e) ==
  \A f \in Config : \A b \in d[f].blocks : \E g \in Config : b \in e[g].blocks

Rearranged(d, e) ==
  /\ Holds(d, e) /\ Holds(e, d)
  /\ \A f \in Tests \cup Callers : d[f] = e[f]
  /\ \A f \in Config : d[f].clean /\ e[f].clean
  /\ \A f \in Tests : \A b \in d[f].blocks : b.block \in {"use", "provider"}

Everywhere(d) == UNION {d[f].blocks : f \in SameDir}

LEMMA SameEverywhere ==
  ASSUME NEW d, NEW e, Rearranged(d, e)
  PROVE  Everywhere(d) = Everywhere(e)
<1>1. ASSUME NEW b PROVE b \in Everywhere(d) <=> b \in Everywhere(e)
  BY DEF Rearranged, Holds, Everywhere, SameDir
<1> QED BY <1>1 DEF Everywhere

(* The questions about the module do not ask for the file.                 *)
LEMMA WideQuestions ==
  ASSUME NEW d
  PROVE  /\ \A kind : InModule(d, kind) = {b \in Everywhere(d) : b.block = kind}
         /\ UsedProviders(d) = UNION {ProviderOf(b) : b \in Everywhere(d)}
         /\ \A ref : ref \in Referenced(d) <=>
              \E b \in Everywhere(d) : \/ b.block = "use" /\ ref = <<b.kind, b.name>>
                                       \/ b.block = "output" /\ ref = <<"variable", b.name>>
         /\ \A ref : (\E g \in SameDir : ref \in Definitions(d[g])) <=>
              \E b \in Everywhere(d) : b.block \in Named /\ ref = <<b.block, b.name>>
<1>1. ASSUME NEW kind PROVE InModule(d, kind) = {b \in Everywhere(d) : b.block = kind}
  <2>1. \A b : b \in InModule(d, kind) <=> b \in Everywhere(d) /\ b.block = kind
    BY DEF InModule, Of, Everywhere
  <2> QED BY <2>1 DEF InModule
<1>2. UsedProviders(d) = UNION {ProviderOf(b) : b \in Everywhere(d)}
  BY DEF UsedProviders, Everywhere
<1>3. ASSUME NEW ref
      PROVE  ref \in Referenced(d) <=>
               \E b \in Everywhere(d) : \/ b.block = "use" /\ ref = <<b.kind, b.name>>
                                        \/ b.block = "output" /\ ref = <<"variable", b.name>>
  <2>1. \A f : ref \in References(d[f]) <=>
          \E b \in d[f].blocks : \/ b.block = "use" /\ ref = <<b.kind, b.name>>
                                 \/ b.block = "output" /\ ref = <<"variable", b.name>>
    BY DEF References, Of
  <2> QED BY <2>1 DEF Referenced, Everywhere
<1>4. ASSUME NEW ref
      PROVE  (\E g \in SameDir : ref \in Definitions(d[g])) <=>
               \E b \in Everywhere(d) : b.block \in Named /\ ref = <<b.block, b.name>>
  <2>1. \A f : ref \in Definitions(d[f]) <=>
          \E b \in d[f].blocks : b.block \in Named /\ ref = <<b.block, b.name>>
    BY DEF Definitions
  <2> QED BY <2>1 DEF Everywhere
<1> QED BY <1>1, <1>2, <1>3, <1>4

LEMMA SameQuestions ==
  ASSUME NEW d, NEW e, Rearranged(d, e)
  PROVE  /\ \A kind : InModule(d, kind) = InModule(e, kind)
         /\ UsedProviders(d) = UsedProviders(e)
         /\ Referenced(d) = Referenced(e)
         /\ \A ref : (\E g \in SameDir : ref \in Definitions(d[g]))
                       <=> (\E g \in SameDir : ref \in Definitions(e[g]))
         /\ IsRoot(d) = IsRoot(e)
<1>1. Everywhere(d) = Everywhere(e)
  BY SameEverywhere
<1>2. /\ \A kind : InModule(d, kind) = InModule(e, kind)
      /\ UsedProviders(d) = UsedProviders(e)
  BY <1>1, WideQuestions
<1>3. \A ref : ref \in Referenced(d) <=> ref \in Referenced(e)
  BY <1>1, WideQuestions
<1>4. Referenced(d) = Referenced(e)
  BY <1>3 DEF Referenced
<1>5. \A ref : (\E g \in SameDir : ref \in Definitions(d[g]))
                 <=> (\E g \in SameDir : ref \in Definitions(e[g]))
  <2> TAKE ref
  <2>1. (\E g \in SameDir : ref \in Definitions(d[g])) <=>
          \E b \in Everywhere(d) : b.block \in Named /\ ref = <<b.block, b.name>>
    BY WideQuestions
  <2>2. (\E g \in SameDir : ref \in Definitions(e[g])) <=>
          \E b \in Everywhere(e) : b.block \in Named /\ ref = <<b.block, b.name>>
    BY WideQuestions
  <2> QED BY <1>1, <2>1, <2>2
<1>6. IsRoot(d) = IsRoot(e)
  BY DEF Rearranged, IsRoot
<1> QED BY <1>2, <1>4, <1>5, <1>6

(* What the files are told of the module, but for which is the first.      *)
LEMMA SameAnswers ==
  ASSUME NEW d, NEW e, Rearranged(d, e), NEW f \in Config, NEW g \in Config
  PROVE  /\ Adapter(d, f).used = Adapter(e, g).used
         /\ Adapter(d, f).withVersion = Adapter(e, g).withVersion
         /\ Adapter(d, f).hasVersion = Adapter(e, g).hasVersion
         /\ Adapter(d, f).root = Adapter(e, g).root
         /\ Adapter(d, f).applyable = Adapter(e, g).applyable
<1>1. /\ WithVersion(d) = WithVersion(e) /\ HasRequiredVersion(d) = HasRequiredVersion(e)
      /\ IsApplyable(d) = IsApplyable(e)
  BY SameQuestions DEF WithVersion, HasRequiredVersion, IsApplyable
<1>2. UsedProviders(d) = UsedProviders(e) /\ IsRoot(d) = IsRoot(e)
  BY SameQuestions
<1> QED BY <1>1, <1>2 DEF Adapter

(* An idle local, data source or, in a module that is applied as it is, an *)
(* idle variable of a root module is reported.                             *)
LEMMA IdleBlock ==
  ASSUME NEW d, NEW f, NEW facts, facts.root, NEW b \in d[f].blocks,
         b.block \in {"local", "data", "variable"},
         b.block = "variable" => facts.applyable,
         <<b.block, b.name>> \notin Referenced(d)
  PROVE  <<"unused_declarations", b>> \in Unused(d, f, facts)
<1>1. CASE b.block = "local"
  <2>1. b \in {c \in Of(d[f], "local") : <<"local", c.name>> \notin Referenced(d)}
    BY <1>1 DEF Of
  <2> QED BY <2>1 DEF Unused, On
<1>2. CASE b.block = "data"
  <2>1. b \in {c \in Of(d[f], "data") : <<"data", c.name>> \notin Referenced(d)}
    BY <1>2 DEF Of
  <2> QED BY <2>1 DEF Unused, On
<1>3. CASE b.block = "variable"
  <2>1. b \in {c \in Of(d[f], "variable") : <<"variable", c.name>> \notin Referenced(d)}
    BY <1>3 DEF Of
  <2> QED BY <1>3, <2>1 DEF Unused, On
<1> QED BY <1>1, <1>2, <1>3


(* What a file reports, the module's other files report when they hold     *)
(* the block instead.                                                      *)
LEMMA ReportMoves ==
  ASSUME NEW d, NEW e, Rearranged(d, e), NEW f \in Config,
         NEW x \in Reported(d, f, Adapter(d, f))
  PROVE  \E g \in Config : x \in Reported(e, g, Adapter(e, g))
<1>1. \A g \in Config : /\ d[g].clean /\ e[g].clean /\ g \notin Tests /\ g \in SameDir
  BY RulesAssumption DEF Rearranged, SameDir
<1>2. \A b \in d[f].blocks : \E g \in Config : b \in e[g].blocks
  BY DEF Rearranged, Holds
<1> DEFINE facts == Adapter(d, f)
           Rules(h, g, a) ==
             {Undefined(h, g), Unused(h, g, a), Untyped(h, g, a), SensitiveOutput(h, g),
              MissingTags(h, g), DeprecatedCore(h, g), DeprecatedProvider(h, g),
              LockDrift(h, g), VersionPresence(a), ProviderVersionPresence(h, g, a),
              UnusedProviders(h, g, a)}
<1>3. \A h, g, a : h[g].clean /\ g \notin Tests =>
        Reported(h, g, a) = UNION Rules(h, g, a)
  BY DEF Reported
<1>4. x \in UNION Rules(d, f, facts)
  BY <1>1, <1>3
<1> SUFFICES \E g \in Config : x \in UNION Rules(e, g, Adapter(e, g))
  BY <1>1, <1>3
<1>5. CASE x \in Undefined(d, f)
  <2>1. PICK ref \in References(d[f]) :
          x = <<"undefined_reference", ref>> /\ ref[1] # "data" /\ ~Defined(d, f, ref)
    BY <1>5 DEF Undefined
  <2>2. PICK g \in Config : ref \in References(e[g])
    <3>1. PICK b \in d[f].blocks : \/ b.block = "use" /\ ref = <<b.kind, b.name>>
                                   \/ b.block = "output" /\ ref = <<"variable", b.name>>
      BY <2>1 DEF References, Of
    <3>2. PICK g \in Config : b \in e[g].blocks
      BY <1>2
    <3> QED BY <3>1, <3>2 DEF References, Of
  <2>3. ~Defined(e, g, ref)
    <3>1. ~\E h \in SameDir : ref \in Definitions(d[h])
      BY <2>1 DEF Defined
    <3>2. ~\E h \in SameDir : ref \in Definitions(e[h])
      BY <3>1, SameQuestions
    <3> QED BY <1>1, <3>2 DEF Defined
  <2>4. x \in Undefined(e, g)
    BY <2>1, <2>2, <2>3 DEF Undefined
  <2> QED BY <2>4
<1>6. CASE x \in Unused(d, f, facts)
  <2>1. PICK b \in d[f].blocks :
          /\ x = <<"unused_declarations", b>> /\ facts.root
          /\ b.block \in {"local", "data", "variable"}
          /\ b.block = "variable" => facts.applyable
          /\ <<b.block, b.name>> \notin Referenced(d)
    BY <1>6 DEF Unused, On, Of
  <2>2. PICK g \in Config : b \in e[g].blocks
    BY <1>2
  <2>3. /\ Adapter(e, g).root
        /\ b.block = "variable" => Adapter(e, g).applyable
        /\ <<b.block, b.name>> \notin Referenced(e)
    BY <2>1, SameAnswers, SameQuestions
  <2>4. x \in Unused(e, g, Adapter(e, g))
    BY <2>1, <2>2, <2>3, IdleBlock
  <2> QED BY <2>4
<1>7. CASE x \in Untyped(d, f, facts)
  <2>1. PICK b \in d[f].blocks :
          /\ x = <<"typed_variables", b>> /\ b.block = "variable" /\ ~b.typed
          /\ facts.root => <<"variable", b.name>> \in Referenced(d)
    BY <1>7 DEF Untyped, On, Of
  <2>2. PICK g \in Config : b \in e[g].blocks
    BY <1>2
  <2>3. Adapter(e, g).root => <<"variable", b.name>> \in Referenced(e)
    BY <2>1, SameAnswers, SameQuestions
  <2>4. x \in Untyped(e, g, Adapter(e, g))
    BY <2>1, <2>2, <2>3 DEF Untyped, On, Of
  <2> QED BY <2>4
<1>8. CASE x \in SensitiveOutput(d, f)
  <2>1. PICK b \in d[f].blocks :
          /\ x = <<"sensitive_output", b>> /\ b.block = "output" /\ ~b.sensitive
          /\ b.name \in SensitiveVariables(d)
    BY <1>8 DEF SensitiveOutput, On, Of
  <2>2. PICK g \in Config : b \in e[g].blocks
    BY <1>2
  <2>3. b.name \in SensitiveVariables(e)
    BY <2>1, SameQuestions DEF SensitiveVariables
  <2>4. x \in SensitiveOutput(e, g)
    BY <2>1, <2>2, <2>3 DEF SensitiveOutput, On, Of
  <2> QED BY <2>4
<1>9. CASE x \in MissingTags(d, f)
  <2>1. PICK b \in d[f].blocks :
          /\ x = <<"missing_tags", b>> /\ b.block = "resource" /\ b.name # "null"
          /\ b.name \notin DefaultTags(d)
    BY <1>9 DEF MissingTags, On, Of
  <2>2. PICK g \in Config : b \in e[g].blocks
    BY <1>2
  <2>3. b.name \notin DefaultTags(e)
    BY <2>1, SameQuestions DEF DefaultTags
  <2>4. x \in MissingTags(e, g)
    BY <2>1, <2>2, <2>3 DEF MissingTags, On, Of
  <2> QED BY <2>4
<1>10. CASE x \in DeprecatedCore(d, f)
  <2>1. CoreConstraints(d) = CoreConstraints(e)
    BY SameQuestions DEF CoreConstraints
  <2>2. PICK b \in d[f].blocks :
          /\ x = <<"deprecated_null_resource", b>> /\ b.block = "resource" /\ b.name = "null"
          /\ Supports(CoreConstraints(e), CoreThreshold)
    BY <1>10, <2>1 DEF DeprecatedCore, On, Of
  <2>3. PICK g \in Config : b \in e[g].blocks
    BY <1>2
  <2>4. x \in DeprecatedCore(e, g)
    BY <2>2, <2>3 DEF DeprecatedCore, On, Of
  <2> QED BY <2>4
<1>11. CASE x \in DeprecatedProvider(d, f)
  <2>1. PICK b \in d[f].blocks :
          /\ x = <<"provider_renames", b>> /\ b.block = "resource" /\ b.name # "null"
          /\ ProviderSupports(d, b.name)
    BY <1>11 DEF DeprecatedProvider, On, Of
  <2>2. PICK g \in Config : b \in e[g].blocks
    BY <1>2
  <2>3. ProviderSupports(e, b.name)
    <3>1. ProviderConstraints(d, b.name) = ProviderConstraints(e, b.name)
      BY SameQuestions DEF ProviderConstraints
    <3> QED BY <2>1, <3>1 DEF ProviderSupports
  <2>4. x \in DeprecatedProvider(e, g)
    BY <2>1, <2>2, <2>3 DEF DeprecatedProvider, On, Of
  <2> QED BY <2>4
<1>12. CASE x \in LockDrift(d, f)
  <2>1. PICK b \in d[f].blocks :
          /\ x = <<"lock_constraint_drift", b>> /\ b.block = "required"
          /\ b.name \in DOMAIN Locked /\ b.version # {}
          /\ ~SatisfiesAll(b.version, Locked[b.name])
    BY <1>12 DEF LockDrift, On, Of
  <2>2. PICK g \in Config : b \in e[g].blocks
    BY <1>2
  <2>3. x \in LockDrift(e, g)
    BY <2>1, <2>2 DEF LockDrift, On, Of
  <2> QED BY <2>3
<1>13. CASE x \in VersionPresence(facts)
  <2>1. /\ x = <<"required_version_presence", "module">>
        /\ ~facts.hasVersion /\ facts.primary
    BY <1>13 DEF VersionPresence
  <2>2. TerraformBlocks(d[f]) # {}
    BY <2>1 DEF Adapter, IsPrimary
  <2> DEFINE holders == {g \in SameDir : TerraformBlocks(e[g]) # {}}
  <2>3. holders # {} /\ \A g \in holders : g \in Nat
    <3>1. PICK b \in d[f].blocks : b.block \in {"terraform", "required"}
      BY <2>2 DEF TerraformBlocks, Of
    <3>2. PICK g \in Config : b \in e[g].blocks
      BY <1>2
    <3>3. b \in TerraformBlocks(e[g])
      BY <3>1, <3>2 DEF TerraformBlocks, Of
    <3> QED BY <1>1, <3>3, RulesAssumption DEF SameDir
  <2>4. PICK g \in holders : \A h \in holders : g <= h
    <3> HIDE DEF holders
    <3> QED BY <2>3, LeastOf
  <2>5. g \in Config
    <3>1. \A h \in Tests : TerraformBlocks(e[h]) = {}
      BY DEF Rearranged, TerraformBlocks, Of
    <3> QED BY <2>4, <3>1 DEF SameDir
  <2>6. IsPrimary(e, g)
    BY <2>4 DEF IsPrimary
  <2>7. ~Adapter(e, g).hasVersion /\ Adapter(e, g).primary
    <3>1. Adapter(e, g).primary
      BY <2>6 DEF Adapter
    <3> QED BY <2>1, <2>5, <3>1, SameAnswers
  <2>8. x \in VersionPresence(Adapter(e, g))
    BY <2>1, <2>7 DEF VersionPresence
  <2> QED BY <2>5, <2>8
<1>14. CASE x \in ProviderVersionPresence(d, f, facts)
  <2>1. PICK b \in d[f].blocks :
          /\ x = <<"required_providers_version", b>> /\ b.block = "required" /\ b.version = {}
          /\ b.name \notin facts.withVersion
    BY <1>14 DEF ProviderVersionPresence, On, Of
  <2>2. PICK g \in Config : b \in e[g].blocks
    BY <1>2
  <2>3. b.name \notin Adapter(e, g).withVersion
    BY <2>1, SameAnswers
  <2>4. x \in ProviderVersionPresence(e, g, Adapter(e, g))
    BY <2>1, <2>2, <2>3 DEF ProviderVersionPresence, On, Of
  <2> QED BY <2>4
<1>15. CASE x \in UnusedProviders(d, f, facts)
  <2>1. PICK b \in d[f].blocks :
          /\ x = <<"unused_required_providers", b>> /\ b.block = "required"
          /\ b.name \notin facts.used
    BY <1>15 DEF UnusedProviders, On, Of
  <2>2. PICK g \in Config : b \in e[g].blocks
    BY <1>2
  <2>3. b.name \notin Adapter(e, g).used
    BY <2>1, SameAnswers
  <2>4. x \in UnusedProviders(e, g, Adapter(e, g))
    BY <2>1, <2>2, <2>3 DEF UnusedProviders, On, Of
  <2> QED BY <2>4
<1> QED BY <1>4, <1>5, <1>6, <1>7, <1>8, <1>9, <1>10, <1>11, <1>12, <1>13, <1>14, <1>15

(* BlocksMayMove, for any module: the diagnostics of the module are those  *)
(* of its blocks, whichever of its files they stand in.                    *)
THEOREM FilesDoNotMatter == RulesSpec => BlocksMayMove
<1>1. ASSUME IInv, IInv', DocsInv, DocsInv', NEW f \in Config, NEW g \in Config,
             \A h \in Config : docs[h].clean /\ docs'[h].clean,
             \A h \in Files \ {f, g} : docs'[h] = docs[h],
             docs'[f].blocks \cup docs'[g].blocks = docs[f].blocks \cup docs[g].blocks
      PROVE  UNION {diags'[h] : h \in Config} = UNION {diags[h] : h \in Config}
  <2>1. Rearranged(docs, docs') /\ Rearranged(docs', docs)
    <3>1. \A h \in Tests \cup Callers : h \in Files \ {f, g}
      BY RulesAssumption DEF Files, SameDir
    <3>2. \A h \in Config \ {f, g} : docs'[h] = docs[h]
      BY <1>1 DEF Files, SameDir
    <3>3. Holds(docs, docs') /\ Holds(docs', docs)
      BY <1>1, <3>2 DEF Holds
    <3> QED BY <1>1, <3>1, <3>3 DEF Rearranged, DocsInv
  <2>2. \A h \in Config : /\ diags[h] = Reported(docs, h, Adapter(docs, h))
                          /\ diags'[h] = Reported(docs', h, Adapter(docs', h))
    BY <1>1 DEF IInv, AllReported, SameDir
  <2>3. ASSUME NEW x
        PROVE  (\E h \in Config : x \in diags'[h]) <=> (\E h \in Config : x \in diags[h])
    <3>1. ASSUME NEW h \in Config, x \in diags[h] PROVE \E k \in Config : x \in diags'[k]
      <4>1. x \in Reported(docs, h, Adapter(docs, h))
        BY <2>2, <3>1
      <4>2. \E k \in Config : x \in Reported(docs', k, Adapter(docs', k))
        BY <2>1, <4>1, ReportMoves
      <4> QED BY <2>2, <4>2
    <3>2. ASSUME NEW h \in Config, x \in diags'[h] PROVE \E k \in Config : x \in diags[k]
      <4>1. x \in Reported(docs', h, Adapter(docs', h))
        BY <2>2, <3>2
      <4>2. \E k \in Config : x \in Reported(docs, k, Adapter(docs, k))
        BY <2>1, <4>1, ReportMoves
      <4> QED BY <2>2, <4>2
    <3> QED BY <3>1, <3>2
  <2> QED BY <2>3
<1>2. IInv /\ DocsInv /\ (IInv /\ DocsInv)' /\ [RulesNext]_rulesVars =>
        [\A f, g \in Config :
           (/\ \A h \in Config : docs[h].clean /\ docs'[h].clean
            /\ \A h \in Files \ {f, g} : docs'[h] = docs[h]
            /\ docs'[f].blocks \cup docs'[g].blocks = docs[f].blocks \cup docs[g].blocks)
           => UNION {diags'[h] : h \in Config} = UNION {diags[h] : h \in Config}]_rulesVars
  BY <1>1
<1> QED BY <1>2, AlwaysDocs, PTL DEF RulesSpec, BlocksMayMove

-----------------------------------------------------------------------------
(* Which results are shown.                                                *)

(* What holds of tasks and of what they have under way.                    *)

Olds == {"none", "x", "y"}

PublishTypes == TypeOK /\ tasks \in [DOMAIN tasks -> Task]

(* A task's result for d waits to be published.                            *)
In(i, d) == \E n \in DOMAIN inflight[d] : inflight[d][n] = i

(* Such a task is past computing it.                                       *)
SendsTo(t, d) ==
  \/ t.step = "publish" /\ t.doc = d
  \/ t.step \in {"computing", "pushing"} /\ t.doc # d /\ d \notin t.todo

Flights ==
  /\ \A d \in Docs, i \in Tasks : In(i, d) => i \in DOMAIN tasks /\ SendsTo(tasks[i], d)
  /\ \A d \in Docs : \A m, n \in DOMAIN inflight[d] : inflight[d][m] = inflight[d][n] => m = n

(* The late ones are the oldest under way.                                 *)
LateOnes ==
  /\ \A d \in Docs, i \in Tasks : <<d, i>> \in late => In(i, d)
  /\ \A d \in Docs : \A m, n \in DOMAIN inflight[d] :
       m < n /\ <<d, inflight[d][n]>> \in late => <<d, inflight[d][m]>> \in late

TaskState ==
  \A i \in DOMAIN tasks :
    /\ tasks[i].text <= last[tasks[i].doc]
    /\ tasks[i].step = "publish" => In(i, tasks[i].doc)
    /\ tasks[i].doc \notin tasks[i].todo

StoreState == \A d \in Docs : stored[d] <= last[d] /\ (d \in open_docs => stored[d] # 0)

(* Where no two edits overlap, an edit is alone in waiting for its turn,   *)
(* and if it is going to be applied, then to the text it was compared to.  *)
LockState ==
  \A i \in DOMAIN tasks :
    LET t == tasks[i] IN
    t.step = "locked" /\ t.doc \notin overlapped =>
      /\ \A j \in DOMAIN tasks : tasks[j].step = "locked" /\ tasks[j].doc = t.doc => j = i
      /\ stored[t.doc] # 0 /\ stored[t.doc] < t.text => t.old = FingerprintOf(stored[t.doc])

PublishBase == PublishTypes /\ Flights /\ LateOnes /\ TaskState /\ StoreState /\ LockState

(* The newest result for d: the last one under way, unless a newer one was *)
(* published before it.                                                    *)
Pending(d) == inflight[d] # <<>> /\ <<d, inflight[d][Len(inflight[d])]>> \notin late

Newest(d) == IF Pending(d) THEN tasks[inflight[d][Len(inflight[d])]].results[d] ELSE shown[d]

(* A task that will compute for d what the store holds of d ...            *)
OwnTask(t, d) ==
  /\ t.doc = d
  /\ t.step = "compute" \/ (t.step \in {"applied", "compared"} /\ t.text = stored[d])

OwnDue(d) == \E i \in DOMAIN tasks : OwnTask(tasks[i], d)

(* ... and one that will because of what the store holds of the peer p.    *)
PeerTask(t, d, p) ==
  \/ t.doc = d /\ t.step = "compute"
  \/ /\ t.doc = p
     /\ \/ t.changed /\ t.step \in {"compared", "compute", "publish", "peers"}
        \/ t.step = "computing" /\ d \in t.todo
        \/ t.step = "applied" /\ t.old # FingerprintOf(stored[p])

PeerDue(d, p) == \E i \in DOMAIN tasks : PeerTask(tasks[i], d, p)

(* The newest result for a document is of its text, and of peers with the  *)
(* fingerprints they have, or a newer one is to come.                      *)
OwnKnown(d) == Newest(d)[d] = stored[d] \/ OwnDue(d)

PeerKnown(d, p) ==
  d \in open_docs /\ stored[p] # 0 =>
    FingerprintOf(Newest(d)[p]) = FingerprintOf(stored[p]) \/ PeerDue(d, p)

Known(d) ==
  Pending(d) \/ d \notin overtaken =>
    OwnKnown(d) /\ \A p \in Docs \ (overlapped \cup {d}) : PeerKnown(d, p)

PublishInv == PublishBase /\ \A d \in Docs : Known(d)

-----------------------------------------------------------------------------
LEMMA PublishNumbers ==
  /\ MaxText \in Nat /\ MaxTasks \in Nat
  /\ Text \subseteq Nat /\ 0 \in Text /\ Tasks \subseteq Nat \ {0}
  /\ Nothing \in Snapshot /\ NoResults \in [Docs -> Snapshot]
  /\ \A d \in Docs : Nothing[d] = 0
<1>1. MaxText \in Nat /\ MaxTasks \in Nat
  BY PublishAssumption
<1>2. Text \subseteq Nat /\ 0 \in Text /\ Tasks \subseteq Nat \ {0}
  BY <1>1 DEF Text, Tasks
<1>3. Nothing \in Snapshot /\ \A d \in Docs : Nothing[d] = 0
  BY <1>2 DEF Nothing, Snapshot
<1>4. NoResults \in [Docs -> Snapshot]
  BY <1>3 DEF NoResults
<1> QED BY <1>1, <1>2, <1>3, <1>4

LEMMA TextTypes ==
  ASSUME PublishTypes, NEW d \in Docs
  PROVE  /\ stored[d] \in Text /\ last[d] \in Text /\ stored[d] \in Nat /\ last[d] \in Nat
         /\ Computed(d) \in Snapshot
<1>1. stored \in Snapshot /\ last \in Snapshot
  BY DEF PublishTypes, TypeOK
<1>2. stored[d] \in Text /\ last[d] \in Text
  BY <1>1 DEF Snapshot
<1> QED BY <1>1, <1>2, PublishNumbers DEF Computed

LEMMA FingerprintTypes ==
  ASSUME PublishTypes, NEW text \in Text
  PROVE  FingerprintOf(text) \in Olds /\ (text # 0 => FingerprintOf(text) # "none")
<1>1. fingerprint \in [1 .. MaxText -> {"x", "y"}]
  BY DEF PublishTypes, TypeOK
<1>2. text # 0 => text \in 1 .. MaxText
  BY PublishNumbers DEF Text
<1> QED BY <1>1, <1>2 DEF FingerprintOf, Olds

LEMMA TaskTypes ==
  ASSUME PublishTypes, NEW i \in DOMAIN tasks
  PROVE  /\ tasks[i] \in Task /\ tasks[i].doc \in Docs /\ tasks[i].step \in Steps
         /\ tasks[i].text \in Text /\ tasks[i].text \in Nat /\ tasks[i].old \in Olds
         /\ tasks[i].changed \in BOOLEAN
         /\ tasks[i].todo \subseteq Docs /\ tasks[i].results \in [Docs -> Snapshot]
         /\ i \in Tasks /\ i \in Nat /\ i <= begun
<1>1. tasks[i] \in Task
  BY DEF PublishTypes
<1>2. begun \in 0 .. MaxTasks /\ i \in 1 .. begun
  BY DEF PublishTypes, TypeOK
<1>3. i \in Tasks /\ i \in Nat /\ i <= begun
  BY <1>2, PublishNumbers DEF Tasks
<1>4. tasks[i].text \in Text
  BY <1>1 DEF Task
<1> QED BY <1>1, <1>3, <1>4, PublishNumbers DEF Task, Olds

LEMMA InitPublish == Init => PublishInv
<1> SUFFICES ASSUME Init PROVE PublishInv
  OBVIOUS
<1>1. DOMAIN tasks = {} /\ tasks \in [DOMAIN tasks -> Task]
  BY DEF Init
<1>2. inflight \in [Docs -> Seq(Tasks)] /\ \A d \in Docs : inflight[d] = <<>> /\ DOMAIN inflight[d] = {}
  BY DEF Init
<1>3. /\ last \in Snapshot /\ stored \in Snapshot /\ shown \in [Docs -> Snapshot]
      /\ \A d \in Docs : stored[d] = 0 /\ last[d] = 0 /\ shown[d][d] = 0
  BY PublishNumbers DEF Init, NoResults
<1>4. TypeOK
  BY <1>1, <1>2, <1>3, PublishNumbers DEF Init, TypeOK
<1>5. Flights /\ LateOnes /\ TaskState /\ StoreState /\ LockState
  BY <1>1, <1>2, <1>3 DEF Init, Flights, LateOnes, In, TaskState, StoreState, LockState
<1>6. ASSUME NEW d \in Docs PROVE Known(d)
  <2>1. ~Pending(d) /\ Newest(d)[d] = stored[d] /\ d \notin open_docs
    BY <1>2, <1>3 DEF Init, Pending, Newest
  <2> QED BY <2>1 DEF Known, OwnKnown, PeerKnown
<1> QED BY <1>1, <1>4, <1>5, <1>6 DEF PublishInv, PublishBase, PublishTypes

-----------------------------------------------------------------------------
(* What is under way, as the steps move it.                                *)

(* The queue of a document's results.                                      *)
LEMMA InflightTypes ==
  ASSUME PublishTypes, NEW d \in Docs
  PROVE  /\ inflight \in [Docs -> Seq(Tasks)] /\ inflight[d] \in Seq(Tasks)
         /\ Len(inflight[d]) \in Nat /\ DOMAIN inflight[d] = 1 .. Len(inflight[d])
         /\ inflight[d] # <<>> => Len(inflight[d]) \in DOMAIN inflight[d]
         /\ \A n \in DOMAIN inflight[d] : n \in Nat /\ inflight[d][n] \in Tasks
<1>1. inflight \in [Docs -> Seq(Tasks)] /\ inflight[d] \in Seq(Tasks)
  BY DEF PublishTypes, TypeOK
<1> QED BY <1>1

(* A step that sends nothing leaves what is under way as it was.           *)
LEMMA NothingSent ==
  ASSUME PublishBase, UNCHANGED <<inflight, late, shown>>,
         \A d \in Docs, i \in Tasks : In(i, d) =>
           /\ i \in DOMAIN tasks' /\ SendsTo(tasks'[i], d)
           /\ tasks'[i].results[d] = tasks[i].results[d]
  PROVE  /\ Flights' /\ LateOnes' /\ \A i, d : In(i, d)' <=> In(i, d)
         /\ \A d \in Docs : (Pending(d)' <=> Pending(d)) /\ Newest(d)' = Newest(d)
<1>1. \A i, d : In(i, d)' <=> In(i, d)
  BY DEF In
<1>2. Flights' /\ LateOnes'
  BY <1>1 DEF PublishBase, Flights, LateOnes, SendsTo
<1>3. ASSUME NEW d \in Docs PROVE (Pending(d)' <=> Pending(d)) /\ Newest(d)' = Newest(d)
  <2>1. Pending(d)' <=> Pending(d)
    BY DEF Pending
  <2>2. Pending(d) => In(inflight[d][Len(inflight[d])], d) /\ inflight[d][Len(inflight[d])] \in Tasks
    BY InflightTypes DEF PublishBase, Pending, In
  <2> QED BY <2>1, <2>2 DEF Newest
<1> QED BY <1>1, <1>2, <1>3

(* A result that is computed is the newest.                                *)
LEMMA Queued ==
  ASSUME PublishBase, NEW i \in Tasks, NEW d \in Docs, ~In(i, d),
         inflight' = [inflight EXCEPT ![d] = Append(@, i)], UNCHANGED <<late, shown>>,
         i \in DOMAIN tasks', SendsTo(tasks'[i], d),
         \A e \in Docs, j \in Tasks : In(j, e) =>
           /\ j \in DOMAIN tasks' /\ SendsTo(tasks'[j], e)
           /\ tasks'[j].results[e] = tasks[j].results[e]
  PROVE  /\ Flights' /\ LateOnes' /\ inflight' \in [Docs -> Seq(Tasks)]
         /\ \A e \in Docs : \A j : In(j, e)' <=> In(j, e) \/ (j = i /\ e = d)
         /\ Pending(d)' /\ Newest(d)' = tasks'[i].results[d]
         /\ \A e \in Docs \ {d} : (Pending(e)' <=> Pending(e)) /\ Newest(e)' = Newest(e)
<1> USE InflightTypes DEF PublishBase
<1>1. /\ inflight' \in [Docs -> Seq(Tasks)] /\ inflight'[d] = Append(inflight[d], i)
      /\ \A e \in Docs \ {d} : inflight'[e] = inflight[e]
  BY InflightTypes
<1> DEFINE n == Len(inflight[d]) + 1
<1>2. /\ inflight[d] \in Seq(Tasks) /\ n \in Nat \ {0} /\ n \notin DOMAIN inflight[d]
      /\ \A m \in DOMAIN inflight[d] : m < n /\ m \in Nat
  BY InflightTypes
<1>3. /\ DOMAIN inflight'[d] = DOMAIN inflight[d] \cup {n} /\ inflight'[d][n] = i
      /\ Len(inflight'[d]) = n /\ inflight'[d] # <<>>
      /\ \A m \in DOMAIN inflight[d] : inflight'[d][m] = inflight[d][m]
  <2> DEFINE q == inflight[d]
  <2>1. q \in Seq(Tasks) /\ inflight'[d] = Append(q, i) /\ n = Len(q) + 1
    BY <1>1, <1>2
  <2> HIDE DEF q
  <2>2. /\ Append(q, i) # <<>> /\ Len(Append(q, i)) = n
        /\ DOMAIN Append(q, i) = DOMAIN q \cup {n} /\ Append(q, i)[n] = i
        /\ \A m \in DOMAIN q : Append(q, i)[m] = q[m]
    BY <2>1, AppendElements
  <2> QED BY <2>1, <2>2 DEF q
<1> HIDE DEF n
<1>4. \A e \in Docs : \A j : In(j, e)' <=> In(j, e) \/ (j = i /\ e = d)
  BY <1>1, <1>2, <1>3 DEF In
<1>5. <<d, i>> \notin late
  BY DEF LateOnes
<1>6. Flights'
  <2>1. \A e \in Docs, j \in Tasks : In(j, e)' => j \in DOMAIN tasks' /\ SendsTo(tasks'[j], e)
    BY <1>4
  <2>2. \A k, m \in DOMAIN inflight'[d] : inflight'[d][k] = inflight'[d][m] => k = m
    BY <1>2, <1>3 DEF Flights, In
  <2>3. \A e \in Docs : \A k, m \in DOMAIN inflight'[e] :
          inflight'[e][k] = inflight'[e][m] => k = m
    BY <1>1, <2>2 DEF Flights
  <2> QED BY <2>1, <2>3 DEF Flights, SendsTo
<1>7. LateOnes'
  <2>1. \A e \in Docs, j \in Tasks : <<e, j>> \in late => In(j, e)'
    BY <1>4 DEF LateOnes
  <2>2. \A k, m \in DOMAIN inflight'[d] :
          k < m /\ <<d, inflight'[d][m]>> \in late => <<d, inflight'[d][k]>> \in late
    BY <1>2, <1>3, <1>5 DEF LateOnes
  <2>3. \A e \in Docs : \A k, m \in DOMAIN inflight'[e] :
          k < m /\ <<e, inflight'[e][m]>> \in late => <<e, inflight'[e][k]>> \in late
    BY <1>1, <2>2 DEF LateOnes
  <2> QED BY <2>1, <2>3 DEF LateOnes
<1>8. Pending(d)' /\ Newest(d)' = tasks'[i].results[d]
  BY <1>3, <1>5 DEF Pending, Newest
<1>9. ASSUME NEW e \in Docs \ {d} PROVE (Pending(e)' <=> Pending(e)) /\ Newest(e)' = Newest(e)
  <2>1. Pending(e)' <=> Pending(e)
    BY <1>1 DEF Pending
  <2>2. Pending(e) => In(inflight[e][Len(inflight[e])], e) /\ inflight[e][Len(inflight[e])] \in Tasks
    BY InflightTypes DEF Pending, In
  <2> QED BY <1>1, <2>1, <2>2 DEF Newest
<1> QED BY <1>1, <1>4, <1>6, <1>7, <1>8, <1>9

(* A result that is published was the newest, or it is not for long.       *)
LEMMA Sends ==
  ASSUME PublishBase, NEW i \in Tasks, NEW d \in Docs, In(i, d), Publish(i, d),
         \A e \in Docs, j \in Tasks : In(j, e) /\ ~(j = i /\ e = d) =>
           /\ j \in DOMAIN tasks' /\ SendsTo(tasks'[j], e)
           /\ tasks'[j].results[e] = tasks[j].results[e]
  PROVE  /\ Flights' /\ LateOnes' /\ inflight' \in [Docs -> Seq(Tasks)]
         /\ late' \subseteq Docs \X Tasks
         /\ \A e \in Docs : \A j : In(j, e)' <=> In(j, e) /\ ~(j = i /\ e = d)
         /\ Pending(d)' \/ d \notin overtaken' => Pending(d) /\ Newest(d)' = Newest(d)
         /\ \A e \in Docs \ {d} : /\ (Pending(e)' <=> Pending(e)) /\ Newest(e)' = Newest(e)
                                  /\ e \in overtaken' <=> e \in overtaken
<1> DEFINE q == inflight[d]
           p == Position(i, d)
           up(n) == IF n < p THEN n ELSE n + 1
<1>1. /\ q \in Seq(Tasks) /\ Len(q) \in Nat /\ DOMAIN q = 1 .. Len(q)
      /\ \A n \in DOMAIN q : n \in Nat /\ q[n] \in Tasks
      /\ q # <<>> => Len(q) \in DOMAIN q
  BY InflightTypes DEF PublishBase
<1>2. p \in DOMAIN q /\ q[p] = i /\ \A n \in DOMAIN q : q[n] = i => n = p
  <2>1. p \in DOMAIN q /\ q[p] = i
    BY DEF In, Position
  <2> QED BY <2>1 DEF PublishBase, Flights
<1>3. /\ inflight' \in [Docs -> Seq(Tasks)] /\ inflight'[d] = RemoveAt(q, p)
      /\ \A e \in Docs \ {d} : inflight'[e] = inflight[e]
  <2>1. RemoveAt(q, p) \in Seq(Tasks)
    BY <1>1, <1>2, RemoveAtElements
  <2>2. inflight \in [Docs -> Seq(Tasks)] /\ inflight' = [inflight EXCEPT ![d] = RemoveAt(q, p)]
    BY DEF Publish, PublishBase, PublishTypes, TypeOK
  <2> HIDE DEF q, p
  <2> QED BY <2>1, <2>2
<1>4. /\ late' = (late \ {<<d, i>>}) \cup {<<d, q[n]>> : n \in 1 .. p - 1}
      /\ overtaken' = IF <<d, i>> \in late THEN overtaken \cup {d} ELSE overtaken \ {d}
      /\ shown' = [shown EXCEPT ![d] = tasks[i].results[d]]
  BY DEF Publish
<1>5. shown \in [Docs -> Snapshot] /\ late \subseteq Docs \X Tasks
  BY DEF PublishBase, PublishTypes, TypeOK
<1>6. /\ \A e \in Docs, j \in Tasks : <<e, j>> \in late => In(j, e)
      /\ \A e \in Docs : \A m, n \in DOMAIN inflight[e] :
           m < n /\ <<e, inflight[e][n]>> \in late => <<e, inflight[e][m]>> \in late
      /\ \A m, n \in DOMAIN q : q[m] = q[n] => m = n
      /\ \A e \in Docs : \A m, n \in DOMAIN inflight[e] : inflight[e][m] = inflight[e][n] => m = n
  BY DEF PublishBase, LateOnes, Flights
<1>7. \A m, n \in DOMAIN q : m < n /\ <<d, q[n]>> \in late => <<d, q[m]>> \in late
  BY <1>6
<1> HIDE DEF q, p
<1> DEFINE L == Len(q)
           r == inflight'[d]
<1>0. L \in Nat /\ p \in 1 .. L /\ DOMAIN q = 1 .. L /\ p \in Nat /\ L \in DOMAIN q
  BY <1>1, <1>2
<1>8. /\ r \in Seq(Tasks) /\ DOMAIN r = 1 .. L - 1 /\ Len(r) = L - 1
      /\ \A n \in 1 .. L - 1 : r[n] = IF n < p THEN q[n] ELSE q[n + 1]
      /\ r # <<>> => L # 1
  <2>1. /\ RemoveAt(q, p) \in Seq(Tasks) /\ Len(RemoveAt(q, p)) = L - 1
        /\ DOMAIN RemoveAt(q, p) = 1 .. L - 1
        /\ \A n \in 1 .. L - 1 : RemoveAt(q, p)[n] = IF n < p THEN q[n] ELSE q[n + 1]
    BY <1>1, <1>2, RemoveAtElements
  <2>2. r = RemoveAt(q, p)
    BY <1>3
  <2> HIDE DEF r, L
  <2> QED BY <2>1, <2>2
<1> HIDE DEF r, L
<1>16. /\ \A n \in 1 .. L - 1 : /\ up(n) \in 1 .. L /\ up(n) # p /\ up(n) \in Nat /\ 1 <= up(n)
                                /\ n \in Nat
       /\ \A m, n \in 1 .. L - 1 : m < n => up(m) < up(n)
       /\ \A m, n \in 1 .. L - 1 : up(m) = up(n) => m = n
  BY <1>0
<1>17. \A n \in 1 .. L - 1 : r[n] = q[up(n)]
  BY <1>8
<1>18. \A n \in 1 .. L : n # p => \E m \in 1 .. L - 1 : up(m) = n
  <2> SUFFICES ASSUME NEW n \in 1 .. L, n # p PROVE \E m \in 1 .. L - 1 : up(m) = n
    OBVIOUS
  <2>1. CASE n < p
    BY <1>0, <2>1
  <2>2. CASE p < n
    <3>1. n - 1 \in 1 .. L - 1 /\ up(n - 1) = n
      BY <1>0, <2>2
    <3> QED BY <3>1
  <2> QED BY <1>0, <2>1, <2>2
<1> HIDE DEF up
<1>9. \A e \in Docs : \A j : In(j, e)' <=> In(j, e) /\ ~(j = i /\ e = d)
  <2>1. ASSUME NEW j, j # i, NEW n \in DOMAIN q, q[n] = j
        PROVE  \E m \in DOMAIN r : r[m] = j
    <3>1. PICK m \in 1 .. L - 1 : up(m) = n
      BY <1>0, <1>2, <1>18, <2>1
    <3> QED BY <1>8, <1>17, <2>1, <3>1
  <2>2. \A m \in DOMAIN r : up(m) # p /\ up(m) \in DOMAIN q /\ r[m] = q[up(m)]
    BY <1>0, <1>8, <1>16, <1>17
  <2>3. \A j : In(j, d)' <=> In(j, d) /\ j # i
    <3>1. \A j : In(j, d)' <=> \E m \in DOMAIN r : r[m] = j
      BY DEF In, r
    <3>2. \A j : In(j, d) <=> \E m \in DOMAIN q : q[m] = j
      BY DEF In, q
    <3> QED BY <1>2, <2>1, <2>2, <3>1, <3>2
  <2>4. \A e \in Docs \ {d} : \A j : In(j, e)' <=> In(j, e)
    BY <1>3 DEF In
  <2> QED BY <2>3, <2>4
<1>10. late' \subseteq Docs \X Tasks
  BY <1>1, <1>2, <1>4, <1>5
<1>11. Flights'
  <2>1. \A e \in Docs, j \in Tasks : In(j, e)' => j \in DOMAIN tasks' /\ SendsTo(tasks'[j], e)
    BY <1>9
  <2>2. ASSUME NEW m \in DOMAIN r, NEW n \in DOMAIN r, r[m] = r[n]
        PROVE  m = n
    <3>1. up(m) \in DOMAIN q /\ up(n) \in DOMAIN q /\ q[up(m)] = q[up(n)]
      BY <1>0, <1>8, <1>16, <1>17, <2>2
    <3>2. up(m) = up(n)
      BY <1>6, <3>1
    <3> QED BY <1>8, <1>16, <3>2
  <2>3. \A e \in Docs : \A k, m \in DOMAIN inflight'[e] :
          inflight'[e][k] = inflight'[e][m] => k = m
    BY <1>3, <1>6, <2>2 DEF r
  <2> QED BY <2>1, <2>3 DEF Flights, SendsTo
<1>12. LateOnes'
  <2>1. ASSUME NEW e \in Docs, NEW j \in Tasks, <<e, j>> \in late' PROVE In(j, e)'
    <3>1. CASE <<e, j>> \in late \ {<<d, i>>}
      BY <1>6, <1>9, <3>1
    <3>2. CASE <<e, j>> \in {<<d, q[n]>> : n \in 1 .. p - 1}
      <4>1. PICK n \in 1 .. p - 1 : e = d /\ j = q[n]
        BY <3>2
      <4>2. n \in DOMAIN q /\ n # p
        BY <1>1, <1>2
      <4>3. j # i /\ In(j, d)
        BY <1>2, <4>1, <4>2 DEF In, q
      <4> QED BY <1>9, <4>1, <4>3
    <3> QED BY <1>4, <2>1, <3>1, <3>2
  <2>2. ASSUME NEW m \in DOMAIN r, NEW n \in DOMAIN r, m < n, <<d, r[n]>> \in late'
        PROVE  <<d, r[m]>> \in late'
    <3>1. /\ up(m) \in DOMAIN q /\ up(n) \in DOMAIN q /\ up(m) < up(n)
          /\ up(m) # p /\ r[m] = q[up(m)] /\ r[n] = q[up(n)]
          /\ up(m) \in Nat /\ up(m) >= 1 /\ up(n) \in Nat /\ p \in Nat
      BY <1>0, <1>8, <1>16, <1>17, <2>2
    <3>2. CASE up(m) < p
      <4>1. up(m) \in 1 .. p - 1
        BY <3>1, <3>2
      <4> QED BY <1>4, <3>1, <4>1
    <3>3. CASE ~(up(m) < p)
      <4>1. ~ \E k \in 1 .. p - 1 : q[k] = q[up(n)]
        <5> SUFFICES ASSUME NEW k \in 1 .. p - 1, q[k] = q[up(n)] PROVE FALSE
          OBVIOUS
        <5>1. k \in DOMAIN q
          BY <1>1, <1>2
        <5>2. k = up(n)
          BY <1>6, <3>1, <5>1
        <5> QED BY <3>1, <3>3, <5>2
      <4>2. <<d, q[up(n)]>> \in late
        BY <1>4, <2>2, <3>1, <4>1
      <4>3. <<d, q[up(m)]>> \in late /\ q[up(m)] # i
        BY <1>2, <1>7, <3>1, <4>2
      <4> QED BY <1>4, <3>1, <4>3
    <3> QED BY <3>2, <3>3
  <2>3. \A e \in Docs : \A m, n \in DOMAIN inflight'[e] :
          m < n /\ <<e, inflight'[e][n]>> \in late' => <<e, inflight'[e][m]>> \in late'
    <3>1. \A e \in Docs \ {d} : \A x : <<e, x>> \in late' <=> <<e, x>> \in late
      BY <1>4
    <3> QED BY <1>3, <1>6, <2>2, <3>1 DEF r
  <2> QED BY <2>1, <2>3 DEF LateOnes
<1>13. ASSUME p # L
       PROVE  /\ Pending(d)' => Pending(d) /\ Newest(d)' = Newest(d)
              /\ ~Pending(d)' => d \in overtaken'
  <2> DEFINE x == q[L]
  <2>1. L - 1 \in 1 .. L - 1 /\ ~(L - 1 < p) /\ (L - 1) + 1 = L /\ p < L
    BY <1>0, <1>13
  <2>2. r[L - 1] = x /\ r # <<>> /\ x # i /\ q # <<>> /\ x \in Tasks
    BY <1>0, <1>1, <1>2, <1>8, <1>13, <2>1
  <2>3. ~ \E k \in 1 .. p - 1 : q[k] = x
    <3> SUFFICES ASSUME NEW k \in 1 .. p - 1, q[k] = x PROVE FALSE
      OBVIOUS
    <3>1. k \in DOMAIN q /\ k # L
      BY <1>0
    <3> QED BY <1>0, <1>6, <3>1
  <2>4. <<d, x>> \in late' <=> <<d, x>> \in late
    BY <1>4, <2>2, <2>3
  <2>5. Pending(d) <=> <<d, x>> \notin late
    BY <2>2 DEF Pending, q, L
  <2>6. Pending(d)' <=> <<d, x>> \notin late'
    <3>1. Pending(d)' <=> (r # <<>> /\ <<d, r[Len(r)]>> \notin late')
      BY DEF Pending, r
    <3> QED BY <1>8, <2>2, <3>1
  <2>7. ASSUME Pending(d)' PROVE Newest(d)' = Newest(d)
    <3>1. Newest(d)' = tasks'[r[Len(r)]].results[d]
      BY <2>7 DEF Newest, r
    <3>2. Newest(d) = tasks[x].results[d]
      BY <2>4, <2>5, <2>6, <2>7 DEF Newest, q, L
    <3>3. In(x, d)
      BY <1>0 DEF In, q
    <3> QED BY <1>8, <2>2, <3>1, <3>2, <3>3
  <2>8. ASSUME ~Pending(d)' PROVE d \in overtaken'
    <3>1. <<d, x>> \in late
      BY <2>4, <2>6, <2>8
    <3>2. <<d, i>> \in late
      BY <1>0, <1>2, <1>7, <2>1, <3>1
    <3> QED BY <1>4, <3>2
  <2> QED BY <2>4, <2>5, <2>6, <2>7, <2>8
<1>14. ASSUME p = L, Pending(d)' \/ d \notin overtaken'
       PROVE  Pending(d) /\ Newest(d)' = Newest(d)
  <2>1. ~Pending(d)'
    <3> SUFFICES ASSUME r # <<>> PROVE <<d, r[Len(r)]>> \in late'
      BY DEF Pending, r
    <3>1. L - 1 \in 1 .. p - 1 /\ L - 1 < p /\ L - 1 \in 1 .. L - 1
      BY <1>0, <1>8, <1>14
    <3>2. r[Len(r)] = q[L - 1]
      BY <1>8, <3>1
    <3> QED BY <1>4, <3>1, <3>2
  <2>2. <<d, i>> \notin late
    BY <1>4, <1>14, <2>1
  <2>3. q # <<>> /\ q[L] = i
    BY <1>0, <1>1, <1>2, <1>14
  <2>4. Pending(d) /\ Newest(d) = tasks[i].results[d]
    BY <2>2, <2>3 DEF Pending, Newest, q, L
  <2>5. Newest(d)' = tasks[i].results[d]
    <3>1. shown'[d] = tasks[i].results[d]
      BY <1>4, <1>5
    <3> QED BY <2>1, <3>1 DEF Newest
  <2> QED BY <2>4, <2>5
<1>15. ASSUME NEW e \in Docs \ {d}
       PROVE  /\ (Pending(e)' <=> Pending(e)) /\ Newest(e)' = Newest(e)
              /\ e \in overtaken' <=> e \in overtaken
  <2>1. \A x : <<e, x>> \in late' <=> <<e, x>> \in late
    BY <1>4
  <2>2. Pending(e)' <=> Pending(e)
    BY <1>3, <2>1 DEF Pending
  <2>3. Pending(e) => In(inflight[e][Len(inflight[e])], e) /\ inflight[e][Len(inflight[e])] \in Tasks
    BY InflightTypes DEF Pending, In, PublishBase
  <2>4. shown'[e] = shown[e]
    BY <1>4, <1>5
  <2>5. Newest(e)' = Newest(e)
    BY <1>3, <2>2, <2>3, <2>4 DEF Newest
  <2> QED BY <1>4, <2>2, <2>5
<1> QED BY <1>3, <1>9, <1>10, <1>11, <1>12, <1>13, <1>14, <1>15

-----------------------------------------------------------------------------
(* What a step does to the tasks.                                          *)

LEMMA Started ==
  ASSUME PublishTypes, NEW t \in Task, begun < MaxTasks, begun' = begun + 1,
         tasks' = [i \in DOMAIN tasks \cup {begun + 1} |->
                     IF i \in DOMAIN tasks THEN tasks[i] ELSE t]
  PROVE  /\ begun + 1 \in Tasks /\ begun + 1 \notin DOMAIN tasks /\ begun' \in 0 .. MaxTasks
         /\ DOMAIN tasks' = DOMAIN tasks \cup {begun + 1} /\ DOMAIN tasks' \subseteq 1 .. begun'
         /\ tasks' \in [DOMAIN tasks' -> Task] /\ tasks'[begun + 1] = t
         /\ \A j \in DOMAIN tasks : tasks'[j] = tasks[j]
<1>1. /\ begun \in 0 .. MaxTasks /\ DOMAIN tasks \subseteq 1 .. begun
      /\ tasks \in [DOMAIN tasks -> Task] /\ MaxTasks \in Nat
  BY PublishNumbers DEF PublishTypes, TypeOK
<1>2. begun + 1 \in Tasks /\ begun + 1 \notin DOMAIN tasks /\ begun' \in 0 .. MaxTasks
  BY <1>1 DEF Tasks
<1> DEFINE n == begun + 1
<1>3. tasks' = [j \in DOMAIN tasks \cup {n} |-> IF j \in DOMAIN tasks THEN tasks[j] ELSE t]
  OBVIOUS
<1>4. DOMAIN tasks' \subseteq 1 .. begun'
  BY <1>1, <1>3
<1> HIDE DEF n
<1>5. /\ DOMAIN tasks' = DOMAIN tasks \cup {n} /\ tasks' \in [DOMAIN tasks' -> Task]
      /\ \A j \in DOMAIN tasks : tasks'[j] = tasks[j]
  BY <1>1, <1>3
<1>6. tasks'[n] = t
  BY <1>2, <1>3 DEF n
<1> QED BY <1>2, <1>4, <1>5, <1>6 DEF n

Others(i) ==
  /\ tasks' \in [DOMAIN tasks' -> Task] /\ DOMAIN tasks' \subseteq DOMAIN tasks
  /\ \A j \in DOMAIN tasks \ {i} : j \in DOMAIN tasks' /\ tasks'[j] = tasks[j]

LEMMA GoesOn ==
  ASSUME PublishTypes, NEW i \in DOMAIN tasks, NEW t \in Task, tasks' = [tasks EXCEPT ![i] = t]
  PROVE  Others(i) /\ DOMAIN tasks' = DOMAIN tasks /\ tasks'[i] = t
  BY DEF PublishTypes, Others

LEMMA Finishes ==
  ASSUME PublishTypes, NEW i \in DOMAIN tasks, Finish(i)
  PROVE  Others(i) /\ DOMAIN tasks' = DOMAIN tasks \ {i}
  BY DEF PublishTypes, Others, Finish

(* A task moves on that is not about to be applied.                        *)
LEMMA BaseKept ==
  ASSUME PublishBase, NEW i \in DOMAIN tasks, Others(i),
         i \in DOMAIN tasks' =>
           /\ tasks'[i].doc = tasks[i].doc /\ tasks'[i].text = tasks[i].text
           /\ tasks'[i].step # "locked" /\ tasks'[i].doc \notin tasks'[i].todo,
         \A j \in DOMAIN tasks' : tasks'[j].step = "publish" => In(j, tasks[j].doc)',
         UNCHANGED <<fingerprint, begun, last, stored, open_docs, overlapped>>,
         shown' \in [Docs -> Snapshot], inflight' \in [Docs -> Seq(Tasks)],
         late' \subseteq Docs \X Tasks, overtaken' \subseteq Docs,
         Flights', LateOnes'
  PROVE  PublishBase'
<1> USE DEF PublishBase
<1>1. PublishTypes'
  <2>1. \A j \in DOMAIN tasks' : tasks'[j] \in Task
    BY DEF Others
  <2> QED BY <2>1 DEF PublishTypes, TypeOK, Others, Snapshot
<1>2. TaskState'
  BY DEF TaskState, Others
<1>3. StoreState'
  BY DEF StoreState
<1>4. LockState'
  <2> SUFFICES ASSUME NEW j \in DOMAIN tasks', tasks'[j].step = "locked",
                      tasks'[j].doc \notin overlapped'
               PROVE  /\ \A k \in DOMAIN tasks' :
                           tasks'[k].step = "locked" /\ tasks'[k].doc = tasks'[j].doc => k = j
                      /\ stored'[tasks'[j].doc] # 0 /\ stored'[tasks'[j].doc] < tasks'[j].text =>
                           tasks'[j].old = FingerprintOf(stored[tasks[j].doc])'
    BY DEF LockState
  <2>1. j # i /\ tasks'[j] = tasks[j] /\ j \in DOMAIN tasks
    BY DEF Others
  <2>2. FingerprintOf(stored[tasks[j].doc])' = FingerprintOf(stored[tasks[j].doc])
    BY <2>1 DEF FingerprintOf
  <2> QED BY <2>1, <2>2 DEF LockState, Others
<1> QED BY <1>1, <1>2, <1>3, <1>4

(* What is known of a document still is when its tasks stay due.           *)
LEMMA OwnKept ==
  ASSUME NEW d \in Docs, OwnKnown(d), Newest(d)' = Newest(d), stored'[d] = stored[d],
         \A j \in DOMAIN tasks : OwnTask(tasks[j], d) =>
           j \in DOMAIN tasks' /\ OwnTask(tasks[j], d)'
  PROVE  OwnKnown(d)'
  BY DEF OwnKnown, OwnDue

LEMMA PeerKept ==
  ASSUME NEW d \in Docs, NEW p \in Docs, PeerKnown(d, p), Newest(d)' = Newest(d),
         stored'[p] = stored[p], fingerprint' = fingerprint,
         d \in open_docs' => d \in open_docs,
         \A j \in DOMAIN tasks : PeerTask(tasks[j], d, p) /\ d \in open_docs =>
           j \in DOMAIN tasks' /\ PeerTask(tasks[j], d, p)'
  PROVE  PeerKnown(d, p)'
<1> SUFFICES ASSUME d \in open_docs', stored'[p] # 0
             PROVE  FingerprintOf(Newest(d)[p])' = FingerprintOf(stored[p])' \/ PeerDue(d, p)'
  BY DEF PeerKnown
<1>1. CASE PeerDue(d, p)
  BY <1>1 DEF PeerDue
<1>2. CASE FingerprintOf(Newest(d)[p]) = FingerprintOf(stored[p])
  BY <1>2 DEF FingerprintOf
<1> QED BY <1>1, <1>2 DEF PeerKnown

LEMMA KnownKept ==
  ASSUME NEW d \in Docs, Known(d), UNCHANGED <<fingerprint, stored, open_docs>>,
         overlapped \subseteq overlapped',
         Pending(d)' \/ d \notin overtaken' =>
           (Pending(d) \/ d \notin overtaken) /\ Newest(d)' = Newest(d),
         \A j \in DOMAIN tasks : OwnTask(tasks[j], d) =>
           j \in DOMAIN tasks' /\ OwnTask(tasks[j], d)',
         \A p \in Docs \ {d} : \A j \in DOMAIN tasks : PeerTask(tasks[j], d, p) /\ d \in open_docs =>
           j \in DOMAIN tasks' /\ PeerTask(tasks[j], d, p)'
  PROVE  Known(d)'
<1> SUFFICES ASSUME Pending(d)' \/ d \notin overtaken'
             PROVE  OwnKnown(d)' /\ \A p \in Docs \ (overlapped' \cup {d}) : PeerKnown(d, p)'
  BY DEF Known
<1>1. OwnKnown(d) /\ \A p \in Docs \ (overlapped' \cup {d}) : PeerKnown(d, p)
  BY DEF Known
<1>2. OwnKnown(d)'
  BY <1>1, OwnKept
<1>3. \A p \in Docs \ (overlapped' \cup {d}) : PeerKnown(d, p)'
  BY <1>1, PeerKept
<1> QED BY <1>2, <1>3

-----------------------------------------------------------------------------
(* The steps of a task that send nothing.                                  *)

LEMMA Quiet ==
  ASSUME PublishBase, NEW i \in DOMAIN tasks, Others(i), UNCHANGED <<inflight, late, shown>>,
         tasks[i].step \notin {"publish", "computing", "pushing"}
  PROVE  /\ Flights' /\ LateOnes'
         /\ inflight' \in [Docs -> Seq(Tasks)] /\ late' \subseteq Docs \X Tasks
         /\ shown' \in [Docs -> Snapshot]
         /\ \A d \in Docs : (Pending(d)' <=> Pending(d)) /\ Newest(d)' = Newest(d)
         /\ \A j \in DOMAIN tasks \ {i} : tasks'[j].step = "publish" => In(j, tasks[j].doc)'
<1>1. \A d \in Docs, j \in Tasks : In(j, d) =>
        /\ j \in DOMAIN tasks' /\ SendsTo(tasks'[j], d)
        /\ tasks'[j].results[d] = tasks[j].results[d]
  BY DEF PublishBase, Flights, SendsTo, Others
<1>2. /\ Flights' /\ LateOnes' /\ \A j, d : In(j, d)' <=> In(j, d)
      /\ \A d \in Docs : (Pending(d)' <=> Pending(d)) /\ Newest(d)' = Newest(d)
  BY <1>1, NothingSent
<1>3. ASSUME NEW j \in DOMAIN tasks \ {i}, tasks'[j].step = "publish" PROVE In(j, tasks[j].doc)'
  <2>1. tasks'[j] = tasks[j] /\ j \in DOMAIN tasks'
    BY DEF Others
  <2>2. In(j, tasks[j].doc)
    BY <1>3, <2>1 DEF PublishBase, TaskState
  <2> QED BY <2>1, <2>2 DEF In
<1> QED BY <1>2, <1>3 DEF PublishBase, PublishTypes, TypeOK

LEMMA CompareStep ==
  ASSUME PublishInv, NEW i \in DOMAIN tasks, CompareFingerprints(i)
  PROVE  PublishInv'
<1>1. PublishBase /\ PublishTypes /\ \A d \in Docs : Known(d)
  BY DEF PublishInv, PublishBase
<1> DEFINE changes == \/ tasks[i].old = "none" \/ FingerprintOf(stored[tasks[i].doc]) = "none"
                      \/ tasks[i].old # FingerprintOf(stored[tasks[i].doc])
           t == [tasks[i] EXCEPT !.step = "compared", !.changed = changes]
<1>2. /\ tasks[i].step = "applied" /\ tasks' = [tasks EXCEPT ![i] = t]
      /\ UNCHANGED <<fingerprint, begun, last, stored, open_docs, shown, inflight, late,
                     overtaken, overlapped>>
  BY DEF CompareFingerprints, store, history, taskUnchanged
<1>3. /\ t \in Task /\ t.doc = tasks[i].doc /\ t.text = tasks[i].text /\ t.step = "compared"
      /\ t.todo = tasks[i].todo /\ t.changed = changes
  BY <1>1, TaskTypes DEF Task, Steps
<1>4. tasks[i].doc \notin tasks[i].todo
  BY <1>1 DEF PublishBase, TaskState
<1> HIDE DEF t
<1>5. Others(i) /\ DOMAIN tasks' = DOMAIN tasks /\ tasks'[i] = t
  BY <1>1, <1>2, <1>3, GoesOn
<1>6. /\ Flights' /\ LateOnes'
      /\ inflight' \in [Docs -> Seq(Tasks)] /\ late' \subseteq Docs \X Tasks
      /\ shown' \in [Docs -> Snapshot]
      /\ \A d \in Docs : (Pending(d)' <=> Pending(d)) /\ Newest(d)' = Newest(d)
      /\ \A j \in DOMAIN tasks \ {i} : tasks'[j].step = "publish" => In(j, tasks[j].doc)'
  BY <1>1, <1>2, <1>5, Quiet
<1>7. PublishBase'
  <2>1. overtaken' \subseteq Docs
    BY <1>1, <1>2 DEF PublishTypes, TypeOK
  <2>2. \A j \in DOMAIN tasks' : tasks'[j].step = "publish" => In(j, tasks[j].doc)'
    BY <1>3, <1>5, <1>6
  <2> QED BY <1>1, <1>2, <1>3, <1>4, <1>5, <1>6, <2>1, <2>2, BaseKept
<1>8. ASSUME NEW d \in Docs PROVE Known(d)'
  <2>1. ASSUME NEW j \in DOMAIN tasks, OwnTask(tasks[j], d)
        PROVE  j \in DOMAIN tasks' /\ OwnTask(tasks[j], d)'
    BY <1>2, <1>3, <1>5, <2>1 DEF OwnTask, Others
  <2>2. ASSUME NEW p \in Docs, NEW j \in DOMAIN tasks, PeerTask(tasks[j], d, p)
        PROVE  j \in DOMAIN tasks' /\ PeerTask(tasks[j], d, p)'
    <3>1. CASE j = i
      <4>1. tasks[i].doc = p /\ tasks[i].old # FingerprintOf(stored[p])
        BY <1>2, <2>2, <3>1 DEF PeerTask
      <4>2. tasks'[i].doc = p /\ tasks'[i].changed /\ tasks'[i].step = "compared"
        BY <1>3, <1>5, <4>1
      <4> QED BY <1>5, <3>1, <4>2 DEF PeerTask
    <3>2. CASE j # i
      BY <1>2, <1>5, <2>2, <3>2 DEF PeerTask, Others, FingerprintOf
    <3> QED BY <3>1, <3>2
  <2> QED BY <1>1, <1>2, <1>6, <2>1, <2>2, KnownKept
<1> QED BY <1>7, <1>8 DEF PublishInv

LEMMA SupersededStep ==
  ASSUME PublishInv, NEW i \in DOMAIN tasks, CheckSuperseded(i)
  PROVE  PublishInv'
<1>1. PublishBase /\ PublishTypes /\ \A d \in Docs : Known(d)
  BY DEF PublishInv, PublishBase
<1> DEFINE t == tasks[i]
           superseded == stored[t.doc] \notin {0, t.text}
           next == IF superseded THEN IF t.changed THEN "peers" ELSE "done" ELSE "compute"
<1>2. /\ t.step = "compared"
      /\ IF next = "done" THEN Finish(i) ELSE Goto(i, next)
      /\ UNCHANGED <<fingerprint, begun, last, stored, open_docs, shown, inflight, late,
                     overtaken, overlapped>>
  BY DEF CheckSuperseded, WhenSuperseded, store, history, taskUnchanged
<1>3. t.doc \notin t.todo
  BY <1>1 DEF PublishBase, TaskState
<1>4. /\ Others(i)
      /\ next = "done" => DOMAIN tasks' = DOMAIN tasks \ {i}
      /\ next # "done" => DOMAIN tasks' = DOMAIN tasks /\ tasks'[i] = [t EXCEPT !.step = next]
  <2>1. CASE next = "done"
    BY <1>1, <1>2, <2>1, Finishes
  <2>2. CASE next # "done"
    <3> DEFINE u == [t EXCEPT !.step = next]
    <3>1. tasks' = [tasks EXCEPT ![i] = u]
      BY <1>2, <2>2 DEF Goto
    <3>2. u \in Task
      BY <1>1, <2>2, TaskTypes DEF Task, Steps
    <3> HIDE DEF u
    <3>3. Others(i) /\ DOMAIN tasks' = DOMAIN tasks /\ tasks'[i] = u
      BY <1>1, <3>1, <3>2, GoesOn
    <3> QED BY <2>2, <3>3 DEF u
  <2> QED BY <2>1, <2>2
<1>5. /\ i \in DOMAIN tasks' <=> next # "done"
      /\ next # "done" =>
           /\ tasks'[i].doc = t.doc /\ tasks'[i].text = t.text /\ tasks'[i].step = next
           /\ tasks'[i].todo = t.todo /\ tasks'[i].changed = t.changed
  BY <1>1, <1>4, TaskTypes DEF Task
<1>6. next \in {"peers", "compute", "done"}
  OBVIOUS
<1>7. /\ Flights' /\ LateOnes'
      /\ inflight' \in [Docs -> Seq(Tasks)] /\ late' \subseteq Docs \X Tasks
      /\ shown' \in [Docs -> Snapshot]
      /\ \A d \in Docs : (Pending(d)' <=> Pending(d)) /\ Newest(d)' = Newest(d)
      /\ \A j \in DOMAIN tasks \ {i} : tasks'[j].step = "publish" => In(j, tasks[j].doc)'
  BY <1>1, <1>2, <1>4, Quiet
<1>8. PublishBase'
  <2>1. overtaken' \subseteq Docs
    BY <1>1, <1>2 DEF PublishTypes, TypeOK
  <2>2. \A j \in DOMAIN tasks' : tasks'[j].step = "publish" => In(j, tasks[j].doc)'
    BY <1>4, <1>5, <1>6, <1>7 DEF Others
  <2>3. i \in DOMAIN tasks' =>
           /\ tasks'[i].doc = tasks[i].doc /\ tasks'[i].text = tasks[i].text
           /\ tasks'[i].step # "locked" /\ tasks'[i].doc \notin tasks'[i].todo
    BY <1>3, <1>5, <1>6
  <2> QED BY <1>1, <1>2, <1>4, <1>7, <2>1, <2>2, <2>3, BaseKept
<1>9. ASSUME NEW d \in Docs PROVE Known(d)'
  <2>1. ASSUME NEW j \in DOMAIN tasks, OwnTask(tasks[j], d)
        PROVE  j \in DOMAIN tasks' /\ OwnTask(tasks[j], d)'
    <3>1. CASE j = i
      <4>1. t.doc = d /\ next = "compute"
        BY <1>2, <2>1, <3>1 DEF OwnTask
      <4> QED BY <1>5, <3>1, <4>1 DEF OwnTask
    <3>2. CASE j # i
      BY <1>2, <1>4, <2>1, <3>2 DEF OwnTask, Others
    <3> QED BY <3>1, <3>2
  <2>2. ASSUME NEW p \in Docs, NEW j \in DOMAIN tasks, PeerTask(tasks[j], d, p)
        PROVE  j \in DOMAIN tasks' /\ PeerTask(tasks[j], d, p)'
    <3>1. CASE j = i
      <4>1. t.doc = p /\ t.changed
        BY <1>2, <2>2, <3>1 DEF PeerTask
      <4> QED BY <1>5, <1>6, <3>1, <4>1 DEF PeerTask
    <3>2. CASE j # i
      BY <1>2, <1>4, <2>2, <3>2 DEF PeerTask, Others, FingerprintOf
    <3> QED BY <3>1, <3>2
  <2> QED BY <1>1, <1>2, <1>7, <2>1, <2>2, KnownKept
<1> QED BY <1>8, <1>9 DEF PublishInv

LEMMA SelectStep ==
  ASSUME PublishInv, NEW i \in DOMAIN tasks, SelectPeers(i)
  PROVE  PublishInv'
<1>1. PublishBase /\ PublishTypes /\ \A d \in Docs : Known(d)
  BY DEF PublishInv, PublishBase
<1> DEFINE t == tasks[i]
           peers == open_docs \ {t.doc}
           u == [t EXCEPT !.step = "computing", !.todo = peers, !.results = NoResults]
<1>2. /\ t.step = "peers"
      /\ IF peers = {} THEN Finish(i) ELSE tasks' = [tasks EXCEPT ![i] = u]
      /\ UNCHANGED <<fingerprint, begun, last, stored, open_docs, shown, inflight, late,
                     overtaken, overlapped>>
  BY DEF SelectPeers, store, history, taskUnchanged
<1>3. /\ u \in Task /\ u.doc = t.doc /\ u.text = t.text /\ u.step = "computing" /\ u.todo = peers
  <2>1. peers \subseteq Docs
    BY <1>1 DEF PublishTypes, TypeOK
  <2> QED BY <1>1, <2>1, TaskTypes, PublishNumbers DEF Task, Steps
<1> HIDE DEF u
<1>4. /\ Others(i)
      /\ peers = {} => DOMAIN tasks' = DOMAIN tasks \ {i}
      /\ peers # {} => DOMAIN tasks' = DOMAIN tasks /\ tasks'[i] = u
  <2>1. CASE peers = {}
    BY <1>1, <1>2, <2>1, Finishes
  <2>2. CASE peers # {}
    BY <1>1, <1>2, <1>3, <2>2, GoesOn
  <2> QED BY <2>1, <2>2
<1>5. /\ Flights' /\ LateOnes'
      /\ inflight' \in [Docs -> Seq(Tasks)] /\ late' \subseteq Docs \X Tasks
      /\ shown' \in [Docs -> Snapshot]
      /\ \A d \in Docs : (Pending(d)' <=> Pending(d)) /\ Newest(d)' = Newest(d)
      /\ \A j \in DOMAIN tasks \ {i} : tasks'[j].step = "publish" => In(j, tasks[j].doc)'
  BY <1>1, <1>2, <1>4, Quiet
<1>6. PublishBase'
  <2>1. overtaken' \subseteq Docs
    BY <1>1, <1>2 DEF PublishTypes, TypeOK
  <2>2. \A j \in DOMAIN tasks' : tasks'[j].step = "publish" => In(j, tasks[j].doc)'
    BY <1>3, <1>4, <1>5 DEF Others
  <2>3. i \in DOMAIN tasks' =>
           /\ tasks'[i].doc = tasks[i].doc /\ tasks'[i].text = tasks[i].text
           /\ tasks'[i].step # "locked" /\ tasks'[i].doc \notin tasks'[i].todo
    BY <1>3, <1>4
  <2> QED BY <1>1, <1>2, <1>4, <1>5, <2>1, <2>2, <2>3, BaseKept
<1>7. ASSUME NEW d \in Docs PROVE Known(d)'
  <2>1. ASSUME NEW j \in DOMAIN tasks, OwnTask(tasks[j], d)
        PROVE  j \in DOMAIN tasks' /\ OwnTask(tasks[j], d)'
    BY <1>2, <1>4, <2>1 DEF OwnTask, Others
  <2>2. ASSUME NEW p \in Docs \ {d}, NEW j \in DOMAIN tasks, PeerTask(tasks[j], d, p), d \in open_docs
        PROVE  j \in DOMAIN tasks' /\ PeerTask(tasks[j], d, p)'
    <3>1. CASE j = i
      <4>1. t.doc = p /\ d \in peers
        BY <1>2, <2>2, <3>1 DEF PeerTask
      <4>2. tasks'[i].doc = p /\ tasks'[i].step = "computing" /\ d \in tasks'[i].todo
        BY <1>3, <1>4, <4>1
      <4> QED BY <1>4, <3>1, <4>1, <4>2 DEF PeerTask
    <3>2. CASE j # i
      BY <1>2, <1>4, <2>2, <3>2 DEF PeerTask, Others, FingerprintOf
    <3> QED BY <3>1, <3>2
  <2> QED BY <1>1, <1>2, <1>5, <2>1, <2>2, KnownKept
<1> QED BY <1>6, <1>7 DEF PublishInv

(* An edit that comes after what is stored changes what is stored ...      *)
LEMMA AppliedStep ==
  ASSUME PublishInv, NEW i \in DOMAIN tasks, ApplyChange(i),
         NEW d \in Docs, tasks[i].doc = d, stored[d] # 0, tasks[i].text > stored[d]
  PROVE  PublishInv'
<1>1. PublishBase /\ PublishTypes /\ \A e \in Docs : Known(e)
  BY DEF PublishInv, PublishBase
<1> DEFINE u == [tasks[i] EXCEPT !.step = "applied"]
<1>2. /\ tasks[i].step = "locked" /\ stored' = [stored EXCEPT ![d] = tasks[i].text]
      /\ tasks' = [tasks EXCEPT ![i] = u]
      /\ UNCHANGED <<fingerprint, begun, last, open_docs, shown, inflight, late,
                     overtaken, overlapped>>
  BY DEF ApplyChange, HoldsLock, Goto, history, taskUnchanged
<1>3. /\ u \in Task /\ u.doc = d /\ u.text = tasks[i].text /\ u.step = "applied"
      /\ u.todo = tasks[i].todo /\ u.old = tasks[i].old
      /\ tasks[i].text \in Text /\ tasks[i].text \in Nat
  BY <1>1, TaskTypes DEF Task, Steps
<1>4. tasks[i].text <= last[d] /\ d \notin tasks[i].todo
  BY <1>1 DEF PublishBase, TaskState
<1>5. /\ stored' \in Snapshot /\ stored'[d] = tasks[i].text
      /\ \A e \in Docs \ {d} : stored'[e] = stored[e]
      /\ stored[d] \in Nat /\ tasks[i].text > stored[d] /\ tasks[i].text # 0 /\ stored[d] # 0
  BY <1>1, <1>2, <1>3, TextTypes DEF PublishTypes, TypeOK, Snapshot
<1> HIDE DEF u
<1>6. Others(i) /\ DOMAIN tasks' = DOMAIN tasks /\ tasks'[i] = u
  BY <1>1, <1>2, <1>3, GoesOn
<1>7. /\ Flights' /\ LateOnes'
      /\ inflight' \in [Docs -> Seq(Tasks)] /\ late' \subseteq Docs \X Tasks
      /\ shown' \in [Docs -> Snapshot]
      /\ \A e \in Docs : (Pending(e)' <=> Pending(e)) /\ Newest(e)' = Newest(e)
      /\ \A j \in DOMAIN tasks \ {i} : tasks'[j].step = "publish" => In(j, tasks[j].doc)'
  BY <1>1, <1>2, <1>6, Quiet
<1>8. PublishBase'
  <2>1. PublishTypes'
    <3>1. \A j \in DOMAIN tasks' : tasks'[j] \in Task
      BY <1>6 DEF Others
    <3> QED BY <1>1, <1>2, <1>5, <1>6, <1>7, <3>1 DEF PublishTypes, TypeOK, Others, Snapshot
  <2>2. TaskState'
    <3> SUFFICES ASSUME NEW j \in DOMAIN tasks
                 PROVE  /\ tasks'[j].text <= last[tasks'[j].doc]
                        /\ tasks'[j].step = "publish" => In(j, tasks[j].doc)'
                        /\ tasks'[j].doc \notin tasks'[j].todo
      BY <1>2, <1>6 DEF TaskState
    <3>1. CASE j = i
      BY <1>3, <1>4, <1>6, <3>1
    <3>2. CASE j # i
      BY <1>1, <1>6, <1>7, <3>2 DEF Others, PublishBase, TaskState
    <3> QED BY <3>1, <3>2
  <2>3. StoreState'
    <3>1. \A e \in Docs : stored[e] <= last[e] /\ (e \in open_docs => stored[e] # 0)
      BY <1>1 DEF PublishBase, StoreState
    <3> QED BY <1>2, <1>4, <1>5, <3>1 DEF StoreState
  <2>4. LockState'
    <3> SUFFICES ASSUME NEW j \in DOMAIN tasks', tasks'[j].step = "locked",
                        tasks'[j].doc \notin overlapped
                 PROVE  /\ \A k \in DOMAIN tasks' :
                             tasks'[k].step = "locked" /\ tasks'[k].doc = tasks'[j].doc => k = j
                        /\ stored'[tasks'[j].doc] # 0 /\ stored'[tasks'[j].doc] < tasks'[j].text =>
                             tasks'[j].old = FingerprintOf(stored[tasks[j].doc])'
      BY <1>2 DEF LockState
    <3>1. j # i /\ tasks'[j] = tasks[j] /\ j \in DOMAIN tasks
      BY <1>3, <1>6 DEF Others
    <3>2. tasks[j].doc # d /\ tasks[j].doc \in Docs
      BY <1>1, <1>2, <3>1, TaskTypes DEF PublishBase, LockState
    <3>3. stored'[tasks[j].doc] = stored[tasks[j].doc]
      BY <1>5, <3>2
    <3>4. FingerprintOf(stored[tasks[j].doc])' = FingerprintOf(stored[tasks[j].doc])
      BY <1>2, <3>1, <3>3 DEF FingerprintOf
    <3> QED BY <1>1, <1>3, <1>6, <3>1, <3>3, <3>4 DEF PublishBase, LockState, Others
  <2> QED BY <1>7, <2>1, <2>2, <2>3, <2>4 DEF PublishBase
<1>9. ASSUME NEW e \in Docs, Pending(e)' \/ e \notin overtaken'
      PROVE  /\ OwnKnown(e) /\ Newest(e)' = Newest(e)
             /\ \A p \in Docs \ (overlapped \cup {e}) : PeerKnown(e, p)
  BY <1>1, <1>2, <1>7, <1>9 DEF Known
<1>10. ASSUME NEW e \in Docs, OwnKnown(e), Newest(e)' = Newest(e) PROVE OwnKnown(e)'
  <2>1. CASE e = d
    <3>1. OwnTask(tasks[i], d)'
      BY <1>3, <1>5, <1>6 DEF OwnTask
    <3> QED BY <1>6, <2>1, <3>1 DEF OwnKnown, OwnDue
  <2>2. CASE e # d
    <3>1. ASSUME NEW j \in DOMAIN tasks, OwnTask(tasks[j], e)
          PROVE  j \in DOMAIN tasks' /\ OwnTask(tasks[j], e)'
      BY <1>2, <1>5, <1>6, <2>2, <3>1 DEF OwnTask, Others
    <3> QED BY <1>5, <1>10, <2>2, <3>1, OwnKept
  <2> QED BY <2>1, <2>2
<1>11. ASSUME NEW e \in Docs, NEW p \in Docs \ (overlapped \cup {e}), PeerKnown(e, p),
              Newest(e)' = Newest(e)
       PROVE  PeerKnown(e, p)'
  <2>1. CASE p # d
    <3>1. ASSUME NEW j \in DOMAIN tasks, PeerTask(tasks[j], e, p)
          PROVE  j \in DOMAIN tasks' /\ PeerTask(tasks[j], e, p)'
      BY <1>2, <1>5, <1>6, <2>1, <3>1 DEF PeerTask, Others, FingerprintOf
    <3> QED BY <1>2, <1>5, <1>11, <2>1, <3>1, PeerKept
  <2>2. CASE p = d
    <3> SUFFICES ASSUME e \in open_docs
                 PROVE  FingerprintOf(Newest(e)[d])' = FingerprintOf(stored[d])' \/ PeerDue(e, d)'
      BY <1>2, <2>2 DEF PeerKnown
    <3>1. FingerprintOf(Newest(e)[d]) = FingerprintOf(stored[d]) \/ PeerDue(e, d)
      BY <1>5, <1>11, <2>2 DEF PeerKnown
    <3>2. tasks[i].old = FingerprintOf(stored[d])
      BY <1>1, <1>2, <1>5, <2>2 DEF PublishBase, LockState
    <3>3. FingerprintOf(Newest(e)[d])' = FingerprintOf(Newest(e)[d])
      BY <1>2, <1>11 DEF FingerprintOf
    <3>4. CASE FingerprintOf(stored[d])' = FingerprintOf(stored[d])
      <4>1. ASSUME NEW j \in DOMAIN tasks, PeerTask(tasks[j], e, d)
            PROVE  j \in DOMAIN tasks' /\ PeerTask(tasks[j], e, d)'
        <5>1. j # i
          BY <1>2, <4>1 DEF PeerTask
        <5>2. tasks'[j] = tasks[j]
          BY <1>6, <5>1 DEF Others
        <5> QED BY <1>6, <3>4, <4>1, <5>2 DEF PeerTask
      <4> QED BY <3>1, <3>3, <3>4, <4>1 DEF PeerDue
    <3>5. CASE FingerprintOf(stored[d])' # FingerprintOf(stored[d])
      <4>1. PeerTask(tasks[i], e, d)'
        BY <1>3, <1>6, <3>2, <3>5 DEF PeerTask
      <4> QED BY <1>6, <4>1 DEF PeerDue
    <3> QED BY <3>4, <3>5
  <2> QED BY <2>1, <2>2
<1> QED BY <1>2, <1>8, <1>9, <1>10, <1>11 DEF PublishInv, Known

(* ... and one that does not is dropped.                                   *)
LEMMA DroppedStep ==
  ASSUME PublishInv, NEW i \in DOMAIN tasks, ApplyChange(i),
         ~(stored[tasks[i].doc] # 0 /\ tasks[i].text > stored[tasks[i].doc])
  PROVE  PublishInv'
<1>1. PublishBase /\ PublishTypes /\ \A d \in Docs : Known(d)
  BY DEF PublishInv, PublishBase
<1>2. /\ tasks[i].step = "locked" /\ Finish(i)
      /\ UNCHANGED <<fingerprint, begun, last, stored, open_docs, shown, inflight, late,
                     overtaken, overlapped>>
  BY DEF ApplyChange, HoldsLock, history, taskUnchanged
<1>3. Others(i) /\ DOMAIN tasks' = DOMAIN tasks \ {i}
  BY <1>1, <1>2, Finishes
<1>4. /\ Flights' /\ LateOnes'
      /\ inflight' \in [Docs -> Seq(Tasks)] /\ late' \subseteq Docs \X Tasks
      /\ shown' \in [Docs -> Snapshot]
      /\ \A d \in Docs : (Pending(d)' <=> Pending(d)) /\ Newest(d)' = Newest(d)
      /\ \A j \in DOMAIN tasks \ {i} : tasks'[j].step = "publish" => In(j, tasks[j].doc)'
  BY <1>1, <1>2, <1>3, Quiet
<1>5. PublishBase'
  <2>1. overtaken' \subseteq Docs
    BY <1>1, <1>2 DEF PublishTypes, TypeOK
  <2> QED BY <1>1, <1>2, <1>3, <1>4, <2>1, BaseKept
<1>6. ASSUME NEW d \in Docs PROVE Known(d)'
  <2>1. \A j \in DOMAIN tasks : OwnTask(tasks[j], d) =>
           j \in DOMAIN tasks' /\ OwnTask(tasks[j], d)'
    BY <1>2, <1>3 DEF OwnTask, Others
  <2>2. \A p \in Docs \ {d} : \A j \in DOMAIN tasks : PeerTask(tasks[j], d, p) =>
           j \in DOMAIN tasks' /\ PeerTask(tasks[j], d, p)'
    BY <1>2, <1>3 DEF PeerTask, Others, FingerprintOf
  <2> QED BY <1>1, <1>2, <1>4, <2>1, <2>2, KnownKept
<1> QED BY <1>5, <1>6 DEF PublishInv

-----------------------------------------------------------------------------
(* The steps that compute and publish.                                     *)

LEMMA ComputeStep ==
  ASSUME PublishInv, NEW i \in DOMAIN tasks, NEW d \in Docs, NEW step,
         Compute(i, d, step),
         \/ tasks[i].step = "compute" /\ tasks[i].doc = d /\ step = "publish"
         \/ /\ tasks[i].step = "computing" /\ d \in tasks[i].todo
            /\ step = IF tasks[i].todo = {d} THEN "pushing" ELSE "computing"
  PROVE  PublishInv'
<1>1. PublishBase /\ PublishTypes /\ \A e \in Docs : Known(e)
  BY DEF PublishInv, PublishBase
<1> DEFINE t == tasks[i]
           u == [t EXCEPT !.results = [@ EXCEPT ![d] = Computed(d)], !.step = step, !.todo = @ \ {d}]
<1>2. /\ tasks' = [tasks EXCEPT ![i] = u]
      /\ inflight' = [inflight EXCEPT ![d] = Append(@, i)]
      /\ UNCHANGED <<fingerprint, begun, last, stored, open_docs, shown, late,
                     overtaken, overlapped>>
  BY <1>1, TaskTypes DEF Compute, Task, store, taskUnchanged
<1>3. /\ u \in Task /\ u.doc = t.doc /\ u.text = t.text /\ u.step = step
      /\ u.todo = t.todo \ {d} /\ u.changed = t.changed /\ i \in Tasks
      /\ u.results[d] = Computed(d) /\ \A e \in Docs \ {d} : u.results[e] = t.results[e]
  <2>1. t \in Task /\ t.results \in [Docs -> Snapshot] /\ t.todo \subseteq Docs /\ i \in Tasks
    BY <1>1, TaskTypes
  <2>2. Computed(d) \in Snapshot /\ step \in Steps
    BY <1>1, TextTypes DEF Steps
  <2>3. [t.results EXCEPT ![d] = Computed(d)] \in [Docs -> Snapshot]
    BY <2>1, <2>2
  <2> QED BY <2>1, <2>2, <2>3 DEF Task
<1>4. t.doc \notin t.todo
  BY <1>1 DEF PublishBase, TaskState
<1> HIDE DEF u
<1>5. Others(i) /\ DOMAIN tasks' = DOMAIN tasks /\ tasks'[i] = u
  BY <1>1, <1>2, <1>3, GoesOn
<1>6. \A e \in Docs : In(i, e) => t.step = "computing" /\ t.doc # e /\ e \notin t.todo
  BY <1>1, <1>3 DEF PublishBase, Flights, SendsTo
<1>7. ~In(i, d) /\ SendsTo(tasks'[i], d)
  BY <1>3, <1>4, <1>5, <1>6 DEF SendsTo
<1>8. ASSUME NEW e \in Docs, NEW j \in Tasks, In(j, e)
      PROVE  /\ j \in DOMAIN tasks' /\ SendsTo(tasks'[j], e)
             /\ tasks'[j].results[e] = tasks[j].results[e]
  <2>1. CASE j = i
    <3>1. e # d /\ e \notin t.todo /\ t.doc # e /\ t.step = "computing"
      BY <1>6, <1>7, <1>8, <2>1
    <3> QED BY <1>3, <1>5, <2>1, <3>1 DEF SendsTo
  <2>2. CASE j # i
    BY <1>1, <1>5, <1>8, <2>2 DEF PublishBase, Flights, SendsTo, Others
  <2> QED BY <2>1, <2>2
<1>9. /\ Flights' /\ LateOnes' /\ inflight' \in [Docs -> Seq(Tasks)]
      /\ \A e \in Docs : \A j : In(j, e)' <=> In(j, e) \/ (j = i /\ e = d)
      /\ Pending(d)' /\ Newest(d)' = tasks'[i].results[d]
      /\ \A e \in Docs \ {d} : (Pending(e)' <=> Pending(e)) /\ Newest(e)' = Newest(e)
  BY <1>1, <1>2, <1>3, <1>5, <1>7, <1>8, Queued
<1>10. PublishBase'
  <2>1. ASSUME NEW j \in DOMAIN tasks', tasks'[j].step = "publish" PROVE In(j, tasks[j].doc)'
    <3>1. CASE j = i
      BY <1>3, <1>5, <1>9, <2>1, <3>1
    <3>2. CASE j # i
      <4>1. tasks'[j] = tasks[j] /\ j \in DOMAIN tasks
        BY <1>5, <3>2 DEF Others
      <4>2. In(j, tasks[j].doc) /\ tasks[j].doc \in Docs
        BY <1>1, <2>1, <4>1, TaskTypes DEF PublishBase, TaskState
      <4> QED BY <1>9, <4>1, <4>2
    <3> QED BY <3>1, <3>2
  <2>2. tasks'[i].step # "locked"
    BY <1>3, <1>5
  <2> QED BY <1>1, <1>2, <1>3, <1>4, <1>5, <1>9, <2>1, <2>2, BaseKept DEF PublishTypes, TypeOK
<1>11. ASSUME NEW e \in Docs \ {d} PROVE Known(e)'
  <2>1. ASSUME NEW j \in DOMAIN tasks, OwnTask(tasks[j], e)
        PROVE  j \in DOMAIN tasks' /\ OwnTask(tasks[j], e)'
    <3>1. j # i
      BY <1>11, <2>1 DEF OwnTask
    <3> QED BY <1>2, <1>5, <2>1, <3>1 DEF OwnTask, Others
  <2>2. ASSUME NEW p \in Docs \ {e}, NEW j \in DOMAIN tasks, PeerTask(tasks[j], e, p)
        PROVE  j \in DOMAIN tasks' /\ PeerTask(tasks[j], e, p)'
    <3>1. CASE j = i /\ t.step = "compute"
      <4>1. t.doc = p /\ t.changed /\ step = "publish"
        BY <1>11, <2>2, <3>1 DEF PeerTask
      <4> QED BY <1>3, <1>5, <3>1, <4>1 DEF PeerTask
    <3>2. CASE j = i /\ t.step # "compute"
      <4>1. t.doc = p /\ e \in t.todo \ {d} /\ step = "computing"
        BY <1>11, <2>2, <3>2 DEF PeerTask
      <4> QED BY <1>3, <1>5, <3>2, <4>1 DEF PeerTask
    <3>3. CASE j # i
      BY <1>2, <1>5, <2>2, <3>3 DEF PeerTask, Others, FingerprintOf
    <3> QED BY <3>1, <3>2, <3>3
  <2> QED BY <1>1, <1>2, <1>9, <2>1, <2>2, KnownKept
<1>12. Known(d)'
  <2>1. Newest(d)' = Computed(d)
    BY <1>3, <1>5, <1>9
  <2>2. Computed(d)[d] = stored[d]
    BY PublishNumbers DEF Computed
  <2>3. OwnKnown(d)'
    BY <1>2, <2>1, <2>2 DEF OwnKnown
  <2>4. ASSUME NEW p \in Docs, d \in open_docs'
        PROVE  FingerprintOf(Newest(d)[p])' = FingerprintOf(stored[p])'
    <3>1. stored[d] # 0
      BY <1>1, <1>2, <2>4 DEF PublishBase, StoreState
    <3>2. Newest(d)'[p] = stored[p]
      BY <2>1, <3>1 DEF Computed
    <3> QED BY <1>2, <3>2 DEF FingerprintOf
  <2> QED BY <2>3, <2>4 DEF Known, PeerKnown
<1> QED BY <1>10, <1>11, <1>12 DEF PublishInv

LEMMA PublishStep ==
  ASSUME PublishInv, NEW i \in DOMAIN tasks, NEW d \in Docs, In(i, d), Publish(i, d), Others(i),
         fingerprint' = fingerprint, begun' = begun,
         i \in DOMAIN tasks' =>
           /\ tasks'[i].doc = tasks[i].doc /\ tasks'[i].text = tasks[i].text
           /\ tasks'[i].step \in {"peers", "pushing"} /\ tasks'[i].todo = tasks[i].todo,
         \A e \in Docs \ {d} : In(i, e) => i \in DOMAIN tasks' /\ tasks'[i] = tasks[i],
         tasks[i].step \in {"publish", "pushing"},
         tasks[i].step = "publish" /\ tasks[i].changed =>
           i \in DOMAIN tasks' /\ tasks'[i].step = "peers" /\ tasks'[i].changed
  PROVE  PublishInv'
<1>1. PublishBase /\ PublishTypes /\ (\A e \in Docs : Known(e)) /\ i \in Tasks
  BY TaskTypes DEF PublishInv, PublishBase
<1>2. /\ UNCHANGED <<last, stored, open_docs, overlapped, fingerprint, begun>>
      /\ shown' = [shown EXCEPT ![d] = tasks[i].results[d]]
      /\ overtaken' \subseteq Docs
  BY <1>1 DEF Publish, store, PublishTypes, TypeOK
<1>3. shown' \in [Docs -> Snapshot]
  <2>1. tasks[i].results[d] \in Snapshot /\ shown \in [Docs -> Snapshot]
    BY <1>1, TaskTypes DEF PublishTypes, TypeOK
  <2> QED BY <1>2, <2>1
<1>4. ASSUME NEW e \in Docs, NEW j \in Tasks, In(j, e), ~(j = i /\ e = d)
      PROVE  /\ j \in DOMAIN tasks' /\ SendsTo(tasks'[j], e)
             /\ tasks'[j].results[e] = tasks[j].results[e]
  <2>1. j \in DOMAIN tasks /\ SendsTo(tasks[j], e)
    BY <1>1, <1>4 DEF PublishBase, Flights
  <2>2. j \in DOMAIN tasks' /\ tasks'[j] = tasks[j]
    BY <1>4, <2>1 DEF Others
  <2> QED BY <2>1, <2>2
<1>5. /\ Flights' /\ LateOnes' /\ inflight' \in [Docs -> Seq(Tasks)]
      /\ late' \subseteq Docs \X Tasks
      /\ \A e \in Docs : \A j : In(j, e)' <=> In(j, e) /\ ~(j = i /\ e = d)
      /\ Pending(d)' \/ d \notin overtaken' => Pending(d) /\ Newest(d)' = Newest(d)
      /\ \A e \in Docs \ {d} : /\ (Pending(e)' <=> Pending(e)) /\ Newest(e)' = Newest(e)
                               /\ e \in overtaken' <=> e \in overtaken
  BY <1>1, <1>4, Sends
<1>6. PublishBase'
  <2>1. ASSUME NEW j \in DOMAIN tasks', tasks'[j].step = "publish" PROVE In(j, tasks[j].doc)'
    <3>1. j # i
      BY <2>1
    <3>2. tasks'[j] = tasks[j] /\ j \in DOMAIN tasks
      BY <3>1 DEF Others
    <3>3. In(j, tasks[j].doc) /\ tasks[j].doc \in Docs
      BY <1>1, <2>1, <3>2, TaskTypes DEF PublishBase, TaskState
    <3> QED BY <1>5, <3>1, <3>2, <3>3
  <2>2. tasks[i].doc \notin tasks[i].todo
    BY <1>1 DEF PublishBase, TaskState
  <2> QED BY <1>1, <1>2, <1>3, <1>5, <2>1, <2>2, BaseKept
<1>7. ASSUME NEW e \in Docs PROVE Known(e)'
  <2>1. ASSUME NEW j \in DOMAIN tasks, OwnTask(tasks[j], e)
        PROVE  j \in DOMAIN tasks' /\ OwnTask(tasks[j], e)'
    BY <1>2, <2>1 DEF OwnTask, Others
  <2>2. ASSUME NEW p \in Docs, NEW j \in DOMAIN tasks, PeerTask(tasks[j], e, p)
        PROVE  j \in DOMAIN tasks' /\ PeerTask(tasks[j], e, p)'
    <3>1. CASE j = i
      <4>1. tasks[i].doc = p /\ tasks[i].changed /\ tasks[i].step = "publish"
        BY <2>2, <3>1 DEF PeerTask
      <4> QED BY <3>1, <4>1 DEF PeerTask
    <3>2. CASE j # i
      BY <1>2, <2>2, <3>2 DEF PeerTask, Others, FingerprintOf
    <3> QED BY <3>1, <3>2
  <2>3. Pending(e)' \/ e \notin overtaken' =>
          (Pending(e) \/ e \notin overtaken) /\ Newest(e)' = Newest(e)
    <3>1. CASE e = d
      BY <1>5, <3>1
    <3>2. CASE e # d
      BY <1>5, <3>2
    <3> QED BY <3>1, <3>2
  <2> QED BY <1>1, <1>2, <2>1, <2>2, <2>3, KnownKept
<1> QED BY <1>6, <1>7 DEF PublishInv

LEMMA PublishOwnStep ==
  ASSUME PublishInv, NEW i \in DOMAIN tasks, PublishOwn(i)
  PROVE  PublishInv'
<1>1. PublishBase /\ PublishTypes
  BY DEF PublishInv, PublishBase
<1> DEFINE t == tasks[i]
           u == [t EXCEPT !.step = "peers"]
<1>2. /\ t.step = "publish" /\ Publish(i, t.doc)
      /\ IF t.changed THEN tasks' = [tasks EXCEPT ![i] = u] ELSE Finish(i)
  BY DEF PublishOwn, PeersFollow, Goto
<1>3. /\ u \in Task /\ u.doc = t.doc /\ u.text = t.text /\ u.step = "peers"
      /\ u.todo = t.todo /\ u.changed = t.changed /\ t.doc \in Docs /\ i \in Tasks
  BY <1>1, TaskTypes DEF Task, Steps
<1> HIDE DEF u
<1>4. /\ Others(i)
      /\ i \in DOMAIN tasks' <=> t.changed
      /\ t.changed => tasks'[i] = u
  <2>1. CASE t.changed
    BY <1>1, <1>2, <1>3, <2>1, GoesOn
  <2>2. CASE ~t.changed
    BY <1>1, <1>2, <2>2, Finishes
  <2> QED BY <2>1, <2>2
<1>5. In(i, t.doc)
  BY <1>1, <1>2 DEF PublishBase, TaskState
<1>6. \A e \in Docs \ {t.doc} : ~In(i, e)
  BY <1>1, <1>2, <1>3 DEF PublishBase, Flights, SendsTo
<1>7. UNCHANGED <<fingerprint, begun>>
  BY <1>2 DEF Publish, taskUnchanged
<1>8. i \in DOMAIN tasks' =>
           /\ tasks'[i].doc = tasks[i].doc /\ tasks'[i].text = tasks[i].text
           /\ tasks'[i].step = "peers" /\ tasks'[i].todo = tasks[i].todo
           /\ tasks'[i].changed = tasks[i].changed
  BY <1>3, <1>4
<1>9. PICK d \in Docs : d = t.doc
  BY <1>3
<1>10. In(i, d) /\ Publish(i, d) /\ \A e \in Docs \ {d} : ~In(i, e)
  BY <1>2, <1>5, <1>6, <1>9
<1> QED BY <1>2, <1>4, <1>7, <1>8, <1>10, PublishStep

LEMMA PublishPeerStep ==
  ASSUME PublishInv, NEW i \in DOMAIN tasks, NEW p \in Docs, PublishPeer(i, p)
  PROVE  PublishInv'
<1>1. PublishBase /\ PublishTypes
  BY DEF PublishInv, PublishBase
<1>2. /\ tasks[i].step = "pushing" /\ Publish(i, p) /\ In(i, p)
      /\ IF \E q \in Docs \ {p} : In(i, q) THEN tasks' = tasks ELSE Finish(i)
  BY DEF PublishPeer, In
<1>3. UNCHANGED <<fingerprint, begun>>
  BY <1>2 DEF Publish, taskUnchanged
<1>4. CASE \E q \in Docs \ {p} : In(i, q)
  <2>1. tasks' = tasks
    BY <1>2, <1>4
  <2>2. Others(i)
    BY <1>1, <2>1 DEF Others, PublishTypes
  <2> QED BY <1>2, <1>3, <2>1, <2>2, PublishStep
<1>5. CASE ~ \E q \in Docs \ {p} : In(i, q)
  <2>1. Others(i) /\ DOMAIN tasks' = DOMAIN tasks \ {i}
    BY <1>1, <1>2, <1>5, Finishes
  <2> QED BY <1>2, <1>3, <1>5, <2>1, PublishStep
<1> QED BY <1>4, <1>5

-----------------------------------------------------------------------------
(* How tasks begin.                                                        *)

(* The task that begins is the only one that changes, and what the store   *)
(* holds of the other documents stays.                                     *)
Begins(d, t) ==
  /\ begun < MaxTasks /\ begun' = begun + 1
  /\ tasks' = [i \in DOMAIN tasks \cup {begun + 1} |-> IF i \in DOMAIN tasks THEN tasks[i] ELSE t]
  /\ t.doc = d /\ t.todo = {} /\ t.results = NoResults
  /\ stored' \in Snapshot /\ last' \in Snapshot /\ open_docs' \subseteq Docs
  /\ \A e \in Docs : last[e] <= last'[e]
  /\ \A e \in Docs \ {d} : /\ stored'[e] = stored[e] /\ last'[e] = last[e]
                           /\ e \in open_docs' <=> e \in open_docs
  /\ stored'[d] <= last'[d] /\ (d \in open_docs' => stored'[d] # 0)
  /\ t.text <= last'[d]
  /\ UNCHANGED <<fingerprint, shown, late, overtaken>>
  /\ overlapped \subseteq overlapped' /\ overlapped' \subseteq Docs

LEMMA BeginBase ==
  ASSUME PublishBase, NEW d \in Docs, NEW t \in Task, Begins(d, t),
         NEW n \in Nat, n = begun + 1,
         Flights', LateOnes', inflight' \in [Docs -> Seq(Tasks)],
         \A j : \A e \in Docs : In(j, e) => In(j, e)',
         t.step = "publish" => In(n, d)',
         \/ stored'[d] = 0
         \/ \A j \in DOMAIN tasks : tasks[j].doc = d => tasks[j].text <= stored'[d]
         \/ stored'[d] = stored[d],
         t.step = "locked" =>
           /\ stored'[d] = stored[d] /\ t.old = FingerprintOf(stored[d])
           /\ d \in overlapped' \/ \A j \in DOMAIN tasks : tasks[j].doc = d => tasks[j].step # "locked"
  PROVE  PublishBase'
<1>1. PublishTypes
  BY DEF PublishBase
<1>2. /\ n \in Tasks /\ n \notin DOMAIN tasks /\ begun' \in 0 .. MaxTasks
      /\ DOMAIN tasks' = DOMAIN tasks \cup {n} /\ DOMAIN tasks' \subseteq 1 .. begun'
      /\ tasks' \in [DOMAIN tasks' -> Task] /\ tasks'[n] = t
      /\ \A j \in DOMAIN tasks : tasks'[j] = tasks[j]
  BY <1>1, Started DEF Begins
<1>3. PublishTypes'
  <2>1. \A j \in DOMAIN tasks' : tasks'[j] \in Task
    BY <1>2
  <2> QED BY <1>1, <1>2, <2>1 DEF PublishTypes, TypeOK, Begins
<1>4. \A e \in Docs : last'[e] \in Nat /\ last[e] \in Nat /\ last[e] <= last'[e]
  <2>1. \A e \in Docs : last'[e] \in Nat
    BY PublishNumbers DEF Begins, Snapshot
  <2> QED BY <1>1, <2>1, TextTypes DEF Begins
<1>5. \A j \in DOMAIN tasks : /\ tasks[j].text \in Nat /\ tasks[j].doc \in Docs
                              /\ tasks[j].text <= last[tasks[j].doc]
                              /\ tasks[j].step = "publish" => In(j, tasks[j].doc)
                              /\ tasks[j].doc \notin tasks[j].todo
  BY <1>1, TaskTypes DEF PublishBase, TaskState
<1>6. TaskState'
  <2> SUFFICES ASSUME NEW j \in DOMAIN tasks'
               PROVE  /\ tasks'[j].text <= last'[tasks'[j].doc]
                      /\ tasks'[j].step = "publish" => In(j, tasks[j].doc)'
                      /\ tasks'[j].doc \notin tasks'[j].todo
    BY DEF TaskState
  <2>1. CASE j = n
    <3>1. In(n, tasks[n].doc)' <=> In(n, d)'
      BY <1>2 DEF Begins, In
    <3> QED BY <1>2, <2>1, <3>1 DEF Begins
  <2>2. CASE j \in DOMAIN tasks
    <3>1. tasks'[j] = tasks[j]
      BY <1>2, <2>2
    <3>2. tasks[j].text <= last'[tasks[j].doc]
      BY <1>4, <1>5, <2>2
    <3>3. tasks[j].step = "publish" => In(j, tasks[j].doc)'
      <4>1. PICK e \in Docs : e = tasks[j].doc
        BY <1>5, <2>2
      <4>2. In(j, e) => In(j, e)'
        OBVIOUS
      <4>3. In(j, tasks[j].doc)' <=> In(j, e)'
        BY <3>1, <4>1 DEF In
      <4> QED BY <1>5, <2>2, <4>1, <4>2, <4>3
    <3> QED BY <1>5, <2>2, <3>1, <3>2, <3>3
  <2>3. j = n \/ j \in DOMAIN tasks
    BY <1>2
  <2> QED BY <2>1, <2>2, <2>3
<1>7. StoreState'
  <2> SUFFICES ASSUME NEW e \in Docs PROVE stored'[e] <= last'[e] /\ (e \in open_docs' => stored'[e] # 0)
    BY DEF StoreState
  <2> QED BY DEF Begins, PublishBase, StoreState
<1>8. LockState'
  <2> SUFFICES ASSUME NEW j \in DOMAIN tasks', tasks'[j].step = "locked",
                      tasks'[j].doc \notin overlapped'
               PROVE  /\ \A k \in DOMAIN tasks' :
                           tasks'[k].step = "locked" /\ tasks'[k].doc = tasks'[j].doc => k = j
                      /\ stored'[tasks'[j].doc] # 0 /\ stored'[tasks'[j].doc] < tasks'[j].text =>
                           tasks'[j].old = FingerprintOf(stored[tasks[j].doc])'
    BY DEF LockState
  <2>1. CASE j = n
    <3>1. /\ tasks'[j] = t /\ t.doc = d /\ t.step = "locked" /\ d \notin overlapped'
          /\ stored'[d] = stored[d] /\ t.old = FingerprintOf(stored[d])
          /\ \A k \in DOMAIN tasks : tasks[k].doc = d => tasks[k].step # "locked"
      BY <1>2, <2>1 DEF Begins
    <3>2. FingerprintOf(stored[tasks[j].doc])' = FingerprintOf(stored[d])
      BY <3>1 DEF FingerprintOf, Begins
    <3> QED BY <1>2, <2>1, <3>1, <3>2
  <2>2. CASE j \in DOMAIN tasks
    <3>1. /\ tasks'[j] = tasks[j] /\ tasks[j].step = "locked"
          /\ tasks[j].doc \notin overlapped /\ tasks[j].doc \in Docs
      BY <1>2, <1>5, <2>2 DEF Begins
    <3>2. /\ \A k \in DOMAIN tasks : tasks[k].step = "locked" /\ tasks[k].doc = tasks[j].doc => k = j
          /\ stored[tasks[j].doc] # 0 /\ stored[tasks[j].doc] < tasks[j].text =>
               tasks[j].old = FingerprintOf(stored[tasks[j].doc])
      BY <2>2, <3>1 DEF PublishBase, LockState
    <3>3. t.step = "locked" => tasks[j].doc # d
      BY <1>2, <2>2, <3>1
    <3>4. \A k \in DOMAIN tasks' :
            tasks'[k].step = "locked" /\ tasks'[k].doc = tasks'[j].doc => k = j
      BY <1>2, <3>1, <3>2, <3>3 DEF Begins
    <3>5. CASE stored'[tasks[j].doc] = stored[tasks[j].doc]
      <4>1. FingerprintOf(stored[tasks[j].doc])' = FingerprintOf(stored[tasks[j].doc])
        BY <3>1, <3>5 DEF FingerprintOf, Begins
      <4> QED BY <3>1, <3>2, <3>4, <3>5, <4>1
    <3>6. CASE stored'[tasks[j].doc] # stored[tasks[j].doc]
      <4>1. tasks[j].doc = d
        BY <3>1, <3>6 DEF Begins
      <4>2. stored'[d] \in Nat
        BY PublishNumbers DEF Begins, Snapshot
      <4>3. stored'[d] = 0 \/ tasks[j].text <= stored'[d]
        BY <2>2, <3>6, <4>1
      <4>4. ~(stored'[tasks'[j].doc] # 0 /\ stored'[tasks'[j].doc] < tasks'[j].text)
        BY <1>5, <2>2, <3>1, <4>1, <4>2, <4>3
      <4> QED BY <3>4, <4>4
    <3> QED BY <3>5, <3>6
  <2>3. j = n \/ j \in DOMAIN tasks
    BY <1>2
  <2> QED BY <2>1, <2>2, <2>3
<1> QED BY <1>3, <1>6, <1>7, <1>8 DEF PublishBase

(* The other documents' results are as new as they were: what a task that  *)
(* begins stores, it will tell them of.                                    *)
LEMMA OthersKnown ==
  ASSUME PublishInv, NEW d \in Docs, NEW t \in Task, Begins(d, t), NEW e \in Docs \ {d},
         Pending(e)' <=> Pending(e), Newest(e)' = Newest(e),
         (t.step = "compute" /\ t.changed) \/ stored'[d] = 0 \/ stored'[d] = stored[d]
  PROVE  Known(e)'
<1>1. PICK n \in Nat : n = begun + 1
  BY PublishNumbers DEF PublishInv, PublishBase, PublishTypes, TypeOK
<1>2. DOMAIN tasks' = DOMAIN tasks \cup {n} /\ tasks'[n] = t /\ \A j \in DOMAIN tasks : tasks'[j] = tasks[j]
  BY <1>1, Started DEF PublishInv, PublishBase, Begins
<1>3. /\ stored'[e] = stored[e] /\ fingerprint' = fingerprint /\ overlapped \subseteq overlapped'
      /\ e \in open_docs' => e \in open_docs
      /\ \A p \in Docs \ {d} : stored'[p] = stored[p]
      /\ t.doc = d
  BY DEF Begins
<1> SUFFICES ASSUME Pending(e)' \/ e \notin overtaken'
             PROVE  OwnKnown(e)' /\ \A p \in Docs \ (overlapped' \cup {e}) : PeerKnown(e, p)'
  BY DEF Known
<1>4. OwnKnown(e) /\ \A p \in Docs \ (overlapped' \cup {e}) : PeerKnown(e, p)
  BY <1>3 DEF PublishInv, Known, Begins
<1>5. OwnKnown(e)'
  <2>1. ASSUME NEW j \in DOMAIN tasks, OwnTask(tasks[j], e)
        PROVE  j \in DOMAIN tasks' /\ OwnTask(tasks[j], e)'
    BY <1>2, <1>3, <2>1 DEF OwnTask
  <2> QED BY <1>3, <1>4, <2>1, OwnKept
<1>6. ASSUME NEW p \in Docs \ (overlapped' \cup {e}) PROVE PeerKnown(e, p)'
  <2>1. CASE stored'[p] = stored[p]
    <3>1. ASSUME NEW j \in DOMAIN tasks, PeerTask(tasks[j], e, p)
          PROVE  j \in DOMAIN tasks' /\ PeerTask(tasks[j], e, p)'
      BY <1>2, <1>3, <2>1, <3>1 DEF PeerTask, FingerprintOf
    <3> QED BY <1>3, <1>4, <2>1, <3>1, PeerKept
  <2>2. CASE stored'[p] # stored[p]
    <3>1. p = d
      BY <1>3, <2>2
    <3>2. CASE stored'[d] = 0
      BY <3>1, <3>2 DEF PeerKnown
    <3>3. CASE t.step = "compute" /\ t.changed
      <4>1. PeerTask(tasks[n], e, p)'
        BY <1>2, <1>3, <3>1, <3>3 DEF PeerTask
      <4> QED BY <1>2, <4>1 DEF PeerKnown, PeerDue
    <3> QED BY <2>2, <3>1, <3>2, <3>3
  <2> QED BY <2>1, <2>2
<1> QED BY <1>5, <1>6

LEMMA BeginStep ==
  ASSUME PublishInv, NEW d \in Docs, NEW t \in Task, Begins(d, t), inflight' = inflight,
         \/ /\ t.step = "compute" /\ t.changed
            /\ \/ stored'[d] = stored[d]
               \/ \A j \in DOMAIN tasks : tasks[j].doc = d => tasks[j].text <= stored'[d]
         \/ /\ t.step = "locked" /\ UNCHANGED <<stored, open_docs>>
            /\ t.old = FingerprintOf(stored[d])
            /\ d \in overlapped' \/ \A j \in DOMAIN tasks : tasks[j].doc = d => tasks[j].step # "locked"
  PROVE  PublishInv'
<1>1. PublishBase /\ PublishTypes /\ \A e \in Docs : Known(e)
  BY DEF PublishInv, PublishBase
<1>2. PICK n \in Nat : n = begun + 1
  BY <1>1, PublishNumbers DEF PublishTypes, TypeOK
<1>3. DOMAIN tasks' = DOMAIN tasks \cup {n} /\ tasks'[n] = t /\ \A j \in DOMAIN tasks : tasks'[j] = tasks[j]
  BY <1>1, <1>2, Started DEF Begins
<1>4. UNCHANGED <<inflight, late, shown, overtaken, fingerprint>> /\ overlapped \subseteq overlapped' /\ t.doc = d
  BY DEF Begins
<1>5. ASSUME NEW e \in Docs, NEW j \in Tasks, In(j, e)
      PROVE  /\ j \in DOMAIN tasks' /\ SendsTo(tasks'[j], e)
             /\ tasks'[j].results[e] = tasks[j].results[e]
  BY <1>1, <1>3, <1>5 DEF PublishBase, Flights
<1>6. /\ Flights' /\ LateOnes' /\ \A i, e : In(i, e)' <=> In(i, e)
      /\ \A e \in Docs : (Pending(e)' <=> Pending(e)) /\ Newest(e)' = Newest(e)
  BY <1>1, <1>4, <1>5, NothingSent
<1>7. inflight' \in [Docs -> Seq(Tasks)]
  BY <1>1, <1>4 DEF PublishTypes, TypeOK
<1>8. PublishBase'
  <2>1. \A j : \A e \in Docs : In(j, e) => In(j, e)'
    BY <1>6
  <2>2. t.step # "publish" /\ (t.step = "locked" => stored'[d] = stored[d])
    OBVIOUS
  <2> QED BY <1>1, <1>2, <1>6, <1>7, <2>1, <2>2, BeginBase
<1>9. ASSUME NEW e \in Docs \ {d} PROVE Known(e)'
  BY <1>6, OthersKnown
<1>10. CASE t.step = "compute"
  <2>1. OwnTask(tasks[n], d)' /\ \A p \in Docs : PeerTask(tasks[n], d, p)'
    BY <1>3, <1>4, <1>10 DEF OwnTask, PeerTask
  <2>2. Known(d)'
    BY <1>3, <2>1 DEF Known, OwnKnown, OwnDue, PeerKnown, PeerDue
  <2> QED BY <1>8, <1>9, <2>2 DEF PublishInv
<1>11. CASE t.step = "locked"
  <2>1. ASSUME NEW j \in DOMAIN tasks, OwnTask(tasks[j], d)
        PROVE  j \in DOMAIN tasks' /\ OwnTask(tasks[j], d)'
    BY <1>3, <1>11, <2>1 DEF OwnTask
  <2>2. ASSUME NEW p \in Docs, NEW j \in DOMAIN tasks, PeerTask(tasks[j], d, p)
        PROVE  j \in DOMAIN tasks' /\ PeerTask(tasks[j], d, p)'
    BY <1>3, <1>4, <1>11, <2>2 DEF PeerTask, FingerprintOf
  <2>3. Known(d)'
    BY <1>1, <1>4, <1>6, <1>11, <2>1, <2>2, KnownKept
  <2> QED BY <1>8, <1>9, <2>3 DEF PublishInv
<1> QED BY <1>10, <1>11

LEMMA NextText ==
  ASSUME PublishTypes, NEW d \in Docs, NewText(d)
  PROVE  /\ last' \in Snapshot /\ last'[d] = last[d] + 1 /\ last'[d] \in Text
         /\ \A e \in Docs \ {d} : last'[e] = last[e]
         /\ \A e \in Docs : last[e] <= last'[e] /\ last[e] \in Nat
<1>1. last \in Snapshot /\ last[d] < MaxText /\ last' = [last EXCEPT ![d] = @ + 1]
  BY DEF PublishTypes, TypeOK, NewText
<1>2. \A e \in Docs : last[e] \in Nat /\ last[e] \in Text
  BY TextTypes
<1>3. last[d] + 1 \in Text
  BY <1>1, <1>2, PublishNumbers DEF Text
<1>4. last' \in Snapshot /\ last'[d] = last[d] + 1 /\ \A e \in Docs \ {d} : last'[e] = last[e]
  BY <1>1, <1>3 DEF Snapshot
<1> QED BY <1>2, <1>3, <1>4

(* A task's edits are no later than the last of its document.              *)
LEMMA TextsOfTasks ==
  ASSUME PublishBase, NEW j \in DOMAIN tasks
  PROVE  tasks[j].text \in Nat /\ tasks[j].text <= last[tasks[j].doc] /\ tasks[j].doc \in Docs
  BY TaskTypes DEF PublishBase, TaskState

LEMMA OpenStep ==
  ASSUME PublishInv, NEW d \in Docs, DidOpen(d) \/ ParseFile(d)
  PROVE  PublishInv'
<1>1. PublishBase /\ PublishTypes
  BY DEF PublishInv, PublishBase
<1>2. /\ NewText(d) /\ stored' = [stored EXCEPT ![d] = last'[d]]
      /\ open_docs' = open_docs \/ open_docs' = open_docs \cup {d}
      /\ UNCHANGED <<fingerprint, shown, inflight, late, overtaken, overlapped>>
      /\ begun < MaxTasks /\ begun' = begun + 1
      /\ tasks' = [i \in DOMAIN tasks \cup {begun + 1} |-> IF i \in DOMAIN tasks THEN tasks[i]
           ELSE [doc |-> d, step |-> "compute", text |-> last'[d], old |-> FingerprintOf(stored[d]),
                 changed |-> TRUE, todo |-> {}, results |-> NoResults]]
  BY DEF DidOpen, ParseFile, Begin, history
<1>3. /\ last' \in Snapshot /\ last'[d] = last[d] + 1 /\ last'[d] \in Text
      /\ \A e \in Docs \ {d} : last'[e] = last[e]
      /\ \A e \in Docs : last[e] <= last'[e] /\ last[e] \in Nat
  BY <1>1, <1>2, NextText
<1>4. FingerprintOf(stored[d]) \in Olds
  BY <1>1, TextTypes, FingerprintTypes
<1>5. PICK t \in Task : t = [doc |-> d, step |-> "compute", text |-> last'[d], old |-> FingerprintOf(stored[d]),
                             changed |-> TRUE, todo |-> {}, results |-> NoResults]
  BY <1>3, <1>4, PublishNumbers DEF Task, Steps, Olds
<1>6. /\ stored' \in Snapshot /\ stored'[d] = last'[d]
      /\ \A e \in Docs \ {d} : stored'[e] = stored[e]
      /\ open_docs' \subseteq Docs /\ overlapped' \subseteq Docs
  BY <1>1, <1>2, <1>3 DEF PublishTypes, TypeOK, Snapshot
<1>7. /\ tasks' = [i \in DOMAIN tasks \cup {begun + 1} |-> IF i \in DOMAIN tasks THEN tasks[i] ELSE t]
      /\ t.doc = d /\ t.todo = {} /\ t.results = NoResults /\ t.text = last'[d]
      /\ t.step = "compute" /\ t.changed
  BY <1>2, <1>5
<1>8. stored'[d] <= last'[d] /\ stored'[d] # 0 /\ t.text <= last'[d]
  BY <1>3, <1>6, <1>7
<1>9. Begins(d, t)
  BY <1>2, <1>3, <1>6, <1>7, <1>8 DEF Begins
<1>10. \A j \in DOMAIN tasks : tasks[j].doc = d => tasks[j].text <= stored'[d]
  BY <1>1, <1>3, <1>6, TextsOfTasks
<1> QED BY <1>2, <1>7, <1>9, <1>10, BeginStep

LEMMA ChangeStep ==
  ASSUME PublishInv, NEW d \in Docs, DidChange(d)
  PROVE  PublishInv'
<1>1. PublishBase /\ PublishTypes
  BY DEF PublishInv, PublishBase
<1>2. /\ NewText(d)
      /\ overlapped' = IF \E i \in DOMAIN tasks : tasks[i].doc = d /\ tasks[i].step = "locked"
                       THEN overlapped \cup {d} ELSE overlapped
      /\ UNCHANGED <<fingerprint, stored, open_docs, shown, inflight, late, overtaken>>
      /\ begun < MaxTasks /\ begun' = begun + 1
      /\ tasks' = [i \in DOMAIN tasks \cup {begun + 1} |-> IF i \in DOMAIN tasks THEN tasks[i]
           ELSE [doc |-> d, step |-> "locked", text |-> last'[d], old |-> FingerprintOf(stored[d]),
                 changed |-> FALSE, todo |-> {}, results |-> NoResults]]
  BY DEF DidChange, Begin
<1>3. /\ last' \in Snapshot /\ last'[d] = last[d] + 1 /\ last'[d] \in Text
      /\ \A e \in Docs \ {d} : last'[e] = last[e]
      /\ \A e \in Docs : last[e] <= last'[e] /\ last[e] \in Nat
  BY <1>1, <1>2, NextText
<1>4. FingerprintOf(stored[d]) \in Olds
  BY <1>1, TextTypes, FingerprintTypes
<1>5. PICK t \in Task : t = [doc |-> d, step |-> "locked", text |-> last'[d], old |-> FingerprintOf(stored[d]),
                             changed |-> FALSE, todo |-> {}, results |-> NoResults]
  BY <1>3, <1>4, PublishNumbers DEF Task, Steps, Olds
<1>6. /\ stored' \in Snapshot /\ \A e \in Docs : stored'[e] = stored[e]
      /\ open_docs' \subseteq Docs /\ overlapped' \subseteq Docs /\ overlapped \subseteq overlapped'
  BY <1>1, <1>2 DEF PublishTypes, TypeOK
<1>7. /\ tasks' = [i \in DOMAIN tasks \cup {begun + 1} |-> IF i \in DOMAIN tasks THEN tasks[i] ELSE t]
      /\ t.doc = d /\ t.todo = {} /\ t.results = NoResults /\ t.text = last'[d]
      /\ t.step = "locked" /\ t.old = FingerprintOf(stored[d])
  BY <1>2, <1>5
<1>8. stored'[d] <= last'[d] /\ (d \in open_docs' => stored'[d] # 0) /\ t.text <= last'[d]
  <2>1. stored[d] <= last[d] /\ (d \in open_docs => stored[d] # 0) /\ stored[d] \in Nat
    BY <1>1, TextTypes DEF PublishBase, StoreState
  <2> QED BY <1>2, <1>3, <1>7, <2>1
<1>9. Begins(d, t)
  BY <1>2, <1>3, <1>6, <1>7, <1>8 DEF Begins
<1>10. d \in overlapped' \/ \A j \in DOMAIN tasks : tasks[j].doc = d => tasks[j].step # "locked"
  BY <1>2
<1> QED BY <1>2, <1>7, <1>9, <1>10, BeginStep

LEMMA SaveStep ==
  ASSUME PublishInv, NEW d \in Docs, DidSave(d)
  PROVE  PublishInv'
<1>1. PublishBase /\ PublishTypes
  BY DEF PublishInv, PublishBase
<1>2. /\ UNCHANGED <<fingerprint, last, stored, open_docs, shown, inflight, late, overtaken, overlapped>>
      /\ begun < MaxTasks /\ begun' = begun + 1
      /\ tasks' = [i \in DOMAIN tasks \cup {begun + 1} |-> IF i \in DOMAIN tasks THEN tasks[i]
           ELSE [doc |-> d, step |-> "compute", text |-> stored[d], old |-> FingerprintOf(stored[d]),
                 changed |-> TRUE, todo |-> {}, results |-> NoResults]]
  BY DEF DidSave, Begin, store, history
<1>3. FingerprintOf(stored[d]) \in Olds /\ stored[d] \in Text
  BY <1>1, TextTypes, FingerprintTypes
<1>4. PICK t \in Task : t = [doc |-> d, step |-> "compute", text |-> stored[d], old |-> FingerprintOf(stored[d]),
                             changed |-> TRUE, todo |-> {}, results |-> NoResults]
  BY <1>3, PublishNumbers DEF Task, Steps, Olds
<1>5. /\ tasks' = [i \in DOMAIN tasks \cup {begun + 1} |-> IF i \in DOMAIN tasks THEN tasks[i] ELSE t]
      /\ t.doc = d /\ t.todo = {} /\ t.results = NoResults /\ t.text = stored[d]
      /\ t.step = "compute" /\ t.changed
  BY <1>2, <1>4
<1>6. /\ stored' \in Snapshot /\ last' \in Snapshot /\ open_docs' \subseteq Docs /\ overlapped' \subseteq Docs
      /\ \A e \in Docs : stored'[e] = stored[e] /\ last'[e] = last[e] /\ last[e] <= last'[e]
  BY <1>1, <1>2, TextTypes DEF PublishTypes, TypeOK
<1>7. stored[d] <= last[d] /\ (d \in open_docs => stored[d] # 0)
  BY <1>1 DEF PublishBase, StoreState
<1>8. Begins(d, t)
  BY <1>2, <1>5, <1>6, <1>7 DEF Begins
<1> QED BY <1>2, <1>5, <1>8, BeginStep

LEMMA CloseStep ==
  ASSUME PublishInv, NEW d \in Docs, DidClose(d)
  PROVE  PublishInv'
<1>1. PublishBase /\ PublishTypes
  BY DEF PublishInv, PublishBase
<1>2. PICK n \in Nat : n = begun + 1
  BY <1>1, PublishNumbers DEF PublishTypes, TypeOK
<1>3. /\ open_docs' = open_docs \ {d} /\ stored' = [stored EXCEPT ![d] = 0]
      /\ inflight' = [inflight EXCEPT ![d] = Append(@, n)]
      /\ UNCHANGED <<fingerprint, last, shown, late, overtaken, overlapped>>
      /\ begun < MaxTasks /\ begun' = begun + 1
      /\ tasks' = [i \in DOMAIN tasks \cup {begun + 1} |-> IF i \in DOMAIN tasks THEN tasks[i]
           ELSE [doc |-> d, step |-> "publish", text |-> 0, old |-> FingerprintOf(stored[d]),
                 changed |-> FALSE, todo |-> {}, results |-> NoResults]]
  BY <1>2 DEF DidClose, Begin
<1>4. FingerprintOf(stored[d]) \in Olds
  BY <1>1, TextTypes, FingerprintTypes
<1>5. PICK t \in Task : t = [doc |-> d, step |-> "publish", text |-> 0, old |-> FingerprintOf(stored[d]),
                             changed |-> FALSE, todo |-> {}, results |-> NoResults]
  BY <1>4, PublishNumbers DEF Task, Steps, Olds
<1>6. /\ tasks' = [i \in DOMAIN tasks \cup {begun + 1} |-> IF i \in DOMAIN tasks THEN tasks[i] ELSE t]
      /\ t.doc = d /\ t.todo = {} /\ t.results = NoResults /\ t.text = 0 /\ t.step = "publish"
  BY <1>3, <1>5
<1>7. /\ stored' \in Snapshot /\ last' \in Snapshot /\ open_docs' \subseteq Docs /\ overlapped' \subseteq Docs
      /\ stored'[d] = 0 /\ \A e \in Docs \ {d} : stored'[e] = stored[e]
      /\ \A e \in Docs : last'[e] = last[e] /\ last[e] \in Nat /\ last[e] <= last'[e]
  <2>1. stored \in Snapshot /\ last \in Snapshot /\ open_docs \subseteq Docs /\ overlapped \subseteq Docs
    BY <1>1 DEF PublishTypes, TypeOK
  <2>2. \A e \in Docs : last[e] \in Nat /\ last[e] <= last[e]
    BY <1>1, TextTypes
  <2>3. stored' \in Snapshot /\ stored'[d] = 0 /\ \A e \in Docs \ {d} : stored'[e] = stored[e]
    BY <1>3, <2>1, PublishNumbers DEF Snapshot
  <2> QED BY <1>3, <2>1, <2>2, <2>3
<1>8. Begins(d, t)
  <2>1. \A e \in Docs : e \in open_docs' => e # d /\ e \in open_docs
    BY <1>3
  <2>2. stored'[d] <= last'[d] /\ t.text <= last'[d]
    BY <1>6, <1>7
  <2> QED BY <1>3, <1>6, <1>7, <2>1, <2>2 DEF Begins
<1>9. /\ n \in Tasks /\ n \notin DOMAIN tasks /\ DOMAIN tasks' = DOMAIN tasks \cup {n}
      /\ tasks'[n] = t /\ \A j \in DOMAIN tasks : tasks'[j] = tasks[j]
  BY <1>1, <1>2, <1>8, Started DEF Begins
<1>10. ASSUME NEW e \in Docs, NEW j \in Tasks, In(j, e)
       PROVE  /\ j \in DOMAIN tasks' /\ SendsTo(tasks'[j], e)
              /\ tasks'[j].results[e] = tasks[j].results[e]
  BY <1>1, <1>9, <1>10 DEF PublishBase, Flights
<1>11. ~In(n, d) /\ n \in DOMAIN tasks' /\ SendsTo(tasks'[n], d)
  BY <1>1, <1>6, <1>9 DEF PublishBase, Flights, SendsTo
<1>12. /\ Flights' /\ LateOnes' /\ inflight' \in [Docs -> Seq(Tasks)]
       /\ \A e \in Docs : \A j : In(j, e)' <=> In(j, e) \/ (j = n /\ e = d)
       /\ Pending(d)' /\ Newest(d)' = tasks'[n].results[d]
       /\ \A e \in Docs \ {d} : (Pending(e)' <=> Pending(e)) /\ Newest(e)' = Newest(e)
  BY <1>1, <1>3, <1>9, <1>10, <1>11, Queued
<1>13. PublishBase'
  <2>1. In(n, d)' /\ \A j : \A e \in Docs : In(j, e) => In(j, e)'
    BY <1>12
  <2> QED BY <1>1, <1>2, <1>6, <1>7, <1>8, <1>12, <2>1, BeginBase
<1>14. ASSUME NEW e \in Docs \ {d} PROVE Known(e)'
  BY <1>7, <1>8, <1>12, OthersKnown
<1>15. Known(d)'
  <2>1. Newest(d)' = Nothing /\ Nothing[d] = 0
    BY <1>6, <1>9, <1>12, PublishNumbers DEF NoResults
  <2>2. OwnKnown(d)'
    BY <1>7, <2>1 DEF OwnKnown
  <2>3. d \notin open_docs'
    BY <1>3
  <2> QED BY <2>2, <2>3 DEF Known, PeerKnown
<1> QED BY <1>13, <1>14, <1>15 DEF PublishInv

-----------------------------------------------------------------------------
LEMMA PublishStepKeeps == PublishInv /\ [Next]_vars => PublishInv'
<1> SUFFICES ASSUME PublishInv, [Next]_vars PROVE PublishInv'
  OBVIOUS
<1>1. PublishBase /\ PublishTypes /\ \A d \in Docs : Known(d)
  BY DEF PublishInv, PublishBase
<1>2. CASE UNCHANGED vars
  <2> USE <1>2 DEF vars
  <2>1. PublishTypes'
    BY <1>1 DEF PublishTypes, TypeOK, Snapshot
  <2>2. Flights' /\ LateOnes' /\ TaskState'
    BY <1>1 DEF PublishBase, Flights, LateOnes, TaskState, In, SendsTo
  <2>3. StoreState' /\ LockState'
    BY <1>1 DEF PublishBase, StoreState, LockState, FingerprintOf
  <2>4. ASSUME NEW d \in Docs PROVE Known(d)'
    <3>1. (Pending(d)' <=> Pending(d)) /\ Newest(d)' = Newest(d)
      BY DEF Pending, Newest
    <3>2. /\ \A j \in DOMAIN tasks : OwnTask(tasks[j], d) => OwnTask(tasks[j], d)'
          /\ \A p \in Docs, j \in DOMAIN tasks : PeerTask(tasks[j], d, p) => PeerTask(tasks[j], d, p)'
      BY DEF OwnTask, PeerTask, FingerprintOf
    <3> QED BY <1>1, <3>1, <3>2, KnownKept
  <2> QED BY <2>1, <2>2, <2>3, <2>4 DEF PublishInv, PublishBase
<1>3. CASE \E d \in Docs : DidOpen(d) \/ DidChange(d) \/ DidSave(d) \/ DidClose(d) \/ ParseFile(d)
  BY <1>3, OpenStep, ChangeStep, SaveStep, CloseStep
<1>4. ASSUME NEW i \in DOMAIN tasks, TaskStep(i)
      PROVE  PublishInv'
  <2>1. CASE ApplyChange(i)
    <3>1. PICK d \in Docs : d = tasks[i].doc
      BY <1>1, TaskTypes
    <3> QED BY <2>1, <3>1, AppliedStep, DroppedStep
  <2>2. CASE CompareFingerprints(i)
    BY <2>2, CompareStep
  <2>3. CASE CheckSuperseded(i)
    BY <2>3, SupersededStep
  <2>4. CASE ComputeOwn(i)
    <3>1. PICK d \in Docs : d = tasks[i].doc
      BY <1>1, TaskTypes
    <3>2. tasks[i].step = "compute" /\ Compute(i, d, "publish")
      BY <2>4, <3>1 DEF ComputeOwn
    <3> QED BY <3>1, <3>2, ComputeStep
  <2>5. CASE PublishOwn(i)
    BY <2>5, PublishOwnStep
  <2>6. CASE SelectPeers(i)
    BY <2>6, SelectStep
  <2>7. ASSUME NEW p \in Docs, ComputePeer(i, p) PROVE PublishInv'
    <3>1. PICK step : step = IF tasks[i].todo = {p} THEN "pushing" ELSE "computing"
      OBVIOUS
    <3>2. tasks[i].step = "computing" /\ p \in tasks[i].todo /\ Compute(i, p, step)
      BY <2>7, <3>1 DEF ComputePeer
    <3> QED BY <3>1, <3>2, ComputeStep
  <2>8. ASSUME NEW p \in Docs, PublishPeer(i, p) PROVE PublishInv'
    BY <2>8, PublishPeerStep
  <2> QED BY <1>4, <2>1, <2>2, <2>3, <2>4, <2>5, <2>6, <2>7, <2>8 DEF TaskStep
<1> QED BY <1>2, <1>3, <1>4 DEF Next

(* With nothing under way the newest results are the ones shown.           *)
LEMMA KnownSettles == PublishInv => DiagnosticsSettle
<1> SUFFICES ASSUME PublishInv, DOMAIN tasks = {}, NEW d \in Docs \ overtaken
             PROVE  /\ shown[d][d] = stored[d]
                    /\ \A p \in Docs \ overlapped :
                         d \in open_docs /\ stored[p] # 0 /\ stored[d] # 0 =>
                           FingerprintOf(shown[d][p]) = FingerprintOf(stored[p])
  BY DEF DiagnosticsSettle, Quiescent
<1>1. PublishBase /\ PublishTypes /\ Known(d)
  BY DEF PublishInv, PublishBase
<1>2. ~Pending(d)
  <2>1. Pending(d) => In(inflight[d][Len(inflight[d])], d) /\ inflight[d][Len(inflight[d])] \in Tasks
    BY <1>1, InflightTypes DEF Pending, In
  <2> QED BY <1>1, <2>1 DEF PublishBase, Flights
<1>3. Newest(d) = shown[d]
  BY <1>2 DEF Newest
<1>4. ~OwnDue(d) /\ \A p : ~PeerDue(d, p)
  BY DEF OwnDue, PeerDue
<1>5. shown[d][d] = stored[d]
  BY <1>1, <1>3, <1>4 DEF Known, OwnKnown
<1>6. ASSUME NEW p \in Docs \ overlapped, d \in open_docs, stored[p] # 0
      PROVE  FingerprintOf(shown[d][p]) = FingerprintOf(stored[p])
  <2>1. CASE p = d
    BY <1>5, <2>1
  <2>2. CASE p # d
    BY <1>1, <1>3, <1>4, <1>6, <2>2 DEF Known, PeerKnown
  <2> QED BY <2>1, <2>2
<1> QED BY <1>5, <1>6

-----------------------------------------------------------------------------
(* The tasks, the store and what is under way stay what they are declared  *)
(* to be.                                                                  *)
THEOREM PublishTypeCorrect == Spec => []TypeOK
<1>1. PublishInv => TypeOK
  BY DEF PublishInv, PublishBase, PublishTypes
<1> QED BY <1>1, InitPublish, PublishStepKeeps, PTL DEF Spec

(* Once nothing is under way the editor shows of each document what its    *)
(* last text says, and what its peers' names are, but for results that     *)
(* overtook each other (did_change, publish_peer_diagnostics).             *)
THEOREM LastTextsAreShown == Spec => []DiagnosticsSettle
BY InitPublish, PublishStepKeeps, KnownSettles, PTL DEF Spec
=============================================================================
