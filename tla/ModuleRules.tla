------------------------------ MODULE ModuleRules ------------------------------
(***************************************************************************)
(* The diagnostics whose answer depends on more than one file: what        *)
(* compute_diagnostics reports for every file of one module directory, the *)
(* two ways the module-wide facts are obtained (ModuleGraphAdapter, which  *)
(* walks the store at every call, and ModuleSnapshot, which the bulk scan  *)
(* builds in one pass), and the fingerprint that decides whether an edit   *)
(* makes the other open files of the module be looked at again.            *)
(*                                                                         *)
(* A file is the set of its blocks, each reduced to the attributes some    *)
(* rule reads.  An edit adds, drops or rewrites one block, moves one to    *)
(* another file, or breaks or repairs the syntax of a file; the server     *)
(* then computes every file again.                                         *)
(***************************************************************************)
EXTENDS Naturals, FiniteSets, FiniteSetsExt, VersionConstraints

CONSTANTS
    Config,             \* the module's .tf files, numbers in the order of their URIs
    Tests,              \* .tftest files beside them
    Callers,            \* files of another directory
    Blocks,             \* the blocks an edit may write
    CoreThreshold,      \* the Terraform version that brought terraform_data
    ProviderThreshold,  \* the provider version that brought the replacement
    Probes,             \* versions of Terraform the gate is tried on
    Locked,             \* the version the lock file pins, for every provider
    MaxBlocks           \* how many blocks the workspace holds at most

ASSUME RulesAssumption ==
    /\ Config \cup Tests \subseteq Nat /\ IsFiniteSet(Config \cup Tests)
    /\ Config \cap Tests = {} /\ Callers \cap (Config \cup Tests) = {}
    /\ Probes \subseteq VersionKey /\ CoreThreshold \in VersionKey
    /\ \A b \in Blocks : b.block = "terraform" => b.version \subseteq Constraint

SameDir == Config \cup Tests
Files == SameDir \cup Callers

VARIABLES
    docs,   \* file -> [blocks, clean]: its parse
    diags   \* file -> the diagnostics computed for it

rulesVars == <<docs, diags>>

----------------------------------------------------------------------------
\* What a file declares and refers to.

Named == {"variable", "local", "module", "data"}

\* The symbol table, as (kind, name) pairs.
Definitions(doc) ==
    {<<b.block, b.name>> : b \in {c \in doc.blocks : c.block \in Named}}

\* A use of a name, and the variable an output's value reads.
References(doc) ==
    {<<b.kind, b.name>> : b \in {c \in doc.blocks : c.block = "use"}}
      \cup {<<"variable", b.name>> : b \in {c \in doc.blocks : c.block = "output"}}

Of(doc, block) == {b \in doc.blocks : b.block = block}

\* The blocks that are, or stand inside, a `terraform` block.
TerraformBlocks(doc) == Of(doc, "terraform") \cup Of(doc, "required")

----------------------------------------------------------------------------
\* The module-wide facts, as the adapter answers them: each question walks
\* every document of the directory, test files included.

InModule(d, block) == UNION {Of(d[f], block) : f \in SameDir}

Referenced(d) == UNION {References(d[f]) : f \in SameDir}

\* Resource and data blocks use the provider their type is named after, a
\* provider block the one it configures, a provider function call its own.
ProviderOf(b) == IF b.block \in {"resource", "data", "provider", "call"} THEN {b.name} ELSE {}

UsedProviders(d) == UNION {ProviderOf(b) : b \in UNION {d[f].blocks : f \in SameDir}}

WithVersion(d) == {b.name : b \in {r \in InModule(d, "required") : r.version # {}}}

HasRequiredVersion(d) == \E b \in InModule(d, "terraform") : b.version # {}

IsPrimary(d, f) ==
    /\ TerraformBlocks(d[f]) # {}
    /\ \A g \in SameDir : TerraformBlocks(d[g]) # {} => f <= g

\* No module block of a file outside the directory has its source here.
IsRoot(d) == \A f \in Callers : \A b \in Of(d[f], "module") : ~b.here

IsApplyable(d) ==
    /\ IsRoot(d)
    /\ \/ InModule(d, "provider") # {}
       \/ \E b \in InModule(d, "terraform") : b.backend

Adapter(d, f) ==
    [used |-> UsedProviders(d), withVersion |-> WithVersion(d),
     hasVersion |-> HasRequiredVersion(d), primary |-> IsPrimary(d, f),
     root |-> IsRoot(d), applyable |-> IsApplyable(d)]

----------------------------------------------------------------------------
\* The same facts as the bulk scan collects them, in one pass over the blocks
\* of the directory; the directories some module block has its source in are
\* collected over the whole workspace beforehand.

ReferencedHere(d) == \E f \in Files : \E b \in Of(d[f], "module") : b.here

\* Faulty: a terraform block with a backend is no configuration of its own.
CollectProvidersOnly(at, acc) ==
    LET b == at[2]
    IN  [acc EXCEPT !.used = @ \cup ProviderOf(b),
                    !.withVersion = IF b.block = "required" /\ b.version # {}
                                    THEN @ \cup {b.name} ELSE @,
                    !.hasVersion = @ \/ (b.block = "terraform" /\ b.version # {}),
                    !.terraform = IF b.block \in {"terraform", "required"}
                                  THEN @ \cup {at[1]} ELSE @,
                    !.config = @ \/ b.block = "provider"]

Collect(at, acc) ==
    LET b == at[2]
    IN  [used |-> acc.used \cup ProviderOf(b),
         withVersion |-> IF b.block = "required" /\ b.version # {}
                         THEN acc.withVersion \cup {b.name} ELSE acc.withVersion,
         hasVersion |-> acc.hasVersion \/ (b.block = "terraform" /\ b.version # {}),
         terraform |-> IF b.block \in {"terraform", "required"}
                       THEN acc.terraform \cup {at[1]} ELSE acc.terraform,
         config |-> acc.config \/ b.block = "provider"
                      \/ (b.block = "terraform" /\ b.backend)]

Pass(d) ==
    FoldSet(Collect,
            [used |-> {}, withVersion |-> {}, hasVersion |-> FALSE,
             terraform |-> {}, config |-> FALSE],
            UNION {{<<f, b>> : b \in d[f].blocks} : f \in SameDir})

\* One snapshot serves every file of the directory.
SnapshotOf(d) ==
    LET pass == Pass(d)
        root == ~ReferencedHere(d)
    IN  [f \in Config |->
           [used |-> pass.used, withVersion |-> pass.withVersion,
            hasVersion |-> pass.hasVersion,
            primary |-> pass.terraform # {} /\ f = Min(pass.terraform),
            root |-> root, applyable |-> root /\ pass.config]]

----------------------------------------------------------------------------
\* The rules.  A diagnostic is the rule's code and the block it stands on.

On(rule, blocks) == {<<rule, b>> : b \in blocks}

\* A name is looked up in the file's own symbol table, then in the module's.
Defined(d, f, ref) ==
    \/ ref \in Definitions(d[f])
    \/ \E g \in SameDir : ref \in Definitions(d[g])

Undefined(d, f) ==
    {<<"undefined_reference", ref>> :
       ref \in {r \in References(d[f]) : r[1] # "data" /\ ~Defined(d, f, r)}}

Unused(d, f, facts) ==
    LET Idle(block) == {b \in Of(d[f], block) : <<block, b.name>> \notin Referenced(d)}
    IN  IF ~facts.root THEN {}
        ELSE On("unused_declarations",
                Idle("local") \cup Idle("data")
                  \cup (IF facts.applyable THEN Idle("variable") ELSE {}))

\* The advice to write a type is held back on a variable of a root module
\* nothing refers to.
Untyped(d, f, facts) ==
    On("typed_variables",
       {b \in Of(d[f], "variable") :
          ~b.typed /\ (facts.root => <<"variable", b.name>> \in Referenced(d))})

SensitiveVariables(d) == {b.name : b \in {v \in InModule(d, "variable") : v.sensitive}}

\* Faulty: only the variables of the file itself are looked at.
SensitiveOutputOwnFile(d, f) ==
    On("sensitive_output",
       {b \in Of(d[f], "output") :
          ~b.sensitive /\ \E v \in Of(d[f], "variable") : v.name = b.name /\ v.sensitive})

SensitiveOutput(d, f) ==
    On("sensitive_output",
       {b \in Of(d[f], "output") : ~b.sensitive /\ b.name \in SensitiveVariables(d)})

DefaultTags(d) == {b.name : b \in {p \in InModule(d, "provider") : p.tags}}

\* The "null" provider's resources have no tags attribute in their schema.
MissingTags(d, f) ==
    On("missing_tags",
       {b \in Of(d[f], "resource") : b.name # "null" /\ b.name \notin DefaultTags(d)})

\* Every constraint the files of the module state, joined by commas.
CoreConstraints(d) == UNION {b.version : b \in InModule(d, "terraform")}
ProviderConstraints(d, p) ==
    UNION {b.version : b \in {r \in InModule(d, "required") : r.name = p}}

DeprecatedCore(d, f) ==
    IF Supports(CoreConstraints(d), CoreThreshold)
    THEN On("deprecated_null_resource", {b \in Of(d[f], "resource") : b.name = "null"})
    ELSE {}

\* The version the lock file pins decides where there is one; the "aws" rules
\* stand for the five provider tables, which differ in their rows.
ProviderSupports(d, p) ==
    IF p \in DOMAIN Locked THEN AtLeast(Locked[p], ProviderThreshold)
    ELSE Supports(ProviderConstraints(d, p), ProviderThreshold)

DeprecatedProvider(d, f) ==
    On("provider_renames",
       {b \in Of(d[f], "resource") : b.name # "null" /\ ProviderSupports(d, b.name)})

LockDrift(d, f) ==
    On("lock_constraint_drift",
       {b \in Of(d[f], "required") :
          /\ b.name \in DOMAIN Locked
          /\ b.version # {}
          /\ ~SatisfiesAll(b.version, Locked[b.name])})

\* Reported once for the module, on the first file with a terraform block.
VersionPresence(facts) ==
    IF ~facts.hasVersion /\ facts.primary THEN {<<"required_version_presence", "module">>}
    ELSE {}

ProviderVersionPresence(d, f, facts) ==
    On("required_providers_version",
       {b \in Of(d[f], "required") : b.version = {} /\ b.name \notin facts.withVersion})

UnusedProviders(d, f, facts) ==
    On("unused_required_providers",
       {b \in Of(d[f], "required") : b.name \notin facts.used})

\* compute_diagnostics: nothing but the syntax error itself on a file that
\* does not parse; the references alone on a test file.
Reported(d, f, facts) ==
    IF ~d[f].clean THEN {<<"syntax", "file">>}
    ELSE IF f \in Tests THEN Undefined(d, f)
    ELSE Undefined(d, f) \cup Unused(d, f, facts) \cup Untyped(d, f, facts)
           \cup SensitiveOutput(d, f) \cup MissingTags(d, f)
           \cup DeprecatedCore(d, f) \cup DeprecatedProvider(d, f)
           \cup LockDrift(d, f) \cup VersionPresence(facts)
           \cup ProviderVersionPresence(d, f, facts) \cup UnusedProviders(d, f, facts)

AllReported(d) == [f \in SameDir |-> Reported(d, f, Adapter(d, f))]

----------------------------------------------------------------------------
\* Faulty: a rewritten terraform block goes unnoticed.
FingerprintOfNames(doc) ==
    <<Definitions(doc) \cup {<<b.block, b.name>> : b \in Of(doc, "resource") \cup Of(doc, "output")},
      References(doc)>>

\* What did_change compares before and after an edit.
Fingerprint(doc) ==
    <<Definitions(doc) \cup {<<b.block, b.name>> : b \in Of(doc, "resource") \cup Of(doc, "output")},
      References(doc), TerraformBlocks(doc)>>

----------------------------------------------------------------------------
RulesInit ==
    /\ docs = [f \in Files |-> [blocks |-> {}, clean |-> TRUE]]
    /\ diags = AllReported(docs)

Size(d) == Cardinality(UNION {{<<f, b>> : b \in d[f].blocks} : f \in Files})

Set(d) ==
    /\ docs' = d
    /\ diags' = AllReported(d)

\* A block is at home in a file when the file may hold it and does not declare
\* the name already.
Fits(b, f, blocks) ==
    /\ f \in Callers <=> b.block = "module" /\ b.here
    /\ f \in Tests => b.block \in {"use", "provider"}
    /\ b.block \in Named \cup {"required"} =>
         ~\E c \in blocks : c.block = b.block /\ c.name = b.name
    /\ b.block = "terraform" => ~\E c \in blocks : c.block = "terraform"

Add(f, b) ==
    /\ Size(docs) < MaxBlocks
    /\ b \notin docs[f].blocks
    /\ Fits(b, f, docs[f].blocks)
    /\ Set([docs EXCEPT ![f].blocks = @ \cup {b}])

Drop(f, b) ==
    /\ b \in docs[f].blocks
    /\ Set([docs EXCEPT ![f].blocks = @ \ {b}])

\* The same declaration with other attributes.
Rewrite(f, b, c) ==
    /\ b \in docs[f].blocks
    /\ c \notin docs[f].blocks
    /\ b.block = c.block /\ b.name = c.name
    /\ Fits(c, f, docs[f].blocks \ {b})
    /\ Set([docs EXCEPT ![f].blocks = (@ \ {b}) \cup {c}])

Move(f, g, b) ==
    /\ f # g
    /\ b \in docs[f].blocks \ docs[g].blocks
    /\ Fits(b, g, docs[g].blocks)
    /\ Set([docs EXCEPT ![f].blocks = @ \ {b}, ![g].blocks = @ \cup {b}])

\* Recovery keeps the blocks of a file whose syntax is broken somewhere.
ToggleSyntax(f) == Set([docs EXCEPT ![f].clean = ~@])

RulesNext ==
    \/ \E f \in Files, b \in Blocks : Add(f, b) \/ Drop(f, b)
    \/ \E f \in Files, b, c \in Blocks : Rewrite(f, b, c)
    \/ \E f, g \in Config, b \in Blocks : Move(f, g, b)
    \/ \E f \in Config : ToggleSyntax(f)

RulesSpec == RulesInit /\ [][RulesNext]_rulesVars

----------------------------------------------------------------------------
RulesOf(f) == {code[1] : code \in diags[f]}

\* A file that does not parse reports that alone, and a test file nothing but
\* its references: the gates at the head of compute_diagnostics.
RulesTypeOK ==
    /\ docs \in [Files -> [blocks : SUBSET Blocks, clean : BOOLEAN]]
    /\ DOMAIN diags = SameDir
    /\ \A f \in SameDir : "syntax" \in RulesOf(f) => RulesOf(f) = {"syntax"}
    /\ \A f \in Tests : RulesOf(f) \subseteq {"syntax", "undefined_reference"}

\* The bulk scan, which asks the snapshot, and an edit, which asks the store,
\* report the same for every file: nothing appears or goes when the first
\* edit after the scan has the file computed again.
SnapshotAgrees ==
    LET snapshot == SnapshotOf(docs)
    IN  \A f \in Config : Reported(docs, f, snapshot[f]) = diags[f]

\* A resource is called superseded only when no version of Terraform the
\* module admits is older than its replacement.
GateSound ==
    \A f \in Config :
      ("deprecated_null_resource" \in RulesOf(f) /\ CoreConstraints(docs) # {}) =>
        \A v \in Probes :
          SatisfiesAll(CoreConstraints(docs), v) => AtLeast(v, CoreThreshold)

\* Which file of the module a block stands in makes no difference to what is
\* reported for the module, as long as its files parse.
BlocksMayMove ==
    [][\A f, g \in Config :
         (/\ \A h \in Config : docs[h].clean /\ docs'[h].clean
          /\ \A h \in Files \ {f, g} : docs'[h] = docs[h]
          /\ docs'[f].blocks \cup docs'[g].blocks = docs[f].blocks \cup docs[g].blocks)
         => UNION {diags'[h] : h \in Config} = UNION {diags[h] : h \in Config}]_rulesVars

EditOf(f) == docs'[f] # docs[f] /\ \A h \in Files \ {f} : docs'[h] = docs[h]

\* What the rules read of another file and the fingerprint does not hold: which
\* variables are sensitive, the provider blocks and their default tags, and
\* the calls of provider functions.
Unhashed(doc) ==
    <<{b.name : b \in {v \in Of(doc, "variable") : v.sensitive}},
      Of(doc, "provider"), Of(doc, "call")>>

\* did_change's comment says that an edit which keeps the fingerprint cannot
\* change what another open file reports, so the peers are left alone.  Apart
\* from those three it is so: whatever else is edited in one file, the others
\* report what they did, or the fingerprint changes and they are computed again.
PeersRefreshed ==
    [][\A f \in SameDir :
         (/\ EditOf(f)
          /\ Fingerprint(docs'[f]) = Fingerprint(docs[f])
          /\ Unhashed(docs'[f]) = Unhashed(docs[f]))
         => \A g \in SameDir \ {f} : diags'[g] = diags[g]]_rulesVars
=============================================================================
