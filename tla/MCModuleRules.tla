---------------------------- MODULE MCModuleRules ----------------------------
(***************************************************************************)
(* A module of two configuration files and a test file, and one file of    *)
(* another directory that may call it.  The blocks are chosen so that each *)
(* attribute a rule reads has two values at least.                         *)
(***************************************************************************)
EXTENDS ModuleRules, TLC

Key(major, minor, patch, stability) ==
    [major |-> major, minor |-> minor, patch |-> patch, stability |-> stability, pre |-> 0]

MCCoreThreshold == Key(1, 4, 0, 1)
MCProviderThreshold == Key(5, 0, 0, 1)
MCLocked == ("tls" :> Key(5, 1, 0, 1))
MCProbes ==
    {Key(major, minor, patch, stability) :
       major \in 1..2, minor \in 3..5, patch \in 0..1, stability \in 0..1}

At(op, key, segments) == [op |-> op, version |-> key, segments |-> segments]

Variable(typed, sensitive) ==
    [block |-> "variable", name |-> "x", typed |-> typed, sensitive |-> sensitive]
Terraform(version, backend) ==
    [block |-> "terraform", name |-> "terraform", version |-> version, backend |-> backend]
Required(name, version) == [block |-> "required", name |-> name, version |-> version]

MCBlocks ==
    {Variable(TRUE, FALSE), Variable(FALSE, FALSE), Variable(TRUE, TRUE),
     [block |-> "local", name |-> "l"], [block |-> "use", kind |-> "local", name |-> "l"],
     [block |-> "data", name |-> "aws"],
     [block |-> "use", kind |-> "variable", name |-> "x"],
     [block |-> "output", name |-> "x", sensitive |-> FALSE],
     Terraform({}, FALSE), Terraform({}, TRUE),
     Terraform({At("~>", Key(1, 4, 0, 1), 2)}, FALSE),
     Terraform({At(">=", Key(1, 3, 0, 1), 2), At("<", Key(1, 5, 0, 1), 2)}, FALSE),
     Required("aws", {}), Required("aws", {At(">=", Key(5, 0, 0, 1), 1)}),
     Required("tls", {At("<=", Key(5, 0, 0, 1), 1)}),
     [block |-> "provider", name |-> "aws", tags |-> FALSE],
     [block |-> "provider", name |-> "aws", tags |-> TRUE],
     [block |-> "resource", name |-> "aws"],
     [block |-> "resource", name |-> "null"],
     [block |-> "module", name |-> "m", here |-> TRUE],
     [block |-> "module", name |-> "m", here |-> FALSE],
     [block |-> "use", kind |-> "module", name |-> "m"],
     [block |-> "call", name |-> "aws"]}
=============================================================================
