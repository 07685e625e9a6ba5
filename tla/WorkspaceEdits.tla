---------------------------- MODULE WorkspaceEdits ----------------------------
(***************************************************************************)
(* The edits the server offers that reach over several files: the rename   *)
(* of a symbol, the conversion of superseded resource types (code_action's *)
(* null_resource to terraform_data, and the generic block rename) with the *)
(* `moved` blocks that carry the state along, the declaration of undefined *)
(* variables and the gathering of blocks in the file they belong to.       *)
(*                                                                         *)
(* A file is the set of its items: declarations, references and `moved`    *)
(* blocks.  What the server holds of it is a copy that may lack some of    *)
(* them: a body, and the declarations and references the indexes list.  An *)
(* edit is computed from that copy and applied to the text as one step;    *)
(* before the first one the user writes, erases and breaks what he likes.  *)
(***************************************************************************)
EXTENDS Naturals, FiniteSets

CONSTANTS
    Sources,      \* the .tf files
    DirOf,        \* file -> its directory
    HomeOf,       \* directory -> kind of block -> the file such blocks belong in
    Families,     \* the superseded types: [from, to, moves, generic]
    Admits,       \* the directories whose version constraints admit the new types
    Fresh,        \* the name a rename gives
    Items,        \* what the user may write
    Breakable,    \* the files that may have syntax errors
    MaxMissed,    \* how many items the parser, or the scan, misses for them at most
    MaxItems,     \* how many items the user writes at most, before asking
    MaxOffers     \* how many edits the user then takes, one after the other

Dirs == {DirOf[f] : f \in Sources}

Scopes == {"Instance", "Selection", "File", "Module", "Workspace"}

\* Blocks whose name is a label in quotes.
Labelled == {"variable", "output", "module"}

\* Every module has a place for variables and for `moved` blocks, in it.
ASSUME EditConstants ==
    /\ DirOf \in [Sources -> Dirs]
    /\ \A d \in Dirs : /\ {"variable", "moved"} \subseteq DOMAIN HomeOf[d]
                       /\ \A kind \in DOMAIN HomeOf[d] :
                            HomeOf[d][kind] \in Sources /\ DirOf[HomeOf[d][kind]] = d

\* A clean parse places a declaration at its whole block.  Beside a syntax
\* error the text is scanned instead, and a declaration is placed at its name,
\* within the quotes.  A buffer of which no body can be made keeps the places
\* it had, or those of a scan when it was opened.
VARIABLES
    text,     \* file -> its items
    body,     \* file -> the items of the body the parser made of it
    known,    \* file -> the items its declarations and references were taken from
    located,  \* file -> the places those were found at: "block", "name" or "stale"
    offers,   \* how many edits were taken
    latest    \* what the latest step was, for the properties

editVars == <<text, body, known, located, offers, latest>>

----------------------------------------------------------------------------
\* Items.

Def(kind, name) == [item |-> "def", kind |-> kind, name |-> name]

\* `attr` is what is read of the thing: `tags` in `var.x.tags`.  An output is
\* read as an attribute of the module that has it.
Ref(kind, name, attr) == [item |-> "ref", kind |-> kind, name |-> name, attr |-> attr]

Moved(from, to, name) == [item |-> "moved", kind |-> from, to |-> to, name |-> name]

\* What a rename leaves of a reference it cuts in two.
Cut == [item |-> "cut", kind |-> "none", name |-> Fresh]

\* What the user writes is one of the three.
ASSUME ItemsAreItems ==
    \A i \in Items : i = CASE i.item = "def" -> Def(i.kind, i.name)
                           [] i.item = "ref" -> Ref(i.kind, i.name, i.attr)
                           [] OTHER -> Moved(i.kind, i.to, i.name)

Defs(t, f, kind) == {i \in t[f] : i.item = "def" /\ i.kind = kind}

Declares(t, dir) ==
    {<<i.kind, i.name>> : i \in UNION {{j \in t[f] : j.item = "def"} :
                                         f \in {g \in Sources : DirOf[g] = dir}}}
Mentions(t, dir) ==
    {<<i.kind, i.name>> : i \in UNION {{j \in t[f] : j.item = "ref"} :
                                         f \in {g \in Sources : DirOf[g] = dir}}}
Dangling(t, dir) == Mentions(t, dir) \ Declares(t, dir)

MovedNames(t, fs, family) ==
    {i.name : i \in {j \in UNION {t[f] : f \in fs} :
                       j.item = "moved" /\ j.kind = family.from /\ j.to = family.to}}

----------------------------------------------------------------------------
\* The client applies an edit and tells the server, which parses every file
\* changed.  becomes[f][i] is what item i of file f turns into, added[f] what is
\* appended.  Beside a syntax error the new items may not be seen; without a
\* body the server goes on with the declarations and references it had.
Apply(becomes, added) ==
    \E unread \in SUBSET {f \in Sources : located[f] = "name" /\ added[f] # {}} :
      LET after(f, items) == UNION {becomes[f][i] : i \in items}
          seen(f) == IF f \in unread THEN {} ELSE added[f]
          current(f) == located[f] # "stale"
      IN  /\ text' = [f \in Sources |-> after(f, text[f]) \cup added[f]]
          /\ body' = [f \in Sources |->
                        IF current(f) THEN after(f, body[f]) \cup seen(f) ELSE {}]
          /\ known' = [f \in Sources |->
                         IF current(f) THEN after(f, known[f]) \cup seen(f) ELSE known[f]]
          /\ UNCHANGED located

AsItWas == [f \in Sources |-> [i \in text[f] |-> {i}]]

AddedTo(file, items) == [f \in Sources |-> IF f = file THEN items ELSE {}]

----------------------------------------------------------------------------
\* for_each_doc_in_scope.
InScope(scope, f) ==
    CASE scope = "Module" -> {g \in Sources : DirOf[g] = DirOf[f]}
      [] scope = "Workspace" -> Sources
      [] OTHER -> {f}

\* The walk over the expressions of a body rewrites the type wherever a
\* traversal starts with it, those of `moved` blocks included.
Retype(family, i) ==
    IF i.kind # family.from THEN i
    ELSE [i EXCEPT !.kind = family.to]

Converted(family, items) ==
    {i.name : i \in {j \in items : j.item = "def" /\ j.kind = family.from}}

\* The part of a file's items a scope rewrites: one block with the references
\* to it, what the selection touches, or everything.
Chosen(scope, family, items, name, selection) ==
    CASE scope = "Instance" ->
           {i \in items : i.kind = family.from /\ i.name = name}
      [] scope = "Selection" -> {i \in items : i.kind = family.from} \cap selection
      [] OTHER -> {i \in items : i.kind = family.from}

\* Faulty: only a single converted block is recorded.
RecordedAtCursor(scope, family, names) ==
    IF ~family.moves \/ scope # "Instance" THEN {} ELSE names

\* The names that get a `moved` block.  The null_resource action looks the
\* selected labels up by a position it takes from an empty text, and finds none.
Recorded(scope, family, names) ==
    IF ~family.moves \/ (scope = "Selection" /\ ~family.generic) THEN {} ELSE names

Convert(scope, f, family, name, selection) ==
    LET visited == {g \in InScope(scope, f) : DirOf[g] \in Admits}
        chosen == [g \in Sources |->
                     IF g \in visited THEN Chosen(scope, family, body[g], name, selection)
                     ELSE {}]
        here(dir) == {g \in Sources : DirOf[g] = dir}
        names(dir) == UNION {Converted(family, chosen[g]) : g \in here(dir)}
        added(dir) == Recorded(scope, family, names(dir)) \ MovedNames(body, here(dir), family)
    IN  /\ \E g \in visited : Converted(family, chosen[g]) # {}
        /\ Apply([g \in Sources |->
                    [i \in text[g] |-> {IF i \in chosen[g] THEN Retype(family, i) ELSE i}]],
                 [g \in Sources |->
                    IF g = HomeOf[DirOf[g]]["moved"]
                    THEN {Moved(family.from, family.to, n) : n \in added(DirOf[g])}
                    ELSE {}])
        /\ latest' = [op |-> "convert", scope |-> scope, family |-> family,
                      names |-> [dir \in Dirs |-> names(dir)]]

----------------------------------------------------------------------------
\* Whether an item stands under the key.  Both ends of a `moved` block do.
Named(kind, name, i) ==
    /\ i.name = name
    /\ \/ i.kind = kind /\ i.item # "cut"
       \/ i.item = "moved" /\ i.to = kind

Occurrences(kind, name, items) == {i \in items : Named(kind, name, i)}

\* What the new name leaves of an item.  The last whole word equal to the key's
\* name is replaced: an attribute of the same name comes later than the name,
\* and for a resource, whose key is `type.name`, the word is the reference.
Struck(kind, name, i) ==
    IF i.item = "moved" \/ kind \notin Labelled \cup {"local"} THEN Cut
    ELSE IF i.item = "ref" /\ i.attr = name THEN [i EXCEPT !.attr = Fresh]
    ELSE [i EXCEPT !.name = Fresh]

\* Faulty: whatever bears the name is taken, of any kind.
RenameNamesakes(kind, name, f, i) ==
    IF i \notin known[f] \/ i.name # name THEN i
    ELSE IF i.item = "def" /\ (kind \notin Labelled \/ located[f] # "block") THEN i
    ELSE Struck(kind, name, i)

\* One edit of rename, where the places are those of the text.  A declaration is
\* looked for as a label in quotes: a local has none, a resource's key stands
\* nowhere in quotes, and the place the text scan gives leaves the quotes out.
RenameItem(kind, name, f, i) ==
    IF i \notin Occurrences(kind, name, known[f]) THEN i
    ELSE IF i.item = "def" /\ (kind \notin Labelled \/ located[f] # "block") THEN i
    ELSE Struck(kind, name, i)

\* The items with the word that is looked for in them.
Worded(kind, name, items) ==
    IF kind \in Labelled \cup {"local"}
    THEN {i \in items : i.name = name \/ (i.item = "ref" /\ i.attr = name)}
    ELSE {i \in Occurrences(kind, name, items) : i.item # "def"}

\* The indexes span the workspace, whatever module the cursor is in.  Where the
\* places are old ones, it is left open which of the words they now cover.
Rename(kind, name) ==
    LET old == {f \in Sources : /\ located[f] = "stale"
                                /\ Occurrences(kind, name, known[f]) # {}}
    IN  \E covered \in SUBSET UNION {{<<f, i>> : i \in Worded(kind, name, text[f])} : f \in old} :
          /\ Apply([f \in Sources |->
                      [i \in text[f] |->
                         {IF located[f] # "stale" THEN RenameItem(kind, name, f, i)
                          ELSE IF <<f, i>> \in covered THEN Struck(kind, name, i)
                          ELSE i}]],
                   [f \in Sources |-> {}])
          /\ text' # text
          /\ latest' = [op |-> "rename", kind |-> kind, name |-> name]

----------------------------------------------------------------------------
\* Stubs for the variables the module refers to and no file of it declares, as
\* far as the server knows, at the end of variables.tf.
DeclareUndefined(dir) ==
    LET missing == {ref \in Dangling(known, dir) : ref[1] = "variable"}
    IN  /\ missing # {}
        /\ Apply(AsItWas, AddedTo(HomeOf[dir]["variable"],
                                  {Def("variable", ref[2]) : ref \in missing}))
        /\ latest' = [op |-> "declare", dir |-> dir]

\* The blocks of a kind outside their file, as far as there are bodies.
Outside(dir, kind) ==
    [f \in Sources |-> IF DirOf[f] = dir /\ f # HomeOf[dir][kind]
                       THEN Defs(body, f, kind) ELSE {}]

\* Faulty: the blocks are appended where they belong and left where they were.
GatherCopies(dir, kind) ==
    LET taken == UNION {Outside(dir, kind)[f] : f \in Sources}
    IN  /\ taken # {}
        /\ Apply(AsItWas, AddedTo(HomeOf[dir][kind], taken))
        /\ latest' = [op |-> "gather", dir |-> dir, kind |-> kind]

\* Every such block is cut there and appended here.
Gather(dir, kind) ==
    LET outside == Outside(dir, kind)
        taken == UNION {outside[f] : f \in Sources}
    IN  /\ taken # {}
        /\ Apply([f \in Sources |-> [i \in text[f] |-> {i} \ outside[f]]],
                 AddedTo(HomeOf[dir][kind], taken))
        /\ latest' = [op |-> "gather", dir |-> dir, kind |-> kind]

----------------------------------------------------------------------------
\* The user.

\* A syntax error counts as something written.
Written ==
    Cardinality(UNION {{<<f, i>> : i \in text[f] \cup known[f]} : f \in Sources})
      + Cardinality({f \in Sources : located[f] # "block"})

Write(f, i) ==
    /\ offers = 0
    /\ Written < MaxItems
    /\ i \notin text[f] \cup known[f]
    /\ Apply(AsItWas, AddedTo(f, {i}))
    /\ latest' = [op |-> "user"]
    /\ UNCHANGED offers

Erase(f, i) ==
    /\ offers = 0
    /\ Apply([g \in Sources |-> [j \in text[g] |-> IF g = f THEN {j} \ {i} ELSE {j}]],
             [g \in Sources |-> {}])
    /\ latest' = [op |-> "user"]
    /\ UNCHANGED offers

\* What the parser, or the scan, makes of a file with a syntax error.
Gaps(f) == {gap \in SUBSET text[f] : Cardinality(gap) <= MaxMissed}

Reparse(f, made, place, listed) ==
    /\ offers = 0
    /\ place = "block" \/ located[f] # "block" \/ Written < MaxItems
    /\ body' = [body EXCEPT ![f] = made]
    /\ located' = [located EXCEPT ![f] = place]
    /\ known' = [known EXCEPT ![f] = listed]
    /\ latest' = [op |-> "user"]
    /\ UNCHANGED <<text, offers>>

\* The lines with the errors are blanked out to get a body, and the text is
\* scanned for declarations and references.
Spoil(f) ==
    \E lost, missed \in Gaps(f) : Reparse(f, text[f] \ lost, "name", text[f] \ missed)

\* No body is to be had: a buffer keeps what was known of it, a file that is
\* opened so has been scanned.
Lose(f) ==
    \/ Reparse(f, {}, "stale", known[f])
    \/ \E missed \in Gaps(f) : Reparse(f, {}, "stale", text[f] \ missed)

Mend(f) == located[f] # "block" /\ Reparse(f, text[f], "block", text[f])

EditInit ==
    /\ text = [f \in Sources |-> {}]
    /\ body = [f \in Sources |-> {}]
    /\ known = [f \in Sources |-> {}]
    /\ located = [f \in Sources |-> "block"]
    /\ offers = 0
    /\ latest = [op |-> "user"]

\* The conversions the code actions offer at some cursor or selection.
OfferConversion ==
    \E f \in Sources, family \in Families :
      \/ \E scope \in {"File", "Module", "Workspace"} : Convert(scope, f, family, Fresh, {})
      \/ \E i \in Defs(body, f, family.from) : Convert("Instance", f, family, i.name, {})
      \/ \E selection \in SUBSET body[f] : Convert("Selection", f, family, Fresh, selection)

\* The cursor is on what the server takes for a declaration or a reference.
OfferRename ==
    \E i \in UNION {known[f] : f \in Sources} :
      \E kind \in {i.kind} \cup (IF i.item = "moved" THEN {i.to} ELSE {}) :
        i.item # "cut" /\ i.name # Fresh /\ Rename(kind, i.name)

OfferFiling ==
    \E dir \in Dirs :
      \/ DeclareUndefined(dir)
      \/ \E kind \in DOMAIN HomeOf[dir] \ {"moved"} : Gather(dir, kind)

Take ==
    /\ offers < MaxOffers
    /\ offers' = offers + 1
    /\ OfferConversion \/ OfferRename \/ OfferFiling

User ==
    \/ \E f \in Sources, i \in Items : Write(f, i)
    \/ \E f \in Sources : \E i \in text[f] : Erase(f, i)
    \/ \E f \in Breakable : Spoil(f) \/ Lose(f) \/ Mend(f)

EditNext == Take \/ User

EditSpec == EditInit /\ [][EditNext]_editVars

----------------------------------------------------------------------------
\* References follow the blocks they name.  A conversion of a whole module, or
\* of the workspace, leaves no reference hanging that resolved before, provided
\* every item of the module is in a body: block and references change together,
\* in every file.  A rename of a block named by a label takes along all the
\* references to it, wherever the server knows what stands under the name, and
\* catches no other; a module it does not reach, it leaves as it was.
\* Not promised, against "renames every occurrence of the symbol under the
\* cursor to `new_name`, across all indexed files" (rename.rs:66): a
\* declaration in a file with a syntax error keeps its name while its
\* references change; a buffer without a body is edited at old places;
\* `module.m.out` is indexed as a reference to m only, and stays when the output
\* changes its name; and an attribute that repeats the name takes the edit.
ConversionKeeps(dir) ==
    (/\ latest'.op = "convert"
     /\ latest'.scope \in {"Module", "Workspace"}
     /\ latest'.names[dir] # {}
     /\ \A f \in Sources : DirOf[f] = dir => body[f] = text[f]
     /\ Dangling(text, dir) = {})
    => Dangling(text', dir) = {}

\* Every occurrence in the file is listed, at its place and with its label.
Reached(f, kind, name) ==
    LET here == Occurrences(kind, name, text[f])
    IN  /\ Occurrences(kind, name, known[f]) = here
        /\ here # {} => located[f] # "stale"
        /\ (\E i \in here : i.item = "def") => located[f] = "block"

RenameKeeps(dir) ==
    (/\ latest'.op = "rename"
     /\ latest'.kind \in Labelled
     /\ \A f \in Sources : DirOf[f] = dir =>
          /\ Reached(f, latest'.kind, latest'.name)
          /\ \A i \in Occurrences(latest'.kind, latest'.name, text[f]) :
               ~(i.item = "ref" /\ i.attr = latest'.name))
    => LET new(key) == IF key = <<latest'.kind, latest'.name>>
                       THEN <<latest'.kind, Fresh>> ELSE key
       IN  /\ Declares(text', dir) = {new(key) : key \in Declares(text, dir)}
           /\ Mentions(text', dir) = {new(key) : key \in Mentions(text, dir)}

ReferencesKept ==
    [][/\ \A dir \in Admits : ConversionKeeps(dir)
       /\ \A dir \in Dirs : RenameKeeps(dir)]_editVars

\* Every resource a conversion renames is followed by a `moved` block, so that
\* Terraform carries its state over instead of destroying it.  It is not when
\* only a selection of null_resource blocks is converted, nor when the module
\* had the `moved` block before, in a body the conversion walks.
ConvertRecordsMoves ==
    [][\A dir \in Dirs :
         (/\ latest'.op = "convert"
          /\ latest'.family.moves
          /\ latest'.scope = "Selection" => latest'.family.generic)
         => \A name \in latest'.names[dir] :
              LET here == {f \in Sources : DirOf[f] = dir}
              IN  \/ name \in MovedNames(text', here, latest'.family)
                  \/ name \in MovedNames(text, here, latest'.family)]_editVars

\* The edits that file blocks where they belong change no module's meaning.
\* Where the server knows the text of a module, every variable referred to is
\* declared afterwards and nothing else appears; where it goes by older
\* references or misses some, a stub may be one too many or too few.  Gathering
\* loses nothing, makes up nothing and leaves no block it saw out of its place.
FiledInPlace ==
    [][/\ (/\ latest'.op = "declare"
           /\ \A f \in Sources : DirOf[f] = latest'.dir => known[f] = text[f])
          => /\ ~\E ref \in Dangling(text', latest'.dir) : ref[1] = "variable"
             /\ Declares(text', latest'.dir) \ Declares(text, latest'.dir)
                  \subseteq Mentions(text, latest'.dir)
       /\ latest'.op = "gather" =>
            /\ \A dir \in Dirs : Declares(text', dir) = Declares(text, dir)
            /\ \A f \in Sources :
                 (DirOf[f] = latest'.dir /\ f # HomeOf[latest'.dir][latest'.kind])
                 => Defs(text', f, latest'.kind) \cap body[f] = {}]_editVars
=============================================================================
