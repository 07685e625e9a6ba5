---------------------------- MODULE AnalysesProofs ----------------------------
(***************************************************************************)
(* Proofs about the analyses.  First WorkspaceEdits, for any files,        *)
(* modules, items and families of superseded types, and any number of      *)
(* edits.  Then ModuleInputs: the check of defaults against declared       *)
(* types, for types and defaults that nest to any depth.  Then             *)
(* UnknownValues: the analysis reports nothing without a cause.            *)
(***************************************************************************)
EXTENDS WorkspaceEdits, ModuleInputs, UnknownValues, QueueLemmas

-----------------------------------------------------------------------------
(* What a file consists of.                                                *)

WholeItem(i) ==
  i = CASE i.item = "def" -> Def(i.kind, i.name)
        [] i.item = "ref" -> Ref(i.kind, i.name, i.attr)
        [] i.item = "moved" -> Moved(i.kind, i.to, i.name)
        [] OTHER -> [item |-> "cut", kind |-> i.kind, name |-> i.name]

(* The copy the server holds: a body has nothing the text has not, nor have *)
(* the indexes while their places are those of the text.                   *)
CopyInv ==
  /\ body = [f \in Sources |-> body[f]]
  /\ known = [f \in Sources |-> known[f]]
  /\ located = [f \in Sources |-> located[f]]
  /\ \A f \in Sources : body[f] \subseteq text[f]
  /\ \A f \in Sources : located[f] # "stale" => known[f] \subseteq text[f]

TextInv ==
  /\ text = [f \in Sources |-> text[f]]
  /\ \A f \in Sources : \A i \in text[f] : WholeItem(i)
  /\ CopyInv

LEMMA WrittenForms ==
  /\ \A k, n : /\ WholeItem(Def(k, n))
               /\ Def(k, n).item = "def" /\ Def(k, n).kind = k /\ Def(k, n).name = n
  /\ \A k, n, a : /\ WholeItem(Ref(k, n, a))
                  /\ Ref(k, n, a).item = "ref" /\ Ref(k, n, a).kind = k
                  /\ Ref(k, n, a).name = n /\ Ref(k, n, a).attr = a
  /\ \A k, t, n : /\ WholeItem(Moved(k, t, n))
                  /\ Moved(k, t, n).item = "moved" /\ Moved(k, t, n).kind = k
                  /\ Moved(k, t, n).to = t /\ Moved(k, t, n).name = n
  /\ WholeItem(Cut) /\ Cut.item = "cut"
  BY DEF WholeItem, Def, Ref, Moved, Cut

(* The four forms.                                                         *)
LEMMA Forms ==
  ASSUME NEW i, WholeItem(i)
  PROVE  \/ i.item = "def" /\ i = Def(i.kind, i.name)
         \/ i.item = "ref" /\ i = Ref(i.kind, i.name, i.attr)
         \/ i.item = "moved" /\ i = Moved(i.kind, i.to, i.name)
         \/ i.item = "cut" /\ i = [item |-> "cut", kind |-> i.kind, name |-> i.name]
  BY DEF WholeItem

(* A conversion changes the type and nothing else.                         *)
LEMMA RetypeOnly ==
  ASSUME NEW family, NEW i, WholeItem(i)
  PROVE  /\ WholeItem(Retype(family, i))
         /\ Retype(family, i).item = i.item /\ Retype(family, i).name = i.name
         /\ Retype(family, i).kind = IF i.kind = family.from THEN family.to ELSE i.kind
<1>1. CASE i = Def(i.kind, i.name)
  BY <1>1 DEF Retype, WholeItem, Def
<1>2. CASE i = Ref(i.kind, i.name, i.attr)
  BY <1>2 DEF Retype, WholeItem, Ref
<1>3. CASE i = Moved(i.kind, i.to, i.name)
  BY <1>3 DEF Retype, WholeItem, Moved
<1>4. CASE i = [item |-> "cut", kind |-> i.kind, name |-> i.name]
  BY <1>4 DEF Retype, WholeItem
<1> QED BY <1>1, <1>2, <1>3, <1>4, Forms

LEMMA DeclaresWhat ==
  ASSUME NEW t, NEW dir, NEW key
  PROVE  key \in Declares(t, dir) <=>
           \E f \in Sources : \E i \in t[f] :
             DirOf[f] = dir /\ i.item = "def" /\ key = <<i.kind, i.name>>
  BY DEF Declares

LEMMA MentionsWhat ==
  ASSUME NEW t, NEW dir, NEW key
  PROVE  key \in Mentions(t, dir) <=>
           \E f \in Sources : \E i \in t[f] :
             DirOf[f] = dir /\ i.item = "ref" /\ key = <<i.kind, i.name>>
  BY DEF Mentions

-----------------------------------------------------------------------------
(* Edits as the server sees them applied.                                  *)

LEMMA ApplyDoes ==
  ASSUME NEW becomes, NEW added, Apply(becomes, added)
  PROVE  /\ text' = [f \in Sources |-> text'[f]]
         /\ body' = [f \in Sources |-> body'[f]]
         /\ known' = [f \in Sources |-> known'[f]]
         /\ located' = located
         /\ \A f \in Sources : \A j :
              /\ j \in text'[f] <=> (\E i \in text[f] : j \in becomes[f][i]) \/ j \in added[f]
              /\ j \in body'[f] => (\E i \in body[f] : j \in becomes[f][i]) \/ j \in added[f]
              /\ (located[f] # "stale" /\ j \in known'[f]) =>
                   (\E i \in known[f] : j \in becomes[f][i]) \/ j \in added[f]
<1> DEFINE after(f, items) == UNION {becomes[f][i] : i \in items}
           current(f) == located[f] # "stale"
<1>1. PICK unread \in SUBSET {f \in Sources : located[f] = "name" /\ added[f] # {}} :
        /\ text' = [f \in Sources |-> after(f, text[f]) \cup added[f]]
        /\ body' = [f \in Sources |->
                      IF current(f)
                      THEN after(f, body[f]) \cup (IF f \in unread THEN {} ELSE added[f])
                      ELSE {}]
        /\ known' = [f \in Sources |->
                       IF current(f)
                       THEN after(f, known[f]) \cup (IF f \in unread THEN {} ELSE added[f])
                       ELSE known[f]]
        /\ located' = located
  BY Zenon DEF Apply
<1>2. \A f, items, j : j \in after(f, items) <=> \E i \in items : j \in becomes[f][i]
  OBVIOUS
<1> HIDE DEF after
<1>3. \A f \in Sources :
        /\ text'[f] = after(f, text[f]) \cup added[f]
        /\ body'[f] \subseteq after(f, body[f]) \cup added[f]
        /\ located[f] # "stale" => known'[f] \subseteq after(f, known[f]) \cup added[f]
  BY <1>1
<1>4. text' = [f \in Sources |-> text'[f]]
  BY <1>1
<1>5. body' = [f \in Sources |-> body'[f]]
  BY <1>1, Zenon
<1>6. known' = [f \in Sources |-> known'[f]]
  BY <1>1, Zenon
<1>7. \A f \in Sources : \A j :
        /\ j \in text'[f] <=> (\E i \in text[f] : j \in becomes[f][i]) \/ j \in added[f]
        /\ j \in body'[f] => (\E i \in body[f] : j \in becomes[f][i]) \/ j \in added[f]
        /\ (located[f] # "stale" /\ j \in known'[f]) =>
             (\E i \in known[f] : j \in becomes[f][i]) \/ j \in added[f]
  BY <1>2, <1>3
<1> QED BY <1>1, <1>4, <1>5, <1>6, <1>7

LEMMA ApplyInv ==
  ASSUME TextInv, NEW becomes, NEW added, Apply(becomes, added),
         \A f \in Sources : /\ \A i \in text[f] : \A j \in becomes[f][i] : WholeItem(j)
                            /\ \A j \in added[f] : WholeItem(j)
  PROVE  TextInv'
<1>1. ASSUME NEW f \in Sources, NEW j \in text'[f] PROVE WholeItem(j)
  <2>1. (\E i \in text[f] : j \in becomes[f][i]) \/ j \in added[f]
    BY ApplyDoes
  <2> QED BY <2>1
<1>2. ASSUME NEW f \in Sources, NEW j \in body'[f] PROVE j \in text'[f]
  <2>1. body[f] \subseteq text[f]
    BY DEF TextInv, CopyInv
  <2>2. (\E i \in body[f] : j \in becomes[f][i]) \/ j \in added[f]
    BY ApplyDoes
  <2> QED BY <2>1, <2>2, ApplyDoes
<1>3. ASSUME NEW f \in Sources, located'[f] # "stale", NEW j \in known'[f]
      PROVE  j \in text'[f]
  <2>0. located' = located
    BY ApplyDoes
  <2>1. known[f] \subseteq text[f]
    BY <1>3, <2>0 DEF TextInv, CopyInv
  <2>2. (\E i \in known[f] : j \in becomes[f][i]) \/ j \in added[f]
    BY <1>3, <2>0, ApplyDoes
  <2> QED BY <2>1, <2>2, ApplyDoes
<1>4. /\ text' = [f \in Sources |-> text'[f]]
      /\ body' = [f \in Sources |-> body'[f]]
      /\ known' = [f \in Sources |-> known'[f]]
      /\ located' = [f \in Sources |-> located'[f]]
  <2>1. located = [f \in Sources |-> located[f]]
    BY DEF TextInv, CopyInv
  <2>2. located' = [f \in Sources |-> located'[f]]
    BY <2>1, ApplyDoes
  <2> QED BY <2>2, ApplyDoes
<1> QED BY <1>1, <1>2, <1>3, <1>4 DEF TextInv, CopyInv

-----------------------------------------------------------------------------
(* Conversions.                                                            *)

(* What a conversion visits, rewrites and appends.                         *)
Visited(scope, f) == {g \in InScope(scope, f) : DirOf[g] \in Admits}

FilesOf(dir) == {g \in Sources : DirOf[g] = dir}

ChosenIn(g, scope, f, family, name, selection) ==
  IF g \in Visited(scope, f) THEN Chosen(scope, family, body[g], name, selection) ELSE {}

ConvertedIn(dir, scope, f, family, name, selection) ==
  UNION {Converted(family, ChosenIn(g, scope, f, family, name, selection)) : g \in FilesOf(dir)}

AddedIn(dir, scope, f, family, name, selection) ==
  Recorded(scope, family, ConvertedIn(dir, scope, f, family, name, selection))
    \ MovedNames(body, FilesOf(dir), family)

NewItem(g, i, scope, f, family, name, selection) ==
  IF i \in ChosenIn(g, scope, f, family, name, selection) THEN Retype(family, i) ELSE i

Appended(g, scope, f, family, name, selection) ==
  IF g = HomeOf[DirOf[g]]["moved"]
  THEN {Moved(family.from, family.to, n) :
          n \in AddedIn(DirOf[g], scope, f, family, name, selection)}
  ELSE {}

ConvertDoes(scope, f, family, name, selection) ==
  /\ \E names : /\ latest' = [op |-> "convert", scope |-> scope, family |-> family,
                              names |-> names]
                /\ \A dir \in Dirs :
                     names[dir] = ConvertedIn(dir, scope, f, family, name, selection)
  /\ \E becomes, added :
       /\ Apply(becomes, added)
       /\ \A g \in Sources :
            /\ \A i \in text[g] :
                 becomes[g][i] = {NewItem(g, i, scope, f, family, name, selection)}
            /\ added[g] = Appended(g, scope, f, family, name, selection)

LEMMA ConvertText ==
  ASSUME NEW scope, NEW f \in Sources, NEW family, NEW name, NEW selection,
         Convert(scope, f, family, name, selection)
  PROVE  ConvertDoes(scope, f, family, name, selection)
<1> DEFINE chosen == [g \in Sources |->
                        IF g \in Visited(scope, f)
                        THEN Chosen(scope, family, body[g], name, selection)
                        ELSE {}]
           names(dir) == UNION {Converted(family, chosen[g]) : g \in FilesOf(dir)}
           added(dir) == Recorded(scope, family, names(dir)) \ MovedNames(body, FilesOf(dir), family)
           becomes == [g \in Sources |->
                         [i \in text[g] |-> {IF i \in chosen[g] THEN Retype(family, i) ELSE i}]]
           appended == [g \in Sources |->
                          IF g = HomeOf[DirOf[g]]["moved"]
                          THEN {Moved(family.from, family.to, n) : n \in added(DirOf[g])}
                          ELSE {}]
<1>1. /\ Apply(becomes, appended)
      /\ latest' = [op |-> "convert", scope |-> scope, family |-> family,
                    names |-> [dir \in Dirs |-> names(dir)]]
  BY Zenon DEF Convert, Visited, FilesOf
<1>2. \A g \in Sources : chosen[g] = ChosenIn(g, scope, f, family, name, selection)
  BY DEF ChosenIn
<1> HIDE DEF chosen
<1>3. \A dir : names(dir) = ConvertedIn(dir, scope, f, family, name, selection)
  BY <1>2 DEF ConvertedIn, FilesOf
<1> HIDE DEF names
<1>4. \A dir : added(dir) = AddedIn(dir, scope, f, family, name, selection)
  BY <1>3 DEF AddedIn
<1> HIDE DEF added
<1>5. \A g \in Sources : \A i \in text[g] :
        becomes[g][i] = {NewItem(g, i, scope, f, family, name, selection)}
  BY <1>2 DEF NewItem
<1>6. \A g \in Sources : appended[g] = Appended(g, scope, f, family, name, selection)
  BY <1>4 DEF Appended
<1> HIDE DEF becomes, appended
<1>7. \E all : /\ latest' = [op |-> "convert", scope |-> scope, family |-> family, names |-> all]
               /\ \A dir \in Dirs : all[dir] = ConvertedIn(dir, scope, f, family, name, selection)
  <2>1. \A dir \in Dirs : [d \in Dirs |-> names(d)][dir] = ConvertedIn(dir, scope, f, family, name, selection)
    BY <1>3
  <2> QED BY <1>1, <2>1
<1>8. \E new, more :
        /\ Apply(new, more)
        /\ \A g \in Sources :
             /\ \A i \in text[g] :
                  new[g][i] = {NewItem(g, i, scope, f, family, name, selection)}
             /\ more[g] = Appended(g, scope, f, family, name, selection)
  BY <1>1, <1>5, <1>6
<1> QED BY <1>7, <1>8 DEF ConvertDoes

(* The text afterwards.                                                    *)
LEMMA ConvertMakes ==
  ASSUME NEW scope, NEW f \in Sources, NEW family, NEW name, NEW selection,
         Convert(scope, f, family, name, selection), NEW g \in Sources, NEW j
  PROVE  j \in text'[g] <=>
           \/ \E i \in text[g] : j = NewItem(g, i, scope, f, family, name, selection)
           \/ j \in Appended(g, scope, f, family, name, selection)
<1>1. PICK becomes, added :
        /\ Apply(becomes, added)
        /\ \A i \in text[g] : becomes[g][i] = {NewItem(g, i, scope, f, family, name, selection)}
        /\ added[g] = Appended(g, scope, f, family, name, selection)
  <2>1. ConvertDoes(scope, f, family, name, selection)
    BY ConvertText
  <2> QED BY <2>1, Zenon DEF ConvertDoes
<1>2. j \in text'[g] <=> (\E i \in text[g] : j \in becomes[g][i]) \/ j \in added[g]
  BY <1>1, ApplyDoes
<1> QED BY <1>1, <1>2

(* Every name converted gets its `moved` block, or has one.                *)
LEMMA ConvertRecords ==
  ASSUME TextInv, NEW scope, NEW f \in Sources, NEW family, NEW name, NEW selection,
         Convert(scope, f, family, name, selection), NEW dir \in Dirs,
         latest'.family.moves, latest'.scope = "Selection" => latest'.family.generic,
         NEW n \in latest'.names[dir]
  PROVE  \/ n \in MovedNames(text', FilesOf(dir), latest'.family)
         \/ n \in MovedNames(text, FilesOf(dir), latest'.family)
<1>0. ConvertDoes(scope, f, family, name, selection)
  BY ConvertText
<1>a. PICK names : /\ latest' = [op |-> "convert", scope |-> scope, family |-> family,
                                 names |-> names]
                   /\ \A d \in Dirs :
                        names[d] = ConvertedIn(d, scope, f, family, name, selection)
  BY <1>0 DEF ConvertDoes
<1>1. /\ latest'.family = family /\ latest'.scope = scope
      /\ n \in ConvertedIn(dir, scope, f, family, name, selection)
  BY <1>a
<1>2. CASE n \in MovedNames(body, FilesOf(dir), family)
  <2>1. \A g \in FilesOf(dir) : body[g] \subseteq text[g]
    BY DEF FilesOf, TextInv, CopyInv
  <2> QED BY <1>1, <1>2, <2>1 DEF MovedNames
<1>3. CASE n \notin MovedNames(body, FilesOf(dir), family)
  <2>1. n \in AddedIn(dir, scope, f, family, name, selection)
    BY <1>1, <1>3 DEF AddedIn, Recorded
  <2>2. PICK g \in FilesOf(dir) : g = HomeOf[DirOf[g]]["moved"]
    <3>1. HomeOf[dir]["moved"] \in FilesOf(dir)
      BY EditConstants DEF FilesOf
    <3> QED BY <3>1 DEF FilesOf
  <2>3. Moved(family.from, family.to, n) \in text'[g]
    <3>1. DirOf[g] = dir /\ g \in Sources
      BY DEF FilesOf
    <3>2. Moved(family.from, family.to, n) \in Appended(g, scope, f, family, name, selection)
      BY <2>1, <2>2, <3>1 DEF Appended
    <3> QED BY <3>1, <3>2, ConvertMakes
  <2>4. n \in MovedNames(text', FilesOf(dir), family)
    BY <2>3, WrittenForms DEF MovedNames
  <2> QED BY <1>1, <2>4
<1> QED BY <1>2, <1>3

(* The items of a file converted whole.                                    *)
LEMMA ConvertedWhole ==
  ASSUME NEW scope \in {"Module", "Workspace"}, NEW f \in Sources, NEW family, NEW name,
         NEW selection, Convert(scope, f, family, name, selection),
         NEW g \in Sources, g \in Visited(scope, f), body[g] = text[g]
  PROVE  /\ \A i \in text[g] : Retype(family, i) \in text'[g]
         /\ \A j \in text'[g] : j.item = "ref" => \E i \in text[g] : j = Retype(family, i)
<1>1. ChosenIn(g, scope, f, family, name, selection) = {i \in text[g] : i.kind = family.from}
  BY DEF ChosenIn, Chosen
<1>2. \A i \in text[g] : NewItem(g, i, scope, f, family, name, selection) = Retype(family, i)
  BY <1>1 DEF NewItem, Retype
<1>3. \A j \in Appended(g, scope, f, family, name, selection) : j.item = "moved"
  BY WrittenForms DEF Appended
<1> QED BY <1>2, <1>3, ConvertMakes

LEMMA ConvertKeeps ==
  ASSUME TextInv, NEW scope, NEW f \in Sources, NEW family, NEW name, NEW selection,
         Convert(scope, f, family, name, selection), NEW dir \in Dirs, dir \in Admits
  PROVE  ConversionKeeps(dir)
<1>0. ConvertDoes(scope, f, family, name, selection)
  BY ConvertText
<1> SUFFICES ASSUME scope \in {"Module", "Workspace"},
                    ConvertedIn(dir, scope, f, family, name, selection) # {},
                    \A g \in Sources : DirOf[g] = dir => body[g] = text[g],
                    Dangling(text, dir) = {}
             PROVE  Dangling(text', dir) = {}
  <2>1. \E names : /\ latest' = [op |-> "convert", scope |-> scope, family |-> family,
                                 names |-> names]
                   /\ names[dir] = ConvertedIn(dir, scope, f, family, name, selection)
    BY <1>0 DEF ConvertDoes
  <2>2. latest'.scope = scope /\ latest'.names[dir] = ConvertedIn(dir, scope, f, family, name, selection)
    BY <2>1
  <2> QED BY <2>2 DEF ConversionKeeps
<1>1. \A g \in Sources : DirOf[g] = dir => g \in Visited(scope, f)
  <2>1. PICK h \in Visited(scope, f) : DirOf[h] = dir
    <3>1. PICK h \in FilesOf(dir) :
            Converted(family, ChosenIn(h, scope, f, family, name, selection)) # {}
      BY DEF ConvertedIn
    <3> QED BY <3>1 DEF FilesOf, ChosenIn, Converted
  <2> QED BY <2>1 DEF Visited, InScope
<1> SUFFICES ASSUME NEW key \in Mentions(text', dir) PROVE key \in Declares(text', dir)
  BY DEF Dangling
<1>a. PICK g \in Sources : \E j \in text'[g] :
        DirOf[g] = dir /\ j.item = "ref" /\ key = <<j.kind, j.name>>
  BY MentionsWhat
<1>2. PICK j \in text'[g] : DirOf[g] = dir /\ j.item = "ref" /\ key = <<j.kind, j.name>>
  BY <1>a
<1>3. PICK i \in text[g] : j = Retype(family, i)
  BY <1>1, <1>2, ConvertedWhole
<1>4. WholeItem(i) /\ i.item = "ref"
  BY <1>2, <1>3, RetypeOnly DEF TextInv
<1>5. <<i.kind, i.name>> \in Declares(text, dir)
  <2>1. <<i.kind, i.name>> \in Mentions(text, dir)
    BY <1>2, <1>4, MentionsWhat
  <2> QED BY <2>1 DEF Dangling
<1>b. PICK h \in Sources : \E d \in text[h] :
        DirOf[h] = dir /\ d.item = "def" /\ <<i.kind, i.name>> = <<d.kind, d.name>>
  BY <1>5, DeclaresWhat
<1>6. PICK d \in text[h] :
        DirOf[h] = dir /\ d.item = "def" /\ <<i.kind, i.name>> = <<d.kind, d.name>>
  BY <1>b
<1>7. Retype(family, d) \in text'[h] /\ WholeItem(d) /\ d.kind = i.kind /\ d.name = i.name
  BY <1>1, <1>6, ConvertedWhole DEF TextInv
<1>8. /\ Retype(family, d).item = "def" /\ Retype(family, d).name = j.name
      /\ Retype(family, d).kind = j.kind
  BY <1>3, <1>4, <1>6, <1>7, RetypeOnly
<1> QED BY <1>2, <1>6, <1>7, <1>8, DeclaresWhat

LEMMA ConvertInv ==
  ASSUME TextInv, NEW scope, NEW f \in Sources, NEW family, NEW name, NEW selection,
         Convert(scope, f, family, name, selection)
  PROVE  TextInv'
<1>0. ConvertDoes(scope, f, family, name, selection)
  BY ConvertText
<1>1. PICK becomes, added :
        /\ Apply(becomes, added)
        /\ \A g \in Sources :
             /\ \A i \in text[g] :
                  becomes[g][i] = {NewItem(g, i, scope, f, family, name, selection)}
             /\ added[g] = Appended(g, scope, f, family, name, selection)
  <2>1. ConvertDoes(scope, f, family, name, selection)
    BY ConvertText
  <2> QED BY <2>1, Zenon DEF ConvertDoes
<1>2. ASSUME NEW g \in Sources, NEW i \in text[g], NEW j \in becomes[g][i] PROVE WholeItem(j)
  <2>1. WholeItem(i) /\ WholeItem(Retype(family, i))
    BY RetypeOnly DEF TextInv
  <2> QED BY <1>1, <2>1 DEF NewItem
<1>3. ASSUME NEW g \in Sources, NEW j \in added[g] PROVE WholeItem(j)
  <2>1. j \in Appended(g, scope, f, family, name, selection)
    BY <1>1
  <2> QED BY <2>1, WrittenForms DEF Appended
<1> QED BY <1>1, <1>2, <1>3, ApplyInv

-----------------------------------------------------------------------------
(* Renames.                                                                *)

WithName(i, n) == [i EXCEPT !.name = n]
WithAttr(i, a) == [i EXCEPT !.attr = a]

LEMMA RefNamed ==
  ASSUME NEW k, NEW n, NEW a, NEW b, NEW i, i = Ref(k, n, a)
  PROVE  WithName(i, b) = Ref(k, b, a)
  BY DEF Ref, WithName

LEMMA RefRead ==
  ASSUME NEW k, NEW n, NEW a, NEW b, NEW i, i = Ref(k, n, a)
  PROVE  WithAttr(i, b) = Ref(k, n, b)
  BY DEF Ref, WithAttr

LEMMA StruckForm ==
  ASSUME NEW kind, NEW name, NEW i, WholeItem(i)
  PROVE  /\ WholeItem(Struck(kind, name, i))
         /\ Struck(kind, name, i).item \in {i.item, "cut"}
<1>0. WholeItem(Cut) /\ Cut.item = "cut"
  BY WrittenForms
<1>1. CASE i.item = "def" /\ i = Def(i.kind, i.name)
  <2>1. [i EXCEPT !.name = Fresh] = Def(i.kind, Fresh)
    BY <1>1 DEF Def
  <2>2. Struck(kind, name, i) \in {Cut, Def(i.kind, Fresh)}
    BY <1>1, <2>1 DEF Struck
  <2>3. WholeItem(Def(i.kind, Fresh)) /\ Def(i.kind, Fresh).item = "def"
    BY WrittenForms
  <2> QED BY <1>0, <1>1, <2>2, <2>3
<1>2. CASE i.item = "ref" /\ i = Ref(i.kind, i.name, i.attr)
  <2>1. WithName(i, Fresh) = Ref(i.kind, Fresh, i.attr)
    BY <1>2, RefNamed
  <2>2. WithAttr(i, Fresh) = Ref(i.kind, i.name, Fresh)
    BY <1>2, RefRead
  <2>3. Struck(kind, name, i) \in {Cut, WithName(i, Fresh), WithAttr(i, Fresh)}
    BY DEF Struck, WithName, WithAttr
  <2>4. \A n, a : WholeItem(Ref(i.kind, n, a)) /\ Ref(i.kind, n, a).item = "ref"
    BY WrittenForms
  <2> QED BY <1>0, <1>2, <2>1, <2>2, <2>3, <2>4
<1>3. CASE i.item = "moved" /\ i = Moved(i.kind, i.to, i.name)
  BY <1>0, <1>3 DEF Struck
<1>4. CASE i.item = "cut" /\ i = [item |-> "cut", kind |-> i.kind, name |-> i.name]
  <2>1. [i EXCEPT !.name = Fresh] = [item |-> "cut", kind |-> i.kind, name |-> Fresh]
    BY <1>4
  <2>2. Struck(kind, name, i) \in {Cut, [item |-> "cut", kind |-> i.kind, name |-> Fresh]}
    BY <1>4, <2>1 DEF Struck
  <2>3. WholeItem([item |-> "cut", kind |-> i.kind, name |-> Fresh])
    BY DEF WholeItem
  <2> QED BY <1>0, <2>2, <2>3
<1> QED BY <1>1, <1>2, <1>3, <1>4, Forms

(* A labelled block and the references to it take the new name, and nothing *)
(* else of them changes.                                                    *)
LEMMA StruckKey ==
  ASSUME NEW kind \in Labelled, NEW name, NEW i, WholeItem(i), i.item \in {"def", "ref"},
         ~(i.item = "ref" /\ i.attr = name)
  PROVE  /\ Struck(kind, name, i).item = i.item
         /\ Struck(kind, name, i).kind = i.kind
         /\ Struck(kind, name, i).name = Fresh
<1>1. Struck(kind, name, i) = [i EXCEPT !.name = Fresh]
  BY DEF Struck
<1>2. CASE i = Def(i.kind, i.name)
  BY <1>1, <1>2 DEF Def
<1>3. CASE i = Ref(i.kind, i.name, i.attr)
  BY <1>1, <1>3 DEF Ref
<1> QED BY <1>2, <1>3, Forms

(* What a rename makes of an item.                                         *)
RenameDoes(kind, name, f, i, j) ==
  /\ j \in {i, Struck(kind, name, i)}
  /\ located[f] # "stale" => j = RenameItem(kind, name, f, i)
  /\ (located[f] = "stale" /\ Occurrences(kind, name, known[f]) = {}) => j = i

LEMMA RenameApplies ==
  ASSUME NEW kind, NEW name, Rename(kind, name)
  PROVE  /\ latest' = [op |-> "rename", kind |-> kind, name |-> name]
         /\ \E becomes, added :
              /\ Apply(becomes, added)
              /\ \A f \in Sources :
                   /\ \A i \in text[f] : \E j : /\ becomes[f][i] = {j}
                                              /\ RenameDoes(kind, name, f, i, j)
                   /\ added[f] = {}
<1> DEFINE old == {f \in Sources : /\ located[f] = "stale"
                                   /\ Occurrences(kind, name, known[f]) # {}}
           words == UNION {{<<f, i>> : i \in Worded(kind, name, text[f])} : f \in old}
           new(covered, f, i) == IF located[f] # "stale" THEN RenameItem(kind, name, f, i)
                                 ELSE IF <<f, i>> \in covered THEN Struck(kind, name, i)
                                 ELSE i
           becomes(covered) == [f \in Sources |-> [i \in text[f] |-> {new(covered, f, i)}]]
           nothing == [f \in Sources |-> {}]
<1>1. PICK covered \in SUBSET words :
        /\ Apply(becomes(covered), nothing)
        /\ latest' = [op |-> "rename", kind |-> kind, name |-> name]
  BY Zenon DEF Rename
<1>2. ASSUME NEW f \in Sources, NEW i \in text[f]
      PROVE  RenameDoes(kind, name, f, i, new(covered, f, i))
  <2>1. CASE located[f] # "stale"
    BY <2>1 DEF RenameDoes, RenameItem
  <2>2. CASE located[f] = "stale"
    <3>1. <<f, i>> \in covered => Occurrences(kind, name, known[f]) # {}
      <4>1. SUFFICES ASSUME <<f, i>> \in words PROVE f \in old
        OBVIOUS
      <4>2. PICK g \in old : \E k \in Worded(kind, name, text[g]) : <<f, i>> = <<g, k>>
        BY <4>1
      <4> QED BY <4>2
    <3> QED BY <2>2, <3>1 DEF RenameDoes
  <2> QED BY <2>1, <2>2
<1>3. \A f \in Sources : \A i \in text[f] : becomes(covered)[f][i] = {new(covered, f, i)}
  OBVIOUS
<1>4. \A f \in Sources : nothing[f] = {}
  OBVIOUS
<1> HIDE DEF becomes, new, nothing
<1>5. \A f \in Sources :
        /\ \A i \in text[f] : \E j : /\ becomes(covered)[f][i] = {j}
                                   /\ RenameDoes(kind, name, f, i, j)
        /\ nothing[f] = {}
  BY <1>2, <1>3, <1>4
<1> QED BY <1>1, <1>5

LEMMA RenameInv ==
  ASSUME TextInv, NEW kind, NEW name, Rename(kind, name)
  PROVE  TextInv'
<1>1. PICK becomes, added :
        /\ Apply(becomes, added)
        /\ \A f \in Sources :
             /\ \A i \in text[f] : \E j : /\ becomes[f][i] = {j}
                                        /\ RenameDoes(kind, name, f, i, j)
             /\ added[f] = {}
  BY RenameApplies
<1>2. ASSUME NEW f \in Sources, NEW i \in text[f], NEW k \in becomes[f][i] PROVE WholeItem(k)
  <2>1. k \in {i, Struck(kind, name, i)}
    BY <1>1 DEF RenameDoes
  <2>2. WholeItem(i)
    BY DEF TextInv
  <2> QED BY <2>1, <2>2, StruckForm
<1> QED BY <1>1, <1>2, ApplyInv

(* What a key becomes.                                                     *)
NewKey(kind, name, key) == IF key = <<kind, name>> THEN <<kind, Fresh>> ELSE key

(* In a file where everything under the name is listed and in its place.   *)
LEMMA RenameReaches ==
  ASSUME TextInv, NEW kind \in Labelled, NEW name, NEW f \in Sources, NEW i \in text[f], NEW j,
         RenameDoes(kind, name, f, i, j), i.item \in {"def", "ref"}, Reached(f, kind, name),
         \A k \in Occurrences(kind, name, text[f]) : ~(k.item = "ref" /\ k.attr = name)
  PROVE  /\ j.item = i.item
         /\ <<j.kind, j.name>> = NewKey(kind, name, <<i.kind, i.name>>)
<1>0. WholeItem(i)
  BY DEF TextInv
<1>1. CASE i.kind = kind /\ i.name = name
  <2>1. i \in Occurrences(kind, name, text[f])
    BY <1>1 DEF Occurrences, Named
  <2>2. /\ i \in Occurrences(kind, name, known[f])
        /\ located[f] # "stale"
        /\ i.item = "def" => located[f] = "block"
    BY <2>1 DEF Reached
  <2>3. j = Struck(kind, name, i)
    BY <2>2 DEF RenameDoes, RenameItem
  <2> QED BY <1>0, <1>1, <2>1, <2>3, StruckKey DEF NewKey
<1>2. CASE ~(i.kind = kind /\ i.name = name)
  <2>1. ~Named(kind, name, i)
    BY <1>2 DEF Named
  <2>2. j = i
    <3>1. CASE located[f] # "stale"
      BY <2>1, <3>1 DEF RenameDoes, RenameItem, Occurrences
    <3>2. CASE located[f] = "stale"
      BY <3>2 DEF RenameDoes, Reached
    <3> QED BY <3>1, <3>2
  <2> QED BY <1>2, <2>2 DEF NewKey
<1> QED BY <1>1, <1>2

LEMMA RenameBoth ==
  ASSUME TextInv, NEW kind \in Labelled, NEW name, Rename(kind, name), NEW dir,
         \A f \in Sources : DirOf[f] = dir =>
           /\ Reached(f, kind, name)
           /\ \A i \in Occurrences(kind, name, text[f]) : ~(i.item = "ref" /\ i.attr = name)
  PROVE  /\ Declares(text', dir) = {NewKey(kind, name, key) : key \in Declares(text, dir)}
         /\ Mentions(text', dir) = {NewKey(kind, name, key) : key \in Mentions(text, dir)}
<1>0. PICK becomes, added :
        /\ Apply(becomes, added)
        /\ \A f \in Sources :
             /\ \A i \in text[f] : \E j : /\ becomes[f][i] = {j}
                                        /\ RenameDoes(kind, name, f, i, j)
             /\ added[f] = {}
  BY RenameApplies
<1>a. \A f \in Sources : \A j : j \in text'[f] <=> \E i \in text[f] : j \in becomes[f][i]
  BY <1>0, ApplyDoes
<1>1. ASSUME NEW f \in Sources, DirOf[f] = dir, NEW i \in text[f], i.item \in {"def", "ref"}
      PROVE  \E j \in text'[f] : /\ j.item = i.item
                                /\ <<j.kind, j.name>> = NewKey(kind, name, <<i.kind, i.name>>)
  <2>1. PICK j : becomes[f][i] = {j} /\ RenameDoes(kind, name, f, i, j)
    BY <1>0
  <2>2. j \in text'[f]
    BY <1>a, <2>1
  <2>3. /\ Reached(f, kind, name)
        /\ \A k \in Occurrences(kind, name, text[f]) : ~(k.item = "ref" /\ k.attr = name)
    BY <1>1
  <2> QED BY <1>1, <2>1, <2>2, <2>3, RenameReaches
<1>2. ASSUME NEW f \in Sources, DirOf[f] = dir, NEW j \in text'[f], j.item \in {"def", "ref"}
      PROVE  \E i \in text[f] : /\ i.item = j.item
                               /\ <<j.kind, j.name>> = NewKey(kind, name, <<i.kind, i.name>>)
  <2>1. PICK i \in text[f] : j \in becomes[f][i]
    BY <1>a
  <2>2. RenameDoes(kind, name, f, i, j)
    BY <1>0, <2>1
  <2>3. j.item \in {i.item, "cut"}
    BY <2>2, StruckForm DEF RenameDoes, TextInv
  <2>4. i.item = j.item
    BY <1>2, <2>3
  <2>5. /\ Reached(f, kind, name)
        /\ \A k \in Occurrences(kind, name, text[f]) : ~(k.item = "ref" /\ k.attr = name)
    BY <1>2
  <2>6. <<j.kind, j.name>> = NewKey(kind, name, <<i.kind, i.name>>)
    BY <1>2, <2>2, <2>4, <2>5, RenameReaches
  <2> QED BY <2>4, <2>6
<1>3. ASSUME NEW key
      PROVE  key \in Declares(text', dir) <=>
               \E old \in Declares(text, dir) : key = NewKey(kind, name, old)
  <2>1. ASSUME NEW old \in Declares(text, dir), key = NewKey(kind, name, old)
        PROVE  key \in Declares(text', dir)
    <3>1. PICK f \in Sources : \E i \in text[f] :
            DirOf[f] = dir /\ i.item = "def" /\ old = <<i.kind, i.name>>
      BY DeclaresWhat
    <3>2. PICK i \in text[f] : DirOf[f] = dir /\ i.item = "def" /\ old = <<i.kind, i.name>>
      BY <3>1
    <3>3. PICK j \in text'[f] : /\ j.item = "def"
                               /\ <<j.kind, j.name>> = NewKey(kind, name, old)
      BY <1>1, <3>2
    <3> QED BY <2>1, <3>2, <3>3, DeclaresWhat
  <2>2. ASSUME key \in Declares(text', dir)
        PROVE  \E old \in Declares(text, dir) : key = NewKey(kind, name, old)
    <3>1. PICK f \in Sources : \E j \in text'[f] :
            DirOf[f] = dir /\ j.item = "def" /\ key = <<j.kind, j.name>>
      BY <2>2, DeclaresWhat
    <3>2. PICK j \in text'[f] : DirOf[f] = dir /\ j.item = "def" /\ key = <<j.kind, j.name>>
      BY <3>1
    <3>3. PICK i \in text[f] : /\ i.item = j.item
                              /\ <<j.kind, j.name>> = NewKey(kind, name, <<i.kind, i.name>>)
      BY <1>2, <3>2
    <3>4. <<i.kind, i.name>> \in Declares(text, dir)
      BY <3>2, <3>3, DeclaresWhat
    <3> QED BY <3>2, <3>3, <3>4
  <2> QED BY <2>1, <2>2
<1>4. ASSUME NEW key
      PROVE  key \in Mentions(text', dir) <=>
               \E old \in Mentions(text, dir) : key = NewKey(kind, name, old)
  <2>1. ASSUME NEW old \in Mentions(text, dir), key = NewKey(kind, name, old)
        PROVE  key \in Mentions(text', dir)
    <3>1. PICK f \in Sources : \E i \in text[f] :
            DirOf[f] = dir /\ i.item = "ref" /\ old = <<i.kind, i.name>>
      BY MentionsWhat
    <3>2. PICK i \in text[f] : DirOf[f] = dir /\ i.item = "ref" /\ old = <<i.kind, i.name>>
      BY <3>1
    <3>3. PICK j \in text'[f] : /\ j.item = "ref"
                               /\ <<j.kind, j.name>> = NewKey(kind, name, old)
      BY <1>1, <3>2
    <3> QED BY <2>1, <3>2, <3>3, MentionsWhat
  <2>2. ASSUME key \in Mentions(text', dir)
        PROVE  \E old \in Mentions(text, dir) : key = NewKey(kind, name, old)
    <3>1. PICK f \in Sources : \E j \in text'[f] :
            DirOf[f] = dir /\ j.item = "ref" /\ key = <<j.kind, j.name>>
      BY <2>2, MentionsWhat
    <3>2. PICK j \in text'[f] : DirOf[f] = dir /\ j.item = "ref" /\ key = <<j.kind, j.name>>
      BY <3>1
    <3>3. PICK i \in text[f] : /\ i.item = j.item
                              /\ <<j.kind, j.name>> = NewKey(kind, name, <<i.kind, i.name>>)
      BY <1>2, <3>2
    <3>4. <<i.kind, i.name>> \in Mentions(text, dir)
      BY <3>2, <3>3, MentionsWhat
    <3> QED BY <3>2, <3>3, <3>4
  <2> QED BY <2>1, <2>2
<1>5. Declares(text', dir) = {NewKey(kind, name, key) : key \in Declares(text, dir)}
  BY <1>3
<1>6. Mentions(text', dir) = {NewKey(kind, name, key) : key \in Mentions(text, dir)}
  BY <1>4
<1> QED BY <1>5, <1>6

LEMMA RenameFollows ==
  ASSUME TextInv, NEW kind, NEW name, Rename(kind, name), NEW dir
  PROVE  RenameKeeps(dir)
<1>1. latest'.op = "rename" /\ latest'.kind = kind /\ latest'.name = name
  BY RenameApplies
<1> SUFFICES ASSUME kind \in Labelled,
                    \A f \in Sources : DirOf[f] = dir =>
                      /\ Reached(f, kind, name)
                      /\ \A i \in Occurrences(kind, name, text[f]) :
                           ~(i.item = "ref" /\ i.attr = name)
             PROVE  /\ Declares(text', dir) = {NewKey(kind, name, key) : key \in Declares(text, dir)}
                    /\ Mentions(text', dir) = {NewKey(kind, name, key) : key \in Mentions(text, dir)}
  BY <1>1, Zenon DEF RenameKeeps, NewKey
<1> QED BY RenameBoth

-----------------------------------------------------------------------------
(* Blocks filed where they belong.                                         *)

LEMMA DeclareApplies ==
  ASSUME TextInv, NEW dir \in Dirs, DeclareUndefined(dir)
  PROVE  /\ TextInv'
         /\ latest' = [op |-> "declare", dir |-> dir]
         /\ \A f \in Sources :
              text'[f] = IF f = HomeOf[dir]["variable"]
                         THEN text[f] \cup {Def("variable", ref[2]) :
                                ref \in {r \in Dangling(known, dir) : r[1] = "variable"}}
                         ELSE text[f]
<1> DEFINE home == HomeOf[dir]["variable"]
           stubs == {Def("variable", ref[2]) :
                       ref \in {r \in Dangling(known, dir) : r[1] = "variable"}}
<1>1. /\ Apply(AsItWas, AddedTo(home, stubs))
      /\ latest' = [op |-> "declare", dir |-> dir]
  BY DEF DeclareUndefined
<1>2. \A i \in stubs : WholeItem(i)
  BY WrittenForms
<1> HIDE DEF home, stubs
<1>3. \A f \in Sources : /\ \A i \in text[f] : AsItWas[f][i] = {i}
                         /\ AddedTo(home, stubs)[f] = IF f = home THEN stubs ELSE {}
  BY DEF AsItWas, AddedTo
<1>4. TextInv'
  <2>1. \A f \in Sources : /\ \A i \in text[f] : \A j \in AsItWas[f][i] : WholeItem(j)
                           /\ \A j \in AddedTo(home, stubs)[f] : WholeItem(j)
    BY <1>2, <1>3 DEF TextInv
  <2> QED BY <1>1, <2>1, ApplyInv
<1>5. ASSUME NEW f \in Sources
      PROVE  text'[f] = IF f = home THEN text[f] \cup stubs ELSE text[f]
  <2>1. \A j : j \in text'[f] <=> (\E i \in text[f] : j \in AsItWas[f][i])
                                 \/ j \in AddedTo(home, stubs)[f]
    BY <1>1, ApplyDoes
  <2>2. \A j : j \in text'[f] <=> j \in text[f] \/ (f = home /\ j \in stubs)
    BY <1>3, <2>1
  <2> QED BY <2>2
<1> QED BY <1>1, <1>4, <1>5 DEF home, stubs

LEMMA DeclareFiles ==
  ASSUME TextInv, NEW dir \in Dirs, DeclareUndefined(dir),
         \A f \in Sources : DirOf[f] = dir => known[f] = text[f]
  PROVE  /\ ~\E ref \in Dangling(text', dir) : ref[1] = "variable"
         /\ Declares(text', dir) \ Declares(text, dir) \subseteq Mentions(text, dir)
<1> DEFINE home == HomeOf[dir]["variable"]
<1>0. Dangling(known, dir) = Dangling(text, dir)
  <2>1. \A key : key \in Declares(known, dir) <=> key \in Declares(text, dir)
    BY DeclaresWhat
  <2>2. \A key : key \in Mentions(known, dir) <=> key \in Mentions(text, dir)
    BY MentionsWhat
  <2> QED BY <2>1, <2>2 DEF Dangling
<1>1. PICK missing : missing = {ref \in Dangling(text, dir) : ref[1] = "variable"}
  OBVIOUS
<1>2. home \in Sources /\ DirOf[home] = dir
  BY EditConstants
<1>3. PICK stubs : stubs = {Def("variable", ref[2]) : ref \in missing}
  OBVIOUS
<1>4. \A f \in Sources : text'[f] = IF f = home THEN text[f] \cup stubs ELSE text[f]
  BY <1>0, <1>1, <1>3, DeclareApplies
<1>5. \A i \in stubs : WholeItem(i) /\ i.item = "def"
  BY <1>3, WrittenForms
<1> HIDE DEF home
<1>7. ASSUME NEW ref \in Dangling(text', dir), ref[1] = "variable" PROVE FALSE
  <2>0. ref \in Mentions(text', dir) /\ ref \notin Declares(text', dir)
    BY DEF Dangling
  <2>1. PICK f \in Sources : \E i \in text'[f] :
          DirOf[f] = dir /\ i.item = "ref" /\ ref = <<i.kind, i.name>>
    BY <2>0, MentionsWhat
  <2>2. PICK i \in text'[f] : DirOf[f] = dir /\ i.item = "ref" /\ ref = <<i.kind, i.name>>
    BY <2>1
  <2>3. ref \in Mentions(text, dir)
    <3>1. i \in text[f]
      BY <1>4, <1>5, <2>2
    <3> QED BY <2>2, <3>1, MentionsWhat
  <2>4. ref \notin Declares(text, dir)
    <3> SUFFICES ASSUME ref \in Declares(text, dir) PROVE FALSE
      OBVIOUS
    <3>1. PICK g \in Sources : \E d \in text[g] :
            DirOf[g] = dir /\ d.item = "def" /\ ref = <<d.kind, d.name>>
      BY DeclaresWhat
    <3>2. PICK d \in text[g] : DirOf[g] = dir /\ d.item = "def" /\ ref = <<d.kind, d.name>>
      BY <3>1
    <3>3. d \in text'[g]
      BY <1>4
    <3> QED BY <2>0, <3>2, <3>3, DeclaresWhat
  <2>5. Def("variable", ref[2]) \in text'[home]
    <3>1. ref \in missing
      BY <1>1, <1>7, <2>3, <2>4 DEF Dangling
    <3> QED BY <1>2, <1>3, <1>4, <3>1
  <2>6. ref = <<"variable", ref[2]>>
    BY <1>7, <2>2
  <2> QED BY <1>2, <2>0, <2>5, <2>6, WrittenForms, DeclaresWhat
<1>8. ASSUME NEW key \in Declares(text', dir), key \notin Declares(text, dir)
      PROVE  key \in Mentions(text, dir)
  <2>1. PICK f \in Sources : \E i \in text'[f] :
          DirOf[f] = dir /\ i.item = "def" /\ key = <<i.kind, i.name>>
    BY DeclaresWhat
  <2>2. PICK i \in text'[f] : DirOf[f] = dir /\ i.item = "def" /\ key = <<i.kind, i.name>>
    BY <2>1
  <2>3. i \in stubs
    <3>1. i \notin text[f]
      BY <1>8, <2>2, DeclaresWhat
    <3> QED BY <1>4, <3>1
  <2>4. PICK ref \in missing : i = Def("variable", ref[2])
    BY <1>3, <2>3
  <2>5. ref \in Mentions(text, dir) /\ ref[1] = "variable"
    BY <1>1 DEF Dangling
  <2>6. ref = <<ref[1], ref[2]>>
    <3>1. PICK g \in Sources : \E r \in text[g] :
            DirOf[g] = dir /\ r.item = "ref" /\ ref = <<r.kind, r.name>>
      BY <2>5, MentionsWhat
    <3> QED BY <3>1
  <2> QED BY <2>2, <2>4, <2>5, <2>6, WrittenForms
<1> QED BY <1>7, <1>8

LEMMA GatherFiles ==
  ASSUME TextInv, NEW dir \in Dirs, NEW kind \in DOMAIN HomeOf[dir], Gather(dir, kind)
  PROVE  /\ TextInv'
         /\ latest' = [op |-> "gather", dir |-> dir, kind |-> kind]
         /\ \A d \in Dirs : Declares(text', d) = Declares(text, d)
         /\ \A f \in Sources :
              (DirOf[f] = dir /\ f # HomeOf[dir][kind]) => Defs(text', f, kind) \cap body[f] = {}
<1> DEFINE home == HomeOf[dir][kind]
           cut == [f \in Sources |-> [i \in text[f] |-> {i} \ Outside(dir, kind)[f]]]
<1>1. PICK strays : strays = {f \in Sources : DirOf[f] = dir /\ f # home}
  OBVIOUS
<1>2. PICK taken : taken = UNION {Outside(dir, kind)[f] : f \in Sources}
  OBVIOUS
<1>3. /\ Apply(cut, AddedTo(home, taken))
      /\ latest' = [op |-> "gather", dir |-> dir, kind |-> kind]
  BY <1>2, Zenon DEF Gather
<1>4. home \in Sources /\ DirOf[home] = dir
  BY EditConstants
<1>a. \A f \in Sources :
        Outside(dir, kind)[f] = IF f \in strays THEN Defs(body, f, kind) ELSE {}
  BY <1>1 DEF Outside
<1>b. \A f \in Sources : /\ \A i \in text[f] : cut[f][i] = {i} \ Outside(dir, kind)[f]
                         /\ AddedTo(home, taken)[f] = IF f = home THEN taken ELSE {}
  BY DEF AddedTo
<1> HIDE DEF home, cut
<1>c. home \notin strays
  BY <1>1
<1>5. ASSUME NEW f \in Sources
      PROVE  text'[f] = IF f = home THEN text[f] \cup taken
                        ELSE IF f \in strays THEN text[f] \ Defs(body, f, kind)
                        ELSE text[f]
  <2>1. \A j : j \in text'[f] <=> (\E i \in text[f] : j \in cut[f][i])
                                 \/ j \in AddedTo(home, taken)[f]
    BY <1>3, ApplyDoes
  <2>2. ASSUME NEW j
        PROVE  (\E i \in text[f] : j \in cut[f][i])
                 <=> j \in text[f] /\ j \notin Outside(dir, kind)[f]
    BY <1>b
  <2>3. \A j : j \in AddedTo(home, taken)[f] <=> f = home /\ j \in taken
    BY <1>b
  <2>4. CASE f = home
    <3>1. Outside(dir, kind)[f] = {}
      BY <1>a, <1>c, <2>4
    <3>2. \A j : j \in text'[f] <=> j \in text[f] \/ j \in taken
      BY <2>1, <2>2, <2>3, <2>4, <3>1
    <3> QED BY <2>4, <3>2
  <2>5. CASE f # home /\ f \in strays
    <3>1. Outside(dir, kind)[f] = Defs(body, f, kind)
      BY <1>a, <2>5
    <3>2. \A j : j \in text'[f] <=> j \in text[f] /\ j \notin Defs(body, f, kind)
      BY <2>1, <2>2, <2>3, <2>5, <3>1
    <3> QED BY <2>5, <3>2
  <2>6. CASE f # home /\ f \notin strays
    <3>1. Outside(dir, kind)[f] = {}
      BY <1>a, <2>6
    <3>2. \A j : j \in text'[f] <=> j \in text[f]
      BY <2>1, <2>2, <2>3, <2>6, <3>1
    <3> QED BY <2>6, <3>2
  <2> QED BY <2>4, <2>5, <2>6
<1>6. \A i : i \in taken <=>
        \E f \in strays : i \in body[f] /\ i.item = "def" /\ i.kind = kind
  BY <1>1, <1>2, <1>a DEF Defs
<1>d. \A f \in Sources : body[f] \subseteq text[f]
  BY DEF TextInv, CopyInv
<1>7. TextInv'
  <2>1. \A i \in taken : WholeItem(i)
    BY <1>1, <1>6, <1>d DEF TextInv
  <2>2. \A f \in Sources : /\ \A i \in text[f] : \A j \in cut[f][i] : WholeItem(j)
                           /\ \A j \in AddedTo(home, taken)[f] : WholeItem(j)
    BY <1>b, <2>1 DEF TextInv
  <2> QED BY <1>3, <2>2, ApplyInv
<1>8. ASSUME NEW d \in Dirs, NEW key
      PROVE  key \in Declares(text', d) <=> key \in Declares(text, d)
  <2>1. ASSUME key \in Declares(text', d) PROVE key \in Declares(text, d)
    <3>1. PICK f \in Sources : \E i \in text'[f] :
            DirOf[f] = d /\ i.item = "def" /\ key = <<i.kind, i.name>>
      BY <2>1, DeclaresWhat
    <3>2. PICK i \in text'[f] : DirOf[f] = d /\ i.item = "def" /\ key = <<i.kind, i.name>>
      BY <3>1
    <3>3. CASE i \in text[f]
      BY <3>2, <3>3, DeclaresWhat
    <3>4. CASE f = home /\ i \in taken
      <4>1. PICK g \in strays : i \in text[g]
        BY <1>1, <1>6, <1>d, <3>4
      <4>2. g \in Sources /\ DirOf[g] = d
        BY <1>1, <1>4, <3>2, <3>4
      <4> QED BY <3>2, <4>1, <4>2, DeclaresWhat
    <3> QED BY <1>5, <3>3, <3>4
  <2>2. ASSUME key \in Declares(text, d) PROVE key \in Declares(text', d)
    <3>1. PICK f \in Sources : \E i \in text[f] :
            DirOf[f] = d /\ i.item = "def" /\ key = <<i.kind, i.name>>
      BY <2>2, DeclaresWhat
    <3>2. PICK i \in text[f] : DirOf[f] = d /\ i.item = "def" /\ key = <<i.kind, i.name>>
      BY <3>1
    <3>3. CASE i \in text'[f]
      BY <3>2, <3>3, DeclaresWhat
    <3>4. CASE f \in strays /\ i \in Defs(body, f, kind)
      <4>1. i \in taken /\ DirOf[home] = d
        BY <1>1, <1>4, <1>6, <3>2, <3>4 DEF Defs
      <4>2. i \in text'[home]
        BY <1>4, <1>5, <4>1
      <4> QED BY <1>4, <3>2, <4>1, <4>2, DeclaresWhat
    <3> QED BY <1>5, <3>3, <3>4
  <2> QED BY <2>1, <2>2
<1>9. ASSUME NEW f \in Sources, DirOf[f] = dir, f # home
      PROVE  Defs(text', f, kind) \cap body[f] = {}
  BY <1>1, <1>5, <1>9 DEF Defs
<1>10. \A d \in Dirs : Declares(text', d) = Declares(text, d)
  BY <1>8
<1> QED BY <1>3, <1>7, <1>9, <1>10 DEF home

-----------------------------------------------------------------------------
(* The specification.                                                      *)

(* A step leaves everything, takes one of the edits, or is the user's.     *)
LEMMA StepOffers ==
  ASSUME [EditNext]_editVars
  PROVE  \/ UNCHANGED editVars
         \/ \E f \in Sources, family \in Families, scope \in Scopes :
              \E name, selection : Convert(scope, f, family, name, selection)
         \/ \E kind, name : Rename(kind, name)
         \/ \E dir \in Dirs : DeclareUndefined(dir)
         \/ \E dir \in Dirs : \E kind \in DOMAIN HomeOf[dir] : Gather(dir, kind)
         \/ User
<1>1. CASE UNCHANGED editVars
  BY <1>1
<1>2. CASE Take
  <2>1. CASE OfferConversion
    <3>1. PICK f \in Sources, family \in Families :
            \/ \E scope \in {"File", "Module", "Workspace"} : Convert(scope, f, family, Fresh, {})
            \/ \E i \in Defs(body, f, family.from) : Convert("Instance", f, family, i.name, {})
            \/ \E selection \in SUBSET body[f] : Convert("Selection", f, family, Fresh, selection)
      BY <2>1 DEF OfferConversion
    <3>2. \E scope \in Scopes : \E name, selection : Convert(scope, f, family, name, selection)
      BY <3>1, Zenon DEF Scopes
    <3> QED BY <3>2
  <2>2. CASE OfferRename
    BY <2>2 DEF OfferRename
  <2>3. CASE OfferFiling
    BY <2>3 DEF OfferFiling
  <2> QED BY <1>2, <2>1, <2>2, <2>3 DEF Take
<1>3. CASE User
  BY <1>3
<1> QED BY <1>1, <1>2, <1>3 DEF EditNext

LEMMA WriteInv ==
  ASSUME TextInv, NEW f \in Sources, NEW i \in Items, Write(f, i)
  PROVE  TextInv'
<1>1. WholeItem(i)
  <2>1. \/ i = Def(i.kind, i.name) \/ i = Ref(i.kind, i.name, i.attr)
        \/ i = Moved(i.kind, i.to, i.name)
    BY ItemsAreItems
  <2>2. /\ WholeItem(Def(i.kind, i.name)) /\ WholeItem(Ref(i.kind, i.name, i.attr))
        /\ WholeItem(Moved(i.kind, i.to, i.name))
    BY WrittenForms
  <2> QED BY <2>1, <2>2, Zenon
<1>2. Apply(AsItWas, AddedTo(f, {i}))
  BY DEF Write
<1>3. \A g \in Sources : /\ \A k \in text[g] : \A j \in AsItWas[g][k] : WholeItem(j)
                         /\ \A j \in AddedTo(f, {i})[g] : WholeItem(j)
  BY <1>1 DEF AsItWas, AddedTo, TextInv
<1> QED BY <1>2, <1>3, ApplyInv

LEMMA EraseInv ==
  ASSUME TextInv, NEW f \in Sources, NEW i, Erase(f, i)
  PROVE  TextInv'
<1> DEFINE left == [g \in Sources |-> [j \in text[g] |-> IF g = f THEN {j} \ {i} ELSE {j}]]
           nothing == [g \in Sources |-> {}]
<1>1. Apply(left, nothing)
  BY Zenon DEF Erase
<1>2. \A g \in Sources : /\ \A k \in text[g] : \A j \in left[g][k] : WholeItem(j)
                         /\ \A j \in nothing[g] : WholeItem(j)
  BY DEF TextInv
<1> HIDE DEF left, nothing
<1> QED BY <1>1, <1>2, ApplyInv

LEMMA ReparseInv ==
  ASSUME TextInv, NEW f, NEW made, made \subseteq text[f], NEW place, NEW listed,
         place # "stale" => listed \subseteq text[f], Reparse(f, made, place, listed)
  PROVE  TextInv'
<1>1. /\ text' = text
      /\ body' = [body EXCEPT ![f] = made]
      /\ located' = [located EXCEPT ![f] = place]
      /\ known' = [known EXCEPT ![f] = listed]
  BY DEF Reparse
<1>2. /\ body' = [g \in Sources |-> body'[g]]
      /\ known' = [g \in Sources |-> known'[g]]
      /\ located' = [g \in Sources |-> located'[g]]
  BY <1>1 DEF TextInv, CopyInv
<1>3. ASSUME NEW g \in Sources
      PROVE  /\ body'[g] \subseteq text'[g]
             /\ located'[g] # "stale" => known'[g] \subseteq text'[g]
  <2>1. CASE g = f
    BY <1>1, <2>1 DEF TextInv, CopyInv
  <2>2. CASE g # f
    BY <1>1, <2>2 DEF TextInv, CopyInv
  <2> QED BY <2>1, <2>2
<1> QED BY <1>1, <1>2, <1>3 DEF TextInv, CopyInv

LEMMA BreakInv ==
  ASSUME TextInv, NEW f, Spoil(f) \/ Lose(f) \/ Mend(f)
  PROVE  TextInv'
<1>1. CASE Spoil(f)
  <2>1. PICK lost, missed \in Gaps(f) : Reparse(f, text[f] \ lost, "name", text[f] \ missed)
    BY <1>1 DEF Spoil
  <2>2. text[f] \ lost \subseteq text[f] /\ text[f] \ missed \subseteq text[f]
    OBVIOUS
  <2> QED BY <2>1, <2>2, ReparseInv
<1>2. CASE Lose(f)
  <2>1. PICK listed : Reparse(f, {}, "stale", listed)
    BY <1>2 DEF Lose
  <2>2. {} \subseteq text[f]
    OBVIOUS
  <2> QED BY <2>1, <2>2, ReparseInv
<1>3. CASE Mend(f)
  <2>1. Reparse(f, text[f], "block", text[f])
    BY <1>3 DEF Mend
  <2> QED BY <2>1, ReparseInv
<1> QED BY <1>1, <1>2, <1>3

LEMMA UserInv ==
  ASSUME TextInv, User
  PROVE  TextInv'
<1>1. ASSUME NEW f \in Sources, NEW i \in Items, Write(f, i) PROVE TextInv'
  BY <1>1, WriteInv
<1>2. ASSUME NEW f \in Sources, NEW i \in text[f], Erase(f, i) PROVE TextInv'
  BY <1>2, EraseInv
<1>3. ASSUME NEW f \in Breakable, Spoil(f) \/ Lose(f) \/ Mend(f) PROVE TextInv'
  BY <1>3, BreakInv
<1> QED BY <1>1, <1>2, <1>3 DEF User

LEMMA TextStep ==
  ASSUME TextInv, [EditNext]_editVars
  PROVE  TextInv'
<1>1. CASE UNCHANGED editVars
  BY <1>1 DEF TextInv, CopyInv, WholeItem, editVars
<1>2. ASSUME User PROVE TextInv'
  BY <1>2, UserInv
<1>3. ASSUME NEW dir \in Dirs, DeclareUndefined(dir) PROVE TextInv'
  BY <1>3, DeclareApplies
<1>4. ASSUME NEW dir \in Dirs, NEW kind \in DOMAIN HomeOf[dir], Gather(dir, kind) PROVE TextInv'
  BY <1>4, GatherFiles
<1>5. ASSUME NEW kind, NEW name, Rename(kind, name) PROVE TextInv'
  BY <1>5, RenameInv
<1>6. ASSUME NEW f \in Sources, NEW family, NEW scope, NEW name, NEW selection,
             Convert(scope, f, family, name, selection)
      PROVE  TextInv'
  BY <1>6, ConvertInv
<1> QED BY <1>1, <1>2, <1>3, <1>4, <1>5, <1>6, StepOffers

(* A file holds declarations, references, `moved` blocks and what a rename *)
(* cuts, each with the parts it is made of and no others: no edit leaves a *)
(* mixture of two.  And what the server takes for a file's body, or for its*)
(* declarations and references where it lists the places of the text, is   *)
(* in the text: an edit has what it was computed from under its hands.     *)
THEOREM ItemsStayWhole == EditSpec => []TextInv
<1>1. EditInit => TextInv
  BY DEF EditInit, TextInv, CopyInv
<1>2. TextInv /\ [EditNext]_editVars => TextInv'
  BY TextStep
<1> QED BY <1>1, <1>2, PTL DEF EditSpec

(* The user's steps say so.                                               *)
LEMMA UserSays ==
  ASSUME User
  PROVE  latest' = [op |-> "user"]
  BY DEF User, Write, Erase, Spoil, Lose, Mend, Reparse

(* ReferencesKept, for any files, modules, items and syntax errors:        *)
(* converting the whole of a module every item of which is in a body       *)
(* leaves no reference of it hanging; a rename of a block named by a label *)
(* takes every reference to it along and no other, in each module where    *)
(* what stands under the name is listed, at its place and with its label.  *)
THEOREM ReferencesAreKept == EditSpec => ReferencesKept
<1>1. ASSUME TextInv, [EditNext]_editVars
      PROVE  [/\ \A dir \in Admits : ConversionKeeps(dir)
              /\ \A dir \in Dirs : RenameKeeps(dir)]_editVars
  <2>1. CASE UNCHANGED editVars
    BY <2>1
  <2>2. ASSUME NEW f \in Sources, NEW family, NEW scope, NEW name, NEW selection,
               Convert(scope, f, family, name, selection), NEW dir
        PROVE  (dir \in Admits => ConversionKeeps(dir)) /\ RenameKeeps(dir)
    <3>1. latest'.op = "convert"
      BY <2>2 DEF Convert
    <3>2. dir \in Admits => ConversionKeeps(dir)
      <4>1. CASE dir \in Dirs
        BY <1>1, <2>2, <4>1, ConvertKeeps
      <4>2. CASE dir \notin Dirs
        <5>1. \A f1 \in Sources : DirOf[f1] # dir
          BY <4>2 DEF Dirs
        <5>2. Dangling(text', dir) = {}
          BY <5>1 DEF Dangling, Mentions
        <5> QED BY <5>2 DEF ConversionKeeps
      <4> QED BY <4>1, <4>2
    <3> QED BY <3>1, <3>2 DEF RenameKeeps
  <2>3. ASSUME NEW kind, NEW name, Rename(kind, name), NEW dir
        PROVE  ConversionKeeps(dir) /\ RenameKeeps(dir)
    <3>1. latest'.op = "rename"
      BY <2>3 DEF Rename
    <3>2. RenameKeeps(dir)
      BY <1>1, <2>3, RenameFollows
    <3> QED BY <3>1, <3>2 DEF ConversionKeeps
  <2>4. ASSUME latest'.op \notin {"convert", "rename"}, NEW dir
        PROVE  ConversionKeeps(dir) /\ RenameKeeps(dir)
    BY <2>4 DEF ConversionKeeps, RenameKeeps
  <2>5. ASSUME NEW dir \in Dirs, DeclareUndefined(dir) PROVE latest'.op = "declare"
    BY <2>5 DEF DeclareUndefined
  <2>6. ASSUME NEW dir \in Dirs, NEW kind \in DOMAIN HomeOf[dir], Gather(dir, kind)
        PROVE latest'.op = "gather"
    BY <2>6 DEF Gather
  <2>7. User => latest'.op = "user"
    BY UserSays
  <2> QED BY <1>1, <2>1, <2>2, <2>3, <2>4, <2>5, <2>6, <2>7, StepOffers
<1> QED BY <1>1, ItemsStayWhole, PTL DEF EditSpec, ReferencesKept

(* ConvertRecordsMoves, for any files and families: a name a conversion    *)
(* changes has its `moved` block in the module, before or after.           *)
THEOREM MovesAreRecorded == EditSpec => ConvertRecordsMoves
<1> DEFINE Records ==
         \A dir \in Dirs :
           (/\ latest'.op = "convert"
            /\ latest'.family.moves
            /\ latest'.scope = "Selection" => latest'.family.generic)
           => \A name \in latest'.names[dir] :
                LET here == {f \in Sources : DirOf[f] = dir}
                IN  \/ name \in MovedNames(text', here, latest'.family)
                    \/ name \in MovedNames(text, here, latest'.family)
<1>1. ASSUME TextInv, [EditNext]_editVars PROVE [Records]_editVars
  <2>1. ASSUME NEW f \in Sources, NEW family, NEW scope, NEW name, NEW selection,
               Convert(scope, f, family, name, selection)
        PROVE  Records
    BY <1>1, <2>1, ConvertRecords DEF FilesOf
  <2>2. CASE latest'.op # "convert"
    BY <2>2
  <2>3. ASSUME NEW kind, NEW name, Rename(kind, name) PROVE latest'.op # "convert"
    BY <2>3 DEF Rename
  <2>4. ASSUME NEW dir \in Dirs, DeclareUndefined(dir) PROVE latest'.op # "convert"
    BY <2>4 DEF DeclareUndefined
  <2>5. ASSUME NEW dir \in Dirs, NEW kind \in DOMAIN HomeOf[dir], Gather(dir, kind)
        PROVE  latest'.op # "convert"
    BY <2>5 DEF Gather
  <2>6. User => latest'.op # "convert"
    BY UserSays
  <2> HIDE DEF Records
  <2> QED BY <1>1, <2>1, <2>2, <2>3, <2>4, <2>5, <2>6, StepOffers
<1> QED BY <1>1, ItemsStayWhole, PTL DEF EditSpec, ConvertRecordsMoves

(* FiledInPlace, for any files and modules: where the server lists what the*)
(* text of a module holds, every variable referred to is declared once the *)
(* missing ones are; and no gathered block is lost or made up, and none    *)
(* that is in a body stays outside its file.                               *)
THEOREM BlocksAreFiled == EditSpec => FiledInPlace
<1> DEFINE Files ==
         /\ (/\ latest'.op = "declare"
             /\ \A f \in Sources : DirOf[f] = latest'.dir => known[f] = text[f])
            => /\ ~\E ref \in Dangling(text', latest'.dir) : ref[1] = "variable"
               /\ Declares(text', latest'.dir) \ Declares(text, latest'.dir)
                    \subseteq Mentions(text, latest'.dir)
         /\ latest'.op = "gather" =>
              /\ \A dir \in Dirs : Declares(text', dir) = Declares(text, dir)
              /\ \A f \in Sources :
                   (DirOf[f] = latest'.dir /\ f # HomeOf[latest'.dir][latest'.kind])
                   => Defs(text', f, latest'.kind) \cap body[f] = {}
<1>1. ASSUME TextInv, [EditNext]_editVars PROVE [Files]_editVars
  <2>1. ASSUME NEW f \in Sources, NEW family, NEW scope, NEW name, NEW selection,
               Convert(scope, f, family, name, selection)
        PROVE  latest'.op = "convert"
    BY <2>1 DEF Convert
  <2>2. ASSUME NEW kind, NEW name, Rename(kind, name) PROVE latest'.op = "rename"
    BY <2>2 DEF Rename
  <2>3. User => latest'.op = "user"
    BY UserSays
  <2>4. latest'.op \notin {"declare", "gather"} => Files
    OBVIOUS
  <2>5. ASSUME NEW dir \in Dirs, DeclareUndefined(dir) PROVE Files
    <3>1. latest'.op = "declare" /\ latest'.dir = dir
      BY <1>1, <2>5, DeclareApplies
    <3> QED BY <1>1, <2>5, <3>1, DeclareFiles
  <2>6. ASSUME NEW dir \in Dirs, NEW kind \in DOMAIN HomeOf[dir], Gather(dir, kind)
        PROVE  Files
    <3>1. latest'.op = "gather" /\ latest'.dir = dir /\ latest'.kind = kind
      BY <1>1, <2>6, GatherFiles
    <3> QED BY <1>1, <2>6, <3>1, GatherFiles
  <2> HIDE DEF Files
  <2> QED BY <1>1, <2>1, <2>2, <2>3, <2>4, <2>5, <2>6, StepOffers
<1> QED BY <1>1, ItemsStayWhole, PTL DEF EditSpec, FiledInPlace

-----------------------------------------------------------------------------
(* The recursive functions of VariableTypes are what their definitions say.*)

(* What each of the recursive functions of VariableTypes makes of x, given *)
(* the function f for the parts of x.                                      *)
StepOf(what, x, f) ==
  CASE what[1] = "types" -> TypesWith(IF x = 0 THEN {} ELSE f[x - 1])
    [] what[1] = "values" -> ValuesWith(IF x = 0 THEN {} ELSE f[x - 1])
    [] what[1] = "constants" -> ConstantsWith(IF x = 0 THEN {} ELSE f[x - 1])
    [] what[1] = "terms" -> TermsWith(IF x = 0 THEN {} ELSE f[x - 1])
    [] what[1] = "keyed" -> KeyedBy(x, f, what[2])
    [] what[1] = "type of" -> TypeOfBy(x, f)
    [] what[1] = "merged" -> [b \in Types |-> MergeShapesBy(x, b, f)]
    [] what[1] = "shape" -> ShapeBy(x, f)
    [] what[1] = "satisfying" -> {y \in Types : SatisfiesBy(x, y, f)}
    [] what[1] = "values of" -> ValuesOfBy(x, f)
    [] what[1] = "samples" -> SamplesBy(x, f)
    [] what[1] = "flatten" -> IF x = 1 THEN what[2][x] ELSE f[x - 1] \o what[2][x]
    [] what[1] = "dropping" -> {v \in AllValues : DropsBy(x, v, f)}
    [] OTHER -> {v \in AllValues : AcceptsBy(x, v, f)}

(* Counting up from 0 to D, on a set.                                      *)
LEMMA CountedUp ==
  ASSUME NEW D \in Nat, NEW G, 0 \in G, \A n \in 1..D : n - 1 \in G => n \in G
  PROVE  \A n \in 0..D : n \in G
<1> DEFINE Bad == {n \in 0..D : n \notin G}
<1>1. SUFFICES ASSUME Bad # {} PROVE FALSE
  OBVIOUS
<1>2. \A m \in Bad : m \in Nat
  OBVIOUS
<1> HIDE DEF Bad
<1>3. PICK n \in Bad : \A m \in Bad : n <= m
  BY <1>1, <1>2, LeastOf
<1> USE DEF Bad
<1>4. n \in 1..D /\ n - 1 \in 0..D /\ ~(n <= n - 1)
  OBVIOUS
<1>5. n - 1 \in G
  BY <1>3, <1>4
<1> QED BY <1>4, <1>5

\* The step for x looks only at what f gives for one level lower.
LooksBelow(what, D, L) ==
  /\ \A n \in 1..D : \A x \in L[n - 1] : x \in L[n]
  /\ \A f, g : \A x \in L[0] : StepOf(what, x, f) = StepOf(what, x, g)
  /\ \A n \in 1..D : \A f, g : (\A y \in L[n - 1] : f[y] = g[y])
       => \A x \in L[n] : StepOf(what, x, f) = StepOf(what, x, g)

(* A recursion over levels defines a function: if the step for what is     *)
(* on level n looks only at level n - 1, there is a function that is its   *)
(* own step on every level.                                                *)
LEMMA Recursion ==
  ASSUME NEW what, NEW D \in Nat, NEW L, LooksBelow(what, D, L)
  PROVE  \E f : f = [x \in L[D] |-> StepOf(what, x, f)]
<1> DEFINE Has(n) == \E f : f = [x \in L[n] |-> StepOf(what, x, f)]
<1> USE DEF LooksBelow
<1>1. Has(0)
  <2> DEFINE f == [x \in L[0] |-> StepOf(what, x, 0)]
  <2>1. f = [x \in L[0] |-> StepOf(what, x, f)]
    <3>1. \A x \in L[0] : StepOf(what, x, 0) = StepOf(what, x, f)
      OBVIOUS
    <3> QED BY <3>1
  <2> QED BY <2>1
<1>2. ASSUME NEW n \in 1..D, Has(n - 1) PROVE Has(n)
  <2>1. PICK g : g = [x \in L[n - 1] |-> StepOf(what, x, g)]
    BY <1>2
  <2> DEFINE f == [x \in L[n] |-> StepOf(what, x, g)]
  <2>2. \A y \in L[n - 1] : f[y] = g[y]
    BY <2>1
  <2>3. \A x \in L[n] : StepOf(what, x, f) = StepOf(what, x, g)
    BY <2>2
  <2>4. f = [x \in L[n] |-> StepOf(what, x, f)]
    BY <2>3
  <2> QED BY <2>4
<1> DEFINE G == {n \in 0..D : Has(n)}
<1>3. 0 \in G /\ \A n \in 1..D : n - 1 \in G => n \in G
  <2> HIDE DEF Has
  <2> QED BY <1>1, <1>2
<1> HIDE DEF G
<1>4. D \in G
  BY <1>3, CountedUp
<1> QED BY <1>4 DEF G

(* The same, where level n is the number n: the levels themselves.         *)
LEMMA Counting ==
  ASSUME NEW what, NEW D \in Nat,
         \A f, g : StepOf(what, 0, f) = StepOf(what, 0, g),
         \A n \in 1..D : \A f, g : f[n - 1] = g[n - 1] => StepOf(what, n, f) = StepOf(what, n, g)
  PROVE  \E f : f = [x \in 0..D |-> StepOf(what, x, f)]
<1> DEFINE L == [n \in 0..D |-> 0..n]
<1>1. \A n \in 0..D : L[n] = 0..n
  OBVIOUS
<1> HIDE DEF L
<1>2. \A n \in 1..D : \A x \in L[n - 1] : x \in L[n]
  BY <1>1
<1>3. \A f, g : \A x \in L[0] : StepOf(what, x, f) = StepOf(what, x, g)
  BY <1>1
<1>4. ASSUME NEW n \in 1..D, NEW f, NEW g, \A y \in L[n - 1] : f[y] = g[y], NEW x \in L[n]
      PROVE  StepOf(what, x, f) = StepOf(what, x, g)
  <2>1. x \in 0..n
    BY <1>1
  <2>2. CASE x = 0
    BY <2>2
  <2>3. CASE x # 0
    <3>1. x \in 1..D /\ x - 1 \in L[n - 1]
      BY <1>1, <2>1, <2>3
    <3> QED BY <1>4, <3>1
  <2> QED BY <2>2, <2>3
<1>5. LooksBelow(what, D, L)
  BY <1>2, <1>3, <1>4 DEF LooksBelow
<1>6. \E f : f = [x \in L[D] |-> StepOf(what, x, f)]
  BY <1>5, Recursion
<1> QED BY <1>1, <1>6

(* The levels of the four grammars are what their defining equations say.  *)
LEMMA TypesToIs ==
  ASSUME NEW n \in 0..Depth
  PROVE  TypesTo[n] = TypesWith(IF n = 0 THEN {} ELSE TypesTo[n - 1])
<1> DEFINE f == CHOOSE g : g = [x \in 0..Depth |-> StepOf(<<"types">>, x, g)]
<1>1. \A x, g : StepOf(<<"types">>, x, g) = TypesWith(IF x = 0 THEN {} ELSE g[x - 1])
  BY DEF StepOf
<1>2. TypesTo = f
  BY DEF TypesTo, StepOf
<1>3. \A g, h : StepOf(<<"types">>, 0, g) = StepOf(<<"types">>, 0, h)
  BY <1>1
<1>4. \A m \in 1..Depth : \A g, h : g[m - 1] = h[m - 1] =>
        StepOf(<<"types">>, m, g) = StepOf(<<"types">>, m, h)
  BY <1>1, DepthAssumption
<1>5. \E g : g = [x \in 0..Depth |-> StepOf(<<"types">>, x, g)]
  BY <1>3, <1>4, Counting, DepthAssumption
<1>6. f = [x \in 0..Depth |-> StepOf(<<"types">>, x, f)]
  BY <1>5
<1> HIDE DEF f
<1> QED BY <1>1, <1>2, <1>6

LEMMA ValuesToIs ==
  ASSUME NEW n \in 0..Depth + 1
  PROVE  ValuesTo[n] = ValuesWith(IF n = 0 THEN {} ELSE ValuesTo[n - 1])
<1> DEFINE f == CHOOSE g : g = [x \in 0..Depth + 1 |-> StepOf(<<"values">>, x, g)]
<1>1. \A x, g : StepOf(<<"values">>, x, g) = ValuesWith(IF x = 0 THEN {} ELSE g[x - 1])
  BY DEF StepOf
<1>2. ValuesTo = f
  BY DEF ValuesTo, StepOf
<1>3. \A g, h : StepOf(<<"values">>, 0, g) = StepOf(<<"values">>, 0, h)
  BY <1>1
<1>4. \A m \in 1..Depth + 1 : \A g, h : g[m - 1] = h[m - 1] =>
        StepOf(<<"values">>, m, g) = StepOf(<<"values">>, m, h)
  BY <1>1, DepthAssumption
<1>5. \E g : g = [x \in 0..Depth + 1 |-> StepOf(<<"values">>, x, g)]
  <2> DEFINE D == Depth + 1
  <2>1. D \in Nat
    BY DepthAssumption
  <2>2. \A m \in 1..D : \A g, h : g[m - 1] = h[m - 1] =>
          StepOf(<<"values">>, m, g) = StepOf(<<"values">>, m, h)
    BY <1>4
  <2> HIDE DEF D
  <2>3. \E g : g = [x \in 0..D |-> StepOf(<<"values">>, x, g)]
    BY <1>3, <2>1, <2>2, Counting
  <2> QED BY <2>3 DEF D
<1>6. f = [x \in 0..Depth + 1 |-> StepOf(<<"values">>, x, f)]
  BY <1>5
<1> HIDE DEF f
<1> QED BY <1>1, <1>2, <1>6

LEMMA ConstantsToIs ==
  ASSUME NEW n \in 0..Depth
  PROVE  ConstantsTo[n] = ConstantsWith(IF n = 0 THEN {} ELSE ConstantsTo[n - 1])
<1> DEFINE f == CHOOSE g : g = [x \in 0..Depth |-> StepOf(<<"constants">>, x, g)]
<1>1. \A x, g : StepOf(<<"constants">>, x, g) = ConstantsWith(IF x = 0 THEN {} ELSE g[x - 1])
  BY DEF StepOf
<1>2. ConstantsTo = f
  BY DEF ConstantsTo, StepOf
<1>3. \A g, h : StepOf(<<"constants">>, 0, g) = StepOf(<<"constants">>, 0, h)
  BY <1>1
<1>4. \A m \in 1..Depth : \A g, h : g[m - 1] = h[m - 1] =>
        StepOf(<<"constants">>, m, g) = StepOf(<<"constants">>, m, h)
  BY <1>1, DepthAssumption
<1>5. \E g : g = [x \in 0..Depth |-> StepOf(<<"constants">>, x, g)]
  BY <1>3, <1>4, Counting, DepthAssumption
<1>6. f = [x \in 0..Depth |-> StepOf(<<"constants">>, x, f)]
  BY <1>5
<1> HIDE DEF f
<1> QED BY <1>1, <1>2, <1>6

LEMMA TermsToIs ==
  ASSUME NEW n \in 0..Depth
  PROVE  TermsTo[n] = TermsWith(IF n = 0 THEN {} ELSE TermsTo[n - 1])
<1> DEFINE f == CHOOSE g : g = [x \in 0..Depth |-> StepOf(<<"terms">>, x, g)]
<1>1. \A x, g : StepOf(<<"terms">>, x, g) = TermsWith(IF x = 0 THEN {} ELSE g[x - 1])
  BY DEF StepOf
<1>2. TermsTo = f
  BY DEF TermsTo, StepOf
<1>3. \A g, h : StepOf(<<"terms">>, 0, g) = StepOf(<<"terms">>, 0, h)
  BY <1>1
<1>4. \A m \in 1..Depth : \A g, h : g[m - 1] = h[m - 1] =>
        StepOf(<<"terms">>, m, g) = StepOf(<<"terms">>, m, h)
  BY <1>1, DepthAssumption
<1>5. \E g : g = [x \in 0..Depth |-> StepOf(<<"terms">>, x, g)]
  BY <1>3, <1>4, Counting, DepthAssumption
<1>6. f = [x \in 0..Depth |-> StepOf(<<"terms">>, x, f)]
  BY <1>5
<1> HIDE DEF f
<1> QED BY <1>1, <1>2, <1>6

(* Keyed(S) is the set of all functions from some of the keys to S.        *)
LEMMA KeyedIs ==
  ASSUME NEW S
  PROVE  Keyed(S) = UNION {[K -> S] : K \in SUBSET KeyNames}
<1> DEFINE what == <<"keyed", S>>
           n == Len(KeyOrder)
           f == CHOOSE g : g = [x \in 0..n |-> StepOf(what, x, g)]
           Open(i) == {KeyOrder[j] : j \in 1..i}
<1>1. n \in Nat /\ KeyNames = Open(n)
  BY KeysAssumption DEF KeyNames
<1>2. \A x, g : StepOf(what, x, g) = KeyedBy(x, g, S)
  BY DEF StepOf
<1>3. Keyed(S) = f[n][{}]
  BY DEF Keyed, StepOf
<1> HIDE DEF what
<1> HIDE DEF n
<1>4. \A g, h : StepOf(what, 0, g) = StepOf(what, 0, h)
  <2>1. \A g : KeyedBy(0, g, S) = [K \in SUBSET KeyNames |-> [K -> S]]
    BY DEF KeyedBy
  <2> QED BY <1>2, <2>1
<1>5. ASSUME NEW m \in 1..n, NEW g, NEW h, g[m - 1] = h[m - 1]
      PROVE  StepOf(what, m, g) = StepOf(what, m, h)
  <2>1. m # 0
    BY <1>1
  <2>2. KeyedBy(m, g, S) = KeyedBy(m, h, S)
    BY <1>5, <2>1 DEF KeyedBy
  <2> QED BY <1>2, <2>2
<1>6. \E g : g = [x \in 0..n |-> StepOf(what, x, g)]
  BY <1>1, <1>4, <1>5, Counting
<1>7. f = [x \in 0..n |-> StepOf(what, x, f)]
  BY <1>6
<1> HIDE DEF f
<1> DEFINE Rest(i, K) == UNION {[M -> S] : M \in {M \in SUBSET KeyNames : K \subseteq M /\ M \subseteq K \cup Open(i)}}
           G == {i \in 0..n : \A K \in SUBSET KeyNames : f[i][K] = Rest(i, K)}
<1>8. 0 \in G
  <2>1. ASSUME NEW K \in SUBSET KeyNames PROVE f[0][K] = Rest(0, K)
    <3>1. f[0] = KeyedBy(0, f, S)
      BY <1>1, <1>2, <1>7
    <3>2. f[0][K] = [K -> S]
      BY <3>1 DEF KeyedBy
    <3>3. Open(0) = {}
      OBVIOUS
    <3>4. {M \in SUBSET KeyNames : K \subseteq M /\ M \subseteq K \cup Open(0)} = {K}
      BY <3>3
    <3> QED BY <3>2, <3>4
  <2> QED BY <2>1, <1>1
<1>9. ASSUME NEW i \in 1..n, i - 1 \in G PROVE i \in G
  <2>1. ASSUME NEW K \in SUBSET KeyNames PROVE f[i][K] = Rest(i, K)
    <3> DEFINE k == KeyOrder[i]
    <3>1. k \in KeyNames /\ K \cup {k} \in SUBSET KeyNames
      BY <1>1
    <3>2. f[i] = KeyedBy(i, f, S) /\ i # 0 /\ i - 1 \in 0..n
      BY <1>1, <1>2, <1>7
    <3>3. f[i][K] = f[i - 1][K] \cup f[i - 1][K \cup {k}]
      BY <3>2 DEF KeyedBy
    <3>4. f[i - 1][K] = Rest(i - 1, K) /\ f[i - 1][K \cup {k}] = Rest(i - 1, K \cup {k})
      BY <1>9, <3>1
    <3>5. Open(i) = Open(i - 1) \cup {k}
      <4>1. 1..i = 1..(i - 1) \cup {i}
        BY <1>1
      <4> QED BY <4>1
    <3> HIDE DEF Open, k
    <3>6. Rest(i, K) = Rest(i - 1, K) \cup Rest(i - 1, K \cup {k})
      <4>1. \A M \in SUBSET KeyNames :
              (K \subseteq M /\ M \subseteq K \cup Open(i)) <=>
                \/ K \subseteq M /\ M \subseteq K \cup Open(i - 1)
                \/ K \cup {k} \subseteq M /\ M \subseteq (K \cup {k}) \cup Open(i - 1)
        BY <3>5
      <4> QED BY <4>1
    <3> QED BY <3>3, <3>4, <3>6
  <2> QED BY <2>1
<1>10. n \in G
  <2> HIDE DEF G
  <2> QED BY <1>1, <1>8, <1>9, CountedUp
<1>11. f[n][{}] = Rest(n, {})
  BY <1>10
<1>12. {M \in SUBSET KeyNames : {} \subseteq M /\ M \subseteq {} \cup Open(n)} = SUBSET KeyNames
  BY <1>1
<1> QED BY <1>3, <1>11, <1>12

LEMMA KeyedHas ==
  ASSUME NEW S, NEW f
  PROVE  f \in Keyed(S) <=> \E K \in SUBSET KeyNames : f \in [K -> S]
BY KeyedIs

\* A type whose parts are of A.
TypeOver(T, A) ==
  \/ T = AnyType
  \/ \E k \in Primitives : T = <<"prim", k>>
  \/ \E w \in Wraps \cup {"optional"} : \E U \in A : T = <<w, U>>
  \/ \E s \in Seq(A) : T = <<"tuple", s>>
  \/ \E K \in SUBSET KeyNames : \E f \in [K -> A] : T = <<"object", f>>

(* TypesWith, read as the forms a type may have.                           *)
LEMMA TypesWithHas ==
  ASSUME NEW A, NEW T
  PROVE  T \in TypesWith(A) <=> TypeOver(T, A)
<1>1. T \in ({"object"} \X Keyed(A)) <=>
        \E K \in SUBSET KeyNames : \E f \in [K -> A] : T = <<"object", f>>
  <2>1. ASSUME T \in ({"object"} \X Keyed(A))
        PROVE \E K \in SUBSET KeyNames : \E f \in [K -> A] : T = <<"object", f>>
    <3>1. PICK f \in Keyed(A) : T = <<"object", f>>
      BY <2>1
    <3> QED BY <3>1, KeyedHas
  <2>2. ASSUME NEW K \in SUBSET KeyNames, NEW f \in [K -> A], T = <<"object", f>>
        PROVE  T \in ({"object"} \X Keyed(A))
    <3>1. f \in Keyed(A)
      BY KeyedHas
    <3> QED BY <2>2, <3>1
  <2> QED BY <2>1, <2>2
<1>2. T \in ({"tuple"} \X Seq(A)) <=> \E s \in Seq(A) : T = <<"tuple", s>>
  OBVIOUS
<1>3. T \in ({"prim"} \X Primitives) <=> \E k \in Primitives : T = <<"prim", k>>
  OBVIOUS
<1>4. T \in ((Wraps \cup {"optional"}) \X A) <=>
        \E w \in Wraps \cup {"optional"} : \E U \in A : T = <<w, U>>
  OBVIOUS
<1> QED BY <1>1, <1>2, <1>3, <1>4 DEF TypesWith, TypeOver

LEMMA TypesWithGrow ==
  ASSUME NEW A, NEW B, \A x \in A : x \in B, NEW T \in TypesWith(A)
  PROVE  T \in TypesWith(B)
<1>1. A \subseteq B
  OBVIOUS
<1>2. TypeOver(T, A)
  BY TypesWithHas
<1>3. CASE \E s \in Seq(A) : T = <<"tuple", s>>
  <2>1. PICK s \in Seq(A) : T = <<"tuple", s>>
    BY <1>3
  <2>2. s \in Seq(B)
    BY <1>1
  <2>3. TypeOver(T, B)
    BY <2>1, <2>2 DEF TypeOver
  <2> QED BY <2>3, TypesWithHas
<1>4. CASE \E K \in SUBSET KeyNames : \E f \in [K -> A] : T = <<"object", f>>
  <2>0. PICK K \in SUBSET KeyNames : \E f \in [K -> A] : T = <<"object", f>>
    BY <1>4
  <2>1. PICK f \in [K -> A] : T = <<"object", f>>
    BY <2>0
  <2>2. f \in [K -> B]
    BY <1>1
  <2>3. TypeOver(T, B)
    BY <2>1, <2>2 DEF TypeOver
  <2> QED BY <2>3, TypesWithHas
<1>5. CASE ~(\E s \in Seq(A) : T = <<"tuple", s>>) /\
           ~(\E K \in SUBSET KeyNames : \E f \in [K -> A] : T = <<"object", f>>)
  <2>1. TypeOver(T, B)
    BY <1>1, <1>2, <1>5 DEF TypeOver
  <2> QED BY <2>1, TypesWithHas
<1> QED BY <1>3, <1>4, <1>5

(* A level of types holds the one below it.                                *)
LEMMA TypesAt ==
  ASSUME NEW n \in 1..Depth
  PROVE  TypesTo[n] = TypesWith(TypesTo[n - 1]) /\ TypesTo[n - 1] \subseteq TypesTo[n]
<1> DEFINE G == {m \in 0..Depth : m = 0 \/ TypesTo[m - 1] \subseteq TypesTo[m]}
<1>1. ASSUME NEW m \in 1..Depth PROVE m \in 0..Depth /\ m - 1 \in 0..Depth /\ TypesTo[m] = TypesWith(TypesTo[m - 1])
  BY TypesToIs, DepthAssumption
<1>2. 0 \in G
  BY DepthAssumption
<1>3. ASSUME NEW m \in 1..Depth, m - 1 \in G PROVE m \in G
  <2>1. TypesTo[m] = TypesWith(TypesTo[m - 1])
    BY <1>1
  <2>2. CASE m = 1
    <3>1. TypesTo[0] = TypesWith({})
      BY TypesToIs, DepthAssumption
    <3>2. \A x \in TypesTo[0] : x \in TypesTo[1]
      BY <2>1, <2>2, <3>1, TypesWithGrow
    <3> QED BY <1>1, <2>2, <3>2
  <2>3. CASE m # 1
    <3>1. m - 1 \in 1..Depth /\ TypesTo[(m - 1) - 1] \subseteq TypesTo[m - 1]
      BY <1>3, <2>3, DepthAssumption
    <3>2. TypesTo[m - 1] = TypesWith(TypesTo[(m - 1) - 1])
      BY <1>1, <3>1
    <3>3. \A x \in TypesTo[m - 1] : x \in TypesTo[m]
      BY <2>1, <3>1, <3>2, TypesWithGrow
    <3> QED BY <1>1, <3>3
  <2> QED BY <2>2, <2>3
<1>4. n \in G
  <2> HIDE DEF G
  <2>1. n \in 0..Depth
    BY DepthAssumption
  <2> QED BY <1>2, <1>3, <2>1, CountedUp, DepthAssumption
<1>5. n # 0
  BY DepthAssumption
<1> QED BY <1>1, <1>4, <1>5

(* A step that looks only at the parts of a type defines a function on     *)
(* all types: what TypeOf, MergeShapes, Satisfying, Accepted and Dropping  *)
(* rest on.                                                                *)
LEMMA TypesRecursion ==
  ASSUME NEW what,
         \A A, f, g : (\A y \in A : f[y] = g[y]) =>
           \A T \in TypesWith(A) : StepOf(what, T, f) = StepOf(what, T, g)
  PROVE  \E f : f = [T \in Types |-> StepOf(what, T, f)]
<1>1. TypesTo[0] = TypesWith({})
  BY TypesToIs, DepthAssumption
<1>2. \A f, g : \A T \in TypesTo[0] : StepOf(what, T, f) = StepOf(what, T, g)
  BY <1>1
<1>3. ASSUME NEW n \in 1..Depth
      PROVE  /\ \A T \in TypesTo[n - 1] : T \in TypesTo[n]
             /\ \A f, g : (\A y \in TypesTo[n - 1] : f[y] = g[y]) =>
                  \A T \in TypesTo[n] : StepOf(what, T, f) = StepOf(what, T, g)
  BY TypesAt
<1>4. LooksBelow(what, Depth, TypesTo)
  BY <1>2, <1>3 DEF LooksBelow
<1> QED BY <1>4, Recursion, DepthAssumption DEF Types

(* Each of the four is its own step.                                       *)
LEMMA TypeOfIs ==
  ASSUME NEW T \in Types
  PROVE  TypeOf[T] = TypeOfBy(T, TypeOf)
<1> DEFINE what == <<"type of">>
           f == CHOOSE g : g = [U \in Types |-> StepOf(what, U, g)]
<1>1. \A U, g : StepOf(what, U, g) = TypeOfBy(U, g)
  BY DEF StepOf
<1>2. TypeOf = f
  BY DEF TypeOf, StepOf
<1> HIDE DEF what
<1>3. ASSUME NEW A, NEW g, NEW h, \A y \in A : g[y] = h[y], NEW U \in TypesWith(A)
      PROVE  TypeOfBy(U, g) = TypeOfBy(U, h)
  <2>1. TypeOver(U, A)
    BY TypesWithHas
  <2> QED BY <1>3, <2>1 DEF TypeOver, TypeOfBy, AnyType, Wraps
<1>4. \E g : g = [U \in Types |-> StepOf(what, U, g)]
  BY <1>1, <1>3, TypesRecursion
<1>5. f = [U \in Types |-> StepOf(what, U, f)]
  BY <1>4
<1> HIDE DEF f
<1> QED BY <1>1, <1>2, <1>5

LEMMA MergeShapesIs ==
  ASSUME NEW T \in Types
  PROVE  MergeShapes[T] = [b \in Types |-> MergeShapesBy(T, b, MergeShapes)]
<1> DEFINE what == <<"merged">>
           f == CHOOSE g : g = [U \in Types |-> StepOf(what, U, g)]
<1>1. \A U, g : StepOf(what, U, g) = [b \in Types |-> MergeShapesBy(U, b, g)]
  BY DEF StepOf
<1>2. MergeShapes = f
  BY DEF MergeShapes, StepOf
<1> HIDE DEF what
<1>3. ASSUME NEW A, NEW g, NEW h, \A y \in A : g[y] = h[y], NEW U \in TypesWith(A)
      PROVE  StepOf(what, U, g) = StepOf(what, U, h)
  <2>1. TypeOver(U, A)
    BY TypesWithHas
  <2>2. ASSUME NEW b \in Types PROVE MergeShapesBy(U, b, g) = MergeShapesBy(U, b, h)
    <3>1. CASE U[1] = "object" /\ U # AnyType /\ b[1] = "object"
      <4>1. \A k \in DOMAIN U[2] : U[2][k] \in A
        BY <2>1, <3>1 DEF TypeOver, AnyType, Wraps
      <4> QED BY <1>3, <3>1, <4>1 DEF MergeShapesBy
    <3>2. CASE ~(U[1] = "object" /\ U # AnyType /\ b[1] = "object")
      BY <3>2 DEF MergeShapesBy
    <3> QED BY <3>1, <3>2
  <2> QED BY <1>1, <2>2
<1>4. \E g : g = [U \in Types |-> StepOf(what, U, g)]
  BY <1>3, TypesRecursion
<1>5. f = [U \in Types |-> StepOf(what, U, f)]
  BY <1>4
<1> HIDE DEF f
<1> QED BY <1>1, <1>2, <1>5

LEMMA SatisfyingIs ==
  ASSUME NEW T \in Types
  PROVE  Satisfying[T] = {x \in Types : SatisfiesBy(T, x, Satisfying)}
<1> DEFINE what == <<"satisfying">>
           f == CHOOSE g : g = [U \in Types |-> StepOf(what, U, g)]
<1>1. \A U, g : StepOf(what, U, g) = {x \in Types : SatisfiesBy(U, x, g)}
  BY DEF StepOf
<1>2. Satisfying = f
  BY DEF Satisfying, StepOf
<1> HIDE DEF what
<1>3. ASSUME NEW A, NEW g, NEW h, \A y \in A : g[y] = h[y], NEW U \in TypesWith(A)
      PROVE  StepOf(what, U, g) = StepOf(what, U, h)
  <2>1. TypeOver(U, A)
    BY TypesWithHas
  <2>2. SUFFICES ASSUME NEW x \in Types PROVE SatisfiesBy(U, x, g) <=> SatisfiesBy(U, x, h)
    BY <1>1
  <2>3. CASE U[1] \in Wraps \cup {"optional"}
    <3>1. g[U[2]] = h[U[2]]
      BY <1>3, <2>1, <2>3 DEF TypeOver, AnyType, Wraps
    <3>2. U[1] \notin {"tuple", "object"}
      BY <2>3 DEF Wraps
    <3> QED BY <2>3, <3>1, <3>2 DEF SatisfiesBy, AnyType, Wraps
  <2>4. CASE U[1] \in {"tuple", "object"}
    <3>1. \A k \in DOMAIN U[2] : g[U[2][k]] = h[U[2][k]]
      BY <1>3, <2>1, <2>4 DEF TypeOver, AnyType, Wraps
    <3>2. U[1] \notin Wraps /\ U[1] # "optional"
      BY <2>4 DEF Wraps
    <3> QED BY <2>4, <3>1, <3>2 DEF SatisfiesBy, AnyType, Wraps
  <2>5. CASE U[1] \in {"any", "prim"}
    BY <2>5 DEF SatisfiesBy, AnyType, Wraps
  <2>6. U[1] \in (Wraps \cup {"optional"}) \cup {"tuple", "object"} \cup {"any", "prim"}
    BY <2>1 DEF TypeOver, AnyType
  <2> QED BY <2>3, <2>4, <2>5, <2>6
<1>4. \E g : g = [U \in Types |-> StepOf(what, U, g)]
  BY <1>3, TypesRecursion
<1>5. f = [U \in Types |-> StepOf(what, U, f)]
  BY <1>4
<1> HIDE DEF f
<1> QED BY <1>1, <1>2, <1>5

LEMMA AcceptedIs ==
  ASSUME NEW T \in Types
  PROVE  Accepted[T] = {x \in AllValues : AcceptsBy(T, x, Accepted)}
<1> DEFINE what == <<"accepted">>
           f == CHOOSE g : g = [U \in Types |-> StepOf(what, U, g)]
<1>1. \A U, g : StepOf(what, U, g) = {x \in AllValues : AcceptsBy(U, x, g)}
  BY DEF StepOf
<1>2. Accepted = f
  BY DEF Accepted, StepOf
<1> HIDE DEF what
<1>3. ASSUME NEW A, NEW g, NEW h, \A y \in A : g[y] = h[y], NEW U \in TypesWith(A)
      PROVE  StepOf(what, U, g) = StepOf(what, U, h)
  <2>1. TypeOver(U, A)
    BY TypesWithHas
  <2>2. SUFFICES ASSUME NEW x \in AllValues PROVE AcceptsBy(U, x, g) <=> AcceptsBy(U, x, h)
    BY <1>1
  <2>3. CASE U[1] \in Wraps \cup {"optional"}
    <3>1. g[U[2]] = h[U[2]]
      BY <1>3, <2>1, <2>3 DEF TypeOver, AnyType, Wraps
    <3>2. U[1] \notin {"tuple", "object"}
      BY <2>3 DEF Wraps
    <3> QED BY <2>3, <3>1, <3>2 DEF AcceptsBy, AnyType, Wraps
  <2>4. CASE U[1] \in {"tuple", "object"}
    <3>1. \A k \in DOMAIN U[2] : g[U[2][k]] = h[U[2][k]]
      BY <1>3, <2>1, <2>4 DEF TypeOver, AnyType, Wraps
    <3>2. U[1] \notin Wraps /\ U[1] # "optional"
      BY <2>4 DEF Wraps
    <3> QED BY <2>4, <3>1, <3>2 DEF AcceptsBy, AnyType, Wraps
  <2>5. CASE U[1] \in {"any", "prim"}
    BY <2>5 DEF AcceptsBy, AnyType, Wraps
  <2>6. U[1] \in (Wraps \cup {"optional"}) \cup {"tuple", "object"} \cup {"any", "prim"}
    BY <2>1 DEF TypeOver, AnyType
  <2> QED BY <2>3, <2>4, <2>5, <2>6
<1>4. \E g : g = [U \in Types |-> StepOf(what, U, g)]
  BY <1>3, TypesRecursion
<1>5. f = [U \in Types |-> StepOf(what, U, f)]
  BY <1>4
<1> HIDE DEF f
<1> QED BY <1>1, <1>2, <1>5

LEMMA DroppingIs ==
  ASSUME NEW T \in Types
  PROVE  Dropping[T] = {x \in AllValues : DropsBy(T, x, Dropping)}
<1> DEFINE what == <<"dropping">>
           f == CHOOSE g : g = [U \in Types |-> StepOf(what, U, g)]
<1>1. \A U, g : StepOf(what, U, g) = {x \in AllValues : DropsBy(U, x, g)}
  BY DEF StepOf
<1>2. Dropping = f
  BY DEF Dropping, StepOf
<1> HIDE DEF what
<1>3. ASSUME NEW A, NEW g, NEW h, \A y \in A : g[y] = h[y], NEW U \in TypesWith(A)
      PROVE  StepOf(what, U, g) = StepOf(what, U, h)
  <2>1. TypeOver(U, A)
    BY TypesWithHas
  <2>2. SUFFICES ASSUME NEW x \in AllValues PROVE DropsBy(U, x, g) <=> DropsBy(U, x, h)
    BY <1>1
  <2>3. CASE U[1] \in Wraps \cup {"optional"}
    <3>1. g[U[2]] = h[U[2]]
      BY <1>3, <2>1, <2>3 DEF TypeOver, AnyType, Wraps
    <3>2. U[1] \notin {"tuple", "object"}
      BY <2>3 DEF Wraps
    <3> QED BY <2>3, <3>1, <3>2 DEF DropsBy, AnyType, Wraps
  <2>4. CASE U[1] \in {"tuple", "object"}
    <3>1. \A k \in DOMAIN U[2] : g[U[2][k]] = h[U[2][k]]
      BY <1>3, <2>1, <2>4 DEF TypeOver, AnyType, Wraps
    <3>2. U[1] \notin Wraps /\ U[1] # "optional"
      BY <2>4 DEF Wraps
    <3> QED BY <2>4, <3>1, <3>2 DEF DropsBy, AnyType, Wraps
  <2>5. CASE U[1] \in {"any", "prim"}
    BY <2>5 DEF DropsBy, AnyType, Wraps
  <2>6. U[1] \in (Wraps \cup {"optional"}) \cup {"tuple", "object"} \cup {"any", "prim"}
    BY <2>1 DEF TypeOver, AnyType
  <2> QED BY <2>3, <2>4, <2>5, <2>6
<1>4. \E g : g = [U \in Types |-> StepOf(what, U, g)]
  BY <1>3, TypesRecursion
<1>5. f = [U \in Types |-> StepOf(what, U, f)]
  BY <1>4
<1> HIDE DEF f
<1> QED BY <1>1, <1>2, <1>5

(* The grammars of expressions grow with what their parts may be.          *)
LEMMA PartsGrow ==
  ASSUME NEW A, NEW B, A \subseteq B
  PROVE  Seq(A) \subseteq Seq(B) /\ Keyed(A) \subseteq Keyed(B)
<1>1. ASSUME NEW f \in Keyed(A) PROVE f \in Keyed(B)
  <2>1. PICK K \in SUBSET KeyNames : f \in [K -> A]
    BY KeyedHas
  <2>2. f \in [K -> B]
    BY <2>1
  <2> QED BY <2>2, KeyedHas
<1> QED BY <1>1

LEMMA ConstantsWithGrow ==
  ASSUME NEW A, NEW B, A \subseteq B
  PROVE  ConstantsWith(A) \subseteq ConstantsWith(B)
<1> DEFINE SA == Seq(A)
           SB == Seq(B)
           KA == Keyed(A)
           KB == Keyed(B)
<1>1. SA \subseteq SB /\ KA \subseteq KB
  BY PartsGrow
<1> HIDE DEF SA, SB, KA, KB
<1>2. ({"array"} \X SA) \subseteq ({"array"} \X SB) /\ ({"object"} \X KA) \subseteq ({"object"} \X KB)
  BY <1>1
<1>3. ({"cond"} \X A \X A) \subseteq ({"cond"} \X B \X B)
  OBVIOUS
<1> QED BY <1>2, <1>3 DEF ConstantsWith, SA, SB, KA, KB

LEMMA TermsWithGrow ==
  ASSUME NEW A, NEW B, A \subseteq B
  PROVE  TermsWith(A) \subseteq TermsWith(B)
<1> DEFINE SA == Seq(A)
           SB == Seq(B)
<1>1. SA \subseteq SB
  BY PartsGrow
<1> HIDE DEF SA, SB
<1>2. ({"concat", "merge", "first"} \X SA) \subseteq ({"concat", "merge", "first"} \X SB)
  BY <1>1
<1>3. ({"for"} \X BOOLEAN \X A \X A) \subseteq ({"for"} \X BOOLEAN \X B \X B)
  OBVIOUS
<1>4. ({"lookup"} \X A \X KeyNames \X A) \subseteq ({"lookup"} \X B \X KeyNames \X B)
  OBVIOUS
<1>5. ({"field"} \X A \X KeyNames) \subseteq ({"field"} \X B \X KeyNames)
  OBVIOUS
<1>6. ({"element", "values", "chain", "each", "index"} \X A) \subseteq
        ({"element", "values", "chain", "each", "index"} \X B)
  OBVIOUS
<1>7. ConstantsWith(A) \subseteq ConstantsWith(B)
  BY ConstantsWithGrow
<1> QED BY <1>2, <1>3, <1>4, <1>5, <1>6, <1>7 DEF TermsWith, SA, SB

(* A level of expressions holds the one below it.                          *)
LEMMA TermsAt ==
  ASSUME NEW n \in 1..Depth
  PROVE  TermsTo[n] = TermsWith(TermsTo[n - 1]) /\ TermsTo[n - 1] \subseteq TermsTo[n]
<1> DEFINE G == {m \in 0..Depth : m = 0 \/ TermsTo[m - 1] \subseteq TermsTo[m]}
<1>1. ASSUME NEW m \in 1..Depth PROVE m \in 0..Depth /\ m - 1 \in 0..Depth /\ TermsTo[m] = TermsWith(TermsTo[m - 1])
  BY TermsToIs, DepthAssumption
<1>2. 0 \in G
  BY DepthAssumption
<1>3. ASSUME NEW m \in 1..Depth, m - 1 \in G PROVE m \in G
  <2>1. TermsTo[m] = TermsWith(TermsTo[m - 1])
    BY <1>1
  <2>2. CASE m = 1
    <3>1. TermsTo[0] = TermsWith({})
      BY TermsToIs, DepthAssumption
    <3> QED BY <1>1, <2>1, <2>2, <3>1, TermsWithGrow
  <2>3. CASE m # 1
    <3>1. m - 1 \in 1..Depth /\ TermsTo[(m - 1) - 1] \subseteq TermsTo[m - 1]
      BY <1>3, <2>3, DepthAssumption
    <3>2. TermsTo[m - 1] = TermsWith(TermsTo[(m - 1) - 1])
      BY <1>1, <3>1
    <3> QED BY <1>1, <2>1, <3>1, <3>2, TermsWithGrow
  <2> QED BY <2>2, <2>3
<1>4. n \in G
  <2> HIDE DEF G
  <2>1. n \in 0..Depth
    BY DepthAssumption
  <2> QED BY <1>2, <1>3, <2>1, CountedUp, DepthAssumption
<1>5. n # 0
  BY DepthAssumption
<1> QED BY <1>1, <1>4, <1>5

(* A step that looks only at the parts of an expression defines a function *)
(* on all expressions: what Shape and ValuesOf rest on.                    *)
LEMMA TermsRecursion ==
  ASSUME NEW what,
         \A A, f, g : (\A y \in A : f[y] = g[y]) =>
           \A T \in TermsWith(A) : StepOf(what, T, f) = StepOf(what, T, g)
  PROVE  \E f : f = [T \in Terms |-> StepOf(what, T, f)]
<1>1. TermsTo[0] = TermsWith({})
  BY TermsToIs, DepthAssumption
<1>2. \A f, g : \A T \in TermsTo[0] : StepOf(what, T, f) = StepOf(what, T, g)
  BY <1>1
<1>3. ASSUME NEW n \in 1..Depth
      PROVE  /\ \A T \in TermsTo[n - 1] : T \in TermsTo[n]
             /\ \A f, g : (\A y \in TermsTo[n - 1] : f[y] = g[y]) =>
                  \A T \in TermsTo[n] : StepOf(what, T, f) = StepOf(what, T, g)
  BY TermsAt
<1>4. LooksBelow(what, Depth, TermsTo)
  BY <1>2, <1>3 DEF LooksBelow
<1> QED BY <1>4, Recursion, DepthAssumption DEF Terms

\* An expression whose parts are of A.
TermOver(e, A) ==
  \/ e[1] \in {"lit", "toset", "tolist", "var"}
  \/ e[1] \in {"array", "object", "concat", "merge", "first"} /\ \A i \in DOMAIN e[2] : e[2][i] \in A
  \/ e[1] = "cond" /\ e[2] \in A /\ e[3] \in A
  \/ e[1] = "for" /\ e[3] \in A /\ e[4] \in A
  \/ e[1] = "lookup" /\ e[2] \in A /\ e[4] \in A
  \/ e[1] \in {"element", "values", "chain", "each", "index", "field"} /\ e[2] \in A

(* The forms of a constant, and of any expression.                         *)
LEMMA ConstantsWithHas ==
  ASSUME NEW A, NEW e \in ConstantsWith(A)
  PROVE  \/ \E k \in Primitives \cup {"null"} : e = <<"lit", k>>
         \/ \E s \in Seq(A) : e = <<"array", s>>
         \/ \E K \in SUBSET KeyNames : \E f \in [K -> A] : e = <<"object", f>>
         \/ \E c, d \in A : e = <<"cond", c, d>>
<1> DEFINE KA == Keyed(A)
<1>1. CASE e \in ({"object"} \X KA)
  <2> HIDE DEF KA
  <2>1. PICK f \in KA : e = <<"object", f>>
    BY <1>1
  <2> QED BY <2>1, KeyedHas DEF KA
<1>2. CASE e \notin ({"object"} \X KA)
  BY <1>2 DEF ConstantsWith
<1> QED BY <1>1, <1>2

LEMMA TermsWithHas ==
  ASSUME NEW A, NEW e \in TermsWith(A)
  PROVE  TermOver(e, A)
<1>1. CASE e \in ConstantsWith(A)
  BY <1>1, ConstantsWithHas DEF TermOver
<1>2. CASE e \notin ConstantsWith(A)
  BY <1>2 DEF TermsWith, TermOver
<1> QED BY <1>1, <1>2

\* What is said of an expression, given g for its parts, is said given h.
SameFor(e, g, h) == ShapeBy(e, g) = ShapeBy(e, h) /\ ValuesOfBy(e, g) = ValuesOfBy(e, h)

(* The shape and the values of an expression depend on those of its parts  *)
(* and on nothing else, form by form.                                      *)
LEMMA FormsLookAtParts ==
  ASSUME NEW A, NEW g, NEW h, \A y \in A : g[y] = h[y], NEW e, TermOver(e, A)
  PROVE  SameFor(e, g, h)
<1>1. CASE e[1] = "lit"
  BY <1>1 DEF SameFor, ShapeBy, ValuesOfBy
<1>2. CASE e[1] = "toset"
  BY <1>2 DEF SameFor, ShapeBy, ValuesOfBy
<1>3. CASE e[1] = "tolist"
  BY <1>3 DEF SameFor, ShapeBy, ValuesOfBy
<1>4. CASE e[1] = "var"
  BY <1>4 DEF SameFor, ShapeBy, ValuesOfBy
<1>5. CASE e[1] = "element"
  <2>1. g[e[2]] = h[e[2]]
    BY <1>5 DEF TermOver
  <2> QED BY <1>5, <2>1 DEF SameFor, ShapeBy, ValuesOfBy
<1>6. CASE e[1] = "index"
  <2>1. g[e[2]] = h[e[2]]
    BY <1>6 DEF TermOver
  <2> QED BY <1>6, <2>1 DEF SameFor, ShapeBy, ValuesOfBy
<1>7. CASE e[1] = "values"
  <2>1. g[e[2]] = h[e[2]]
    BY <1>7 DEF TermOver
  <2> QED BY <1>7, <2>1 DEF SameFor, ShapeBy, ValuesOfBy
<1>8. CASE e[1] = "chain"
  <2>1. g[e[2]] = h[e[2]]
    BY <1>8 DEF TermOver
  <2> QED BY <1>8, <2>1 DEF SameFor, ShapeBy, ValuesOfBy
<1>9. CASE e[1] = "each"
  <2>1. g[e[2]] = h[e[2]]
    BY <1>9 DEF TermOver
  <2> QED BY <1>9, <2>1 DEF SameFor, ShapeBy, ValuesOfBy
<1>10. CASE e[1] = "field"
  <2>1. g[e[2]] = h[e[2]]
    BY <1>10 DEF TermOver
  <2> QED BY <1>10, <2>1 DEF SameFor, ShapeBy, ValuesOfBy
<1>11. CASE e[1] = "cond"
  <2>1. g[e[2]] = h[e[2]] /\ g[e[3]] = h[e[3]]
    BY <1>11 DEF TermOver
  <2> QED BY <1>11, <2>1 DEF SameFor, ShapeBy, ValuesOfBy
<1>12. CASE e[1] = "for"
  <2>1. g[e[3]] = h[e[3]] /\ g[e[4]] = h[e[4]]
    BY <1>12 DEF TermOver
  <2> QED BY <1>12, <2>1 DEF SameFor, ShapeBy, ValuesOfBy
<1>13. CASE e[1] = "lookup"
  <2>1. g[e[2]] = h[e[2]] /\ g[e[4]] = h[e[4]]
    BY <1>13 DEF TermOver
  <2> QED BY <1>13, <2>1 DEF SameFor, ShapeBy, ValuesOfBy
<1>14. CASE e[1] = "array"
  <2>1. \A i \in DOMAIN e[2] : g[e[2][i]] = h[e[2][i]]
    BY <1>14 DEF TermOver
  <2>2. [i \in DOMAIN e[2] |-> g[e[2][i]]] = [i \in DOMAIN e[2] |-> h[e[2][i]]]
    BY <2>1
  <2> QED BY <1>14, <2>1, <2>2 DEF SameFor, ShapeBy, ValuesOfBy
<1>15. CASE e[1] = "object"
  <2>1. \A i \in DOMAIN e[2] : g[e[2][i]] = h[e[2][i]]
    BY <1>15 DEF TermOver
  <2>2. [i \in DOMAIN e[2] |-> g[e[2][i]]] = [i \in DOMAIN e[2] |-> h[e[2][i]]]
    BY <2>1
  <2> QED BY <1>15, <2>1, <2>2 DEF SameFor, ShapeBy, ValuesOfBy
<1>16. CASE e[1] = "concat"
  <2>1. \A i \in DOMAIN e[2] : g[e[2][i]] = h[e[2][i]]
    BY <1>16 DEF TermOver
  <2>2. [i \in DOMAIN e[2] |-> g[e[2][i]]] = [i \in DOMAIN e[2] |-> h[e[2][i]]]
    BY <2>1
  <2>3. {g[e[2][i]] : i \in DOMAIN e[2]} = {h[e[2][i]] : i \in DOMAIN e[2]}
    BY <2>1
  <2>4. ShapeBy(e, g) = ShapeBy(e, h)
    BY <1>16, <2>3 DEF ShapeBy
  <2> DEFINE G == Picks([i \in DOMAIN e[2] |-> g[e[2][i]]])
             H == Picks([i \in DOMAIN e[2] |-> h[e[2][i]]])
  <2>5. G = H
    BY <2>2
  <2>6. ValuesOfBy(e, g) = ValuesOfBy(e, h)
    BY <1>16, <2>5 DEF ValuesOfBy
  <2> QED BY <2>4, <2>6 DEF SameFor
<1>17. CASE e[1] = "merge"
  <2>1. \A i \in DOMAIN e[2] : g[e[2][i]] = h[e[2][i]]
    BY <1>17 DEF TermOver
  <2>2. [i \in DOMAIN e[2] |-> g[e[2][i]]] = [i \in DOMAIN e[2] |-> h[e[2][i]]]
    BY <2>1
  <2>3. ShapeBy(e, g) = ShapeBy(e, h)
    BY <1>17, <2>2, Zenon DEF ShapeBy
  <2> DEFINE G == Picks([i \in DOMAIN e[2] |-> g[e[2][i]]])
             H == Picks([i \in DOMAIN e[2] |-> h[e[2][i]]])
  <2>4. G = H
    BY <2>2
  <2>5. ValuesOfBy(e, g) = ValuesOfBy(e, h)
    BY <1>17, <2>4 DEF ValuesOfBy
  <2> QED BY <2>3, <2>5 DEF SameFor
<1>18. CASE e[1] = "first"
  <2>1. \A i \in DOMAIN e[2] : g[e[2][i]] = h[e[2][i]]
    BY <1>18 DEF TermOver
  <2>2. [i \in DOMAIN e[2] |-> g[e[2][i]]] = [i \in DOMAIN e[2] |-> h[e[2][i]]]
    BY <2>1
  <2> QED BY <1>18, <2>1, <2>2 DEF SameFor, ShapeBy, ValuesOfBy
<1> QED BY <1>1, <1>2, <1>3, <1>4, <1>5, <1>6, <1>7, <1>8, <1>9, <1>10, <1>11, <1>12, <1>13, <1>14, <1>15, <1>16, <1>17, <1>18 DEF TermOver

(* Shape and ValuesOf are their own steps.                                 *)
LEMMA ShapeIs ==
  ASSUME NEW e \in Terms
  PROVE  Shape[e] = ShapeBy(e, Shape)
<1> DEFINE what == <<"shape">>
           f == CHOOSE g : g = [U \in Terms |-> StepOf(what, U, g)]
<1>1. \A U, g : StepOf(what, U, g) = ShapeBy(U, g)
  BY DEF StepOf
<1>2. Shape = f
  BY DEF Shape, StepOf
<1> HIDE DEF what
<1>3. ASSUME NEW A, NEW g, NEW h, \A y \in A : g[y] = h[y], NEW U \in TermsWith(A)
      PROVE  StepOf(what, U, g) = StepOf(what, U, h)
  <2>1. SameFor(U, g, h)
    BY <1>3, TermsWithHas, FormsLookAtParts
  <2> QED BY <1>1, <2>1 DEF SameFor
<1>4. \E g : g = [U \in Terms |-> StepOf(what, U, g)]
  BY <1>3, TermsRecursion
<1>5. f = [U \in Terms |-> StepOf(what, U, f)]
  BY <1>4
<1> HIDE DEF f
<1> QED BY <1>1, <1>2, <1>5

LEMMA ValuesOfIs ==
  ASSUME NEW e \in Terms
  PROVE  ValuesOf[e] = ValuesOfBy(e, ValuesOf)
<1> DEFINE what == <<"values of">>
           f == CHOOSE g : g = [U \in Terms |-> StepOf(what, U, g)]
<1>1. \A U, g : StepOf(what, U, g) = ValuesOfBy(U, g)
  BY DEF StepOf
<1>2. ValuesOf = f
  BY DEF ValuesOf, StepOf
<1> HIDE DEF what
<1>3. ASSUME NEW A, NEW g, NEW h, \A y \in A : g[y] = h[y], NEW U \in TermsWith(A)
      PROVE  StepOf(what, U, g) = StepOf(what, U, h)
  <2>1. SameFor(U, g, h)
    BY <1>3, TermsWithHas, FormsLookAtParts
  <2> QED BY <1>1, <2>1 DEF SameFor
<1>4. \E g : g = [U \in Terms |-> StepOf(what, U, g)]
  BY <1>3, TermsRecursion
<1>5. f = [U \in Terms |-> StepOf(what, U, f)]
  BY <1>4
<1> HIDE DEF f
<1> QED BY <1>1, <1>2, <1>5

-----------------------------------------------------------------------------
(* What the functions give: types, no deeper than what they are given.     *)

(* Levels that grow stay below the last one.                               *)
LEMMA Chain ==
  ASSUME NEW D \in Nat, NEW L, \A n \in 1..D : L[n - 1] \subseteq L[n], NEW n \in 0..D
  PROVE  L[n] \subseteq L[D]
<1> DEFINE G == {k \in 0..D : L[D - k] \subseteq L[D]}
<1>1. 0 \in G
  <2>1. D - 0 = D
    OBVIOUS
  <2> QED BY <2>1
<1>2. ASSUME NEW k \in 1..D, k - 1 \in G PROVE k \in G
  <2> DEFINE m == D - (k - 1)
  <2>1. m \in 1..D /\ m - 1 = D - k
    OBVIOUS
  <2>2. L[D - k] \subseteq L[m]
    BY <2>1
  <2>3. L[m] \subseteq L[D]
    BY <1>2
  <2> QED BY <2>2, <2>3
<1>3. D - n \in G
  <2> HIDE DEF G
  <2>1. D - n \in 0..D
    OBVIOUS
  <2> QED BY <1>1, <1>2, <2>1, CountedUp
<1>4. D - (D - n) = n
  OBVIOUS
<1> QED BY <1>3, <1>4

\* What the n-th level of L is built from.
Lower(L, n) == IF n = 0 THEN {} ELSE L[n - 1]

(* Induction over the levels.                                              *)
LEMMA LevelByLevel ==
  ASSUME NEW D \in Nat, NEW G, \A n \in 0..D : (n # 0 => n - 1 \in G) => n \in G
  PROVE  \A n \in 0..D : n \in G
<1>1. 0 \in G
  OBVIOUS
<1>2. \A n \in 1..D : n - 1 \in G => n \in G
  OBVIOUS
<1> QED BY <1>1, <1>2, CountedUp

(* The levels of types, constants and expressions lie in Types, Constants  *)
(* and Terms.                                                              *)
LEMMA TypesLevels ==
  ASSUME NEW n \in 0..Depth
  PROVE  /\ TypesTo[n] = TypesWith(Lower(TypesTo, n))
         /\ TypesTo[n] \subseteq Types /\ Lower(TypesTo, n) \subseteq Types
<1>1. TypesTo[n] = TypesWith(Lower(TypesTo, n))
  BY TypesToIs DEF Lower
<1>2. \A m \in 0..Depth : TypesTo[m] \subseteq Types
  BY TypesAt, Chain, DepthAssumption DEF Types
<1>3. n # 0 => n - 1 \in 0..Depth
  BY DepthAssumption
<1> QED BY <1>1, <1>2, <1>3 DEF Lower

LEMMA ConstantsLevels ==
  ASSUME NEW n \in 0..Depth
  PROVE  ConstantsTo[n] = ConstantsWith(Lower(ConstantsTo, n))
BY ConstantsToIs DEF Lower

LEMMA ConstantsAreTerms ==
  ASSUME NEW n \in 0..Depth
  PROVE  /\ ConstantsTo[n] \subseteq Terms /\ Lower(ConstantsTo, n) \subseteq Terms
<1> DEFINE G == {m \in 0..Depth : ConstantsTo[m] \subseteq TermsTo[m]}
<1>1. ASSUME NEW m \in 0..Depth, m # 0 => m - 1 \in G PROVE m \in G
  <2>1. ConstantsTo[m] = ConstantsWith(Lower(ConstantsTo, m)) /\ TermsTo[m] = TermsWith(Lower(TermsTo, m))
    BY ConstantsToIs, TermsToIs DEF Lower
  <2>2. Lower(ConstantsTo, m) \subseteq Lower(TermsTo, m)
    BY <1>1 DEF Lower
  <2>3. ConstantsWith(Lower(ConstantsTo, m)) \subseteq ConstantsWith(Lower(TermsTo, m))
    BY <2>2, ConstantsWithGrow
  <2>4. ConstantsWith(Lower(TermsTo, m)) \subseteq TermsWith(Lower(TermsTo, m))
    BY DEF TermsWith
  <2> QED BY <2>1, <2>3, <2>4
<1>2. \A m \in 0..Depth : m \in G
  <2> HIDE DEF G
  <2> QED BY <1>1, LevelByLevel, DepthAssumption
<1>3. \A m \in 0..Depth : TermsTo[m] \subseteq Terms
  BY TermsAt, Chain, DepthAssumption DEF Terms
<1>4. \A m \in 0..Depth : ConstantsTo[m] \subseteq Terms
  BY <1>2, <1>3
<1>5. n # 0 => n - 1 \in 0..Depth
  BY DepthAssumption
<1> QED BY <1>4, <1>5 DEF Lower

(* Reading a constraint and merging two shapes give types, and no deeper   *)
(* ones; the shape of a constant is a type no deeper than the constant.    *)
LEMMA TypeOfTyped ==
  ASSUME NEW T \in Types
  PROVE  TypeOf[T] \in Types
<1> DEFINE G == {n \in 0..Depth : \A U \in TypesTo[n] : TypeOf[U] \in TypesTo[n]}
<1>1. ASSUME NEW n \in 0..Depth, n # 0 => n - 1 \in G PROVE n \in G
  <2> DEFINE A == Lower(TypesTo, n)
  <2>1. TypesTo[n] = TypesWith(A) /\ TypesTo[n] \subseteq Types
    BY TypesLevels
  <2>2. \A U \in A : TypeOf[U] \in A
    BY <1>1 DEF Lower
  <2> HIDE DEF A
  <2>3. ASSUME NEW U \in TypesWith(A), U \in Types PROVE TypeOf[U] \in TypesWith(A)
    <3>1. TypeOf[U] = TypeOfBy(U, TypeOf)
      BY <2>3, TypeOfIs
    <3>2. TypeOver(U, A)
      BY TypesWithHas
    <3>3. CASE U[1] \in {"any", "optional", "prim"}
      BY <3>1, <3>2, <3>3, TypesWithHas DEF TypeOver, TypeOfBy, AnyType, Wraps
    <3>4. CASE U[1] \in Wraps
      <4>1. TypeOf[U] = <<U[1], TypeOf[U[2]]>> /\ U[2] \in A
        BY <3>1, <3>2, <3>4 DEF TypeOver, TypeOfBy, AnyType, Wraps
      <4>2. TypeOver(TypeOf[U], A)
        BY <2>2, <3>4, <4>1 DEF TypeOver
      <4> QED BY <4>2, TypesWithHas
    <3>5. CASE U[1] = "tuple"
      <4>1. PICK s \in Seq(A) : U = <<"tuple", s>>
        BY <3>2, <3>5 DEF TypeOver, AnyType, Wraps
      <4>2. TypeOf[U] = <<"tuple", [i \in DOMAIN s |-> TypeOf[s[i]]]>>
        BY <3>1, <4>1 DEF TypeOfBy, Wraps
      <4>3. [i \in DOMAIN s |-> TypeOf[s[i]]] \in Seq(A)
        <5>1. Len(s) \in Nat /\ DOMAIN s = 1..Len(s) /\ \A i \in DOMAIN s : TypeOf[s[i]] \in A
          BY <2>2
        <5> QED BY <5>1
      <4>4. TypeOver(TypeOf[U], A)
        BY <4>2, <4>3 DEF TypeOver
      <4> QED BY <4>4, TypesWithHas
    <3>6. CASE U[1] = "object"
      <4>0. PICK K \in SUBSET KeyNames : \E f \in [K -> A] : U = <<"object", f>>
        BY <3>2, <3>6 DEF TypeOver, AnyType, Wraps
      <4>1. PICK f \in [K -> A] : U = <<"object", f>>
        BY <4>0
      <4>2. TypeOf[U] = <<"object", [i \in DOMAIN f |-> TypeOf[f[i]]]>>
        BY <3>1, <4>1 DEF TypeOfBy, Wraps
      <4>3. [i \in DOMAIN f |-> TypeOf[f[i]]] \in [K -> A]
        BY <2>2
      <4>4. TypeOver(TypeOf[U], A)
        BY <4>2, <4>3 DEF TypeOver
      <4> QED BY <4>4, TypesWithHas
    <3>7. U[1] \in {"any", "optional", "prim", "tuple", "object"} \cup Wraps
      BY <3>2 DEF TypeOver, AnyType
    <3> QED BY <3>3, <3>4, <3>5, <3>6, <3>7
  <2> QED BY <2>1, <2>3
<1>2. \A n \in 0..Depth : n \in G
  <2> HIDE DEF G
  <2> QED BY <1>1, LevelByLevel, DepthAssumption
<1>3. Depth \in 0..Depth
  BY DepthAssumption
<1> QED BY <1>2, <1>3 DEF Types

LEMMA MergeShapesAre ==
  ASSUME NEW a \in Types, NEW b \in Types
  PROVE  MergeShapes[a][b] = MergeShapesBy(a, b, MergeShapes)
BY MergeShapesIs

LEMMA MergeShapesTyped ==
  ASSUME NEW n \in 0..Depth, NEW a \in TypesTo[n], NEW b \in TypesTo[n]
  PROVE  MergeShapes[a][b] \in TypesTo[n]
<1> DEFINE G == {m \in 0..Depth : \A x, y \in TypesTo[m] : MergeShapes[x][y] \in TypesTo[m]}
<1>1. ASSUME NEW m \in 0..Depth, m # 0 => m - 1 \in G PROVE m \in G
  <2> DEFINE A == Lower(TypesTo, m)
  <2>1. TypesTo[m] = TypesWith(A) /\ TypesTo[m] \subseteq Types
    BY TypesLevels
  <2>2. \A x, y \in A : MergeShapes[x][y] \in A
    BY <1>1 DEF Lower
  <2> HIDE DEF A
  <2>3. ASSUME NEW x \in TypesWith(A), x \in Types, NEW y \in TypesWith(A), y \in Types
        PROVE  MergeShapes[x][y] \in TypesWith(A)
    <3>1. MergeShapes[x][y] = MergeShapesBy(x, y, MergeShapes)
      BY <2>3, MergeShapesAre
    <3>2. TypeOver(x, A) /\ TypeOver(y, A)
      BY TypesWithHas
    <3>3. CASE x # AnyType /\ x[1] = "object" /\ y[1] = "object"
      <4>0. PICK K \in SUBSET KeyNames, M \in SUBSET KeyNames :
              /\ \E f \in [K -> A] : x = <<"object", f>>
              /\ \E g \in [M -> A] : y = <<"object", g>>
        BY <3>2, <3>3 DEF TypeOver, AnyType, Wraps
      <4>1. PICK f \in [K -> A] : x = <<"object", f>>
        BY <4>0
      <4>2. PICK g \in [M -> A] : y = <<"object", g>>
        BY <4>0
      <4> DEFINE h == [k \in K \cup M |->
                         CASE k \notin M -> f[k] [] k \notin K -> g[k]
                           [] OTHER -> MergeShapes[f[k]][g[k]]]
      <4>3. MergeShapes[x][y] = <<"object", h>>
        BY <3>1, <3>3, <4>1, <4>2 DEF MergeShapesBy
      <4>4. \A k \in K \cup M : h[k] \in A
        BY <2>2
      <4>5. h \in [K \cup M -> A] /\ K \cup M \in SUBSET KeyNames
        BY <4>4
      <4>6. TypeOver(MergeShapes[x][y], A)
        BY <4>3, <4>5 DEF TypeOver
      <4> QED BY <4>6, TypesWithHas
    <3>4. CASE ~(x # AnyType /\ x[1] = "object" /\ y[1] = "object")
      <4>1. MergeShapes[x][y] \in {x, y}
        BY <3>1, <3>4 DEF MergeShapesBy, AnyType
      <4> QED BY <4>1
    <3> QED BY <3>3, <3>4
  <2> QED BY <2>1, <2>3
<1>2. \A m \in 0..Depth : m \in G
  <2> HIDE DEF G
  <2> QED BY <1>1, LevelByLevel, DepthAssumption
<1> QED BY <1>2

LEMMA ShapeTyped ==
  ASSUME NEW n \in 0..Depth, NEW c \in ConstantsTo[n]
  PROVE  Shape[c] \in TypesTo[n]
<1> DEFINE G == {m \in 0..Depth : \A e \in ConstantsTo[m] : Shape[e] \in TypesTo[m]}
<1>1. ASSUME NEW m \in 0..Depth, m # 0 => m - 1 \in G PROVE m \in G
  <2> DEFINE A == Lower(TypesTo, m)
             C == Lower(ConstantsTo, m)
  <2>1. /\ TypesTo[m] = TypesWith(A) /\ ConstantsTo[m] = ConstantsWith(C)
        /\ ConstantsTo[m] \subseteq Terms /\ C \subseteq Terms
    BY TypesLevels, ConstantsLevels, ConstantsAreTerms
  <2>2. \A e \in C : Shape[e] \in A
    BY <1>1 DEF Lower
  <2>3. \A x, y \in A : MergeShapes[x][y] \in A
    <3>1. m # 0 => m - 1 \in 0..Depth
      BY DepthAssumption
    <3> QED BY <3>1, MergeShapesTyped DEF Lower
  <2>4. A \subseteq TypesWith(A)
    <3>1. CASE m = 0
      BY <3>1 DEF Lower
    <3>2. CASE m # 0
      <4>1. m \in 1..Depth
        BY <3>2, DepthAssumption
      <4> QED BY <2>1, <3>2, <4>1, TypesAt DEF Lower
    <3> QED BY <3>1, <3>2
  <2> HIDE DEF A, C
  <2>5. ASSUME NEW e \in ConstantsWith(C), e \in Terms PROVE Shape[e] \in TypesWith(A)
    <3>1. Shape[e] = ShapeBy(e, Shape)
      BY <2>5, ShapeIs
    <3>2. CASE \E k \in Primitives \cup {"null"} : e = <<"lit", k>>
      <4>1. PICK k \in Primitives \cup {"null"} : e = <<"lit", k>>
        BY <3>2
      <4>2. Shape[e] = IF k = "null" THEN AnyType ELSE <<"prim", k>>
        BY <3>1, <4>1 DEF ShapeBy, Prim
      <4>3. TypeOver(Shape[e], A)
        BY <4>2 DEF TypeOver, AnyType
      <4> QED BY <4>3, TypesWithHas
    <3>3. CASE \E s \in Seq(C) : e = <<"array", s>>
      <4>1. PICK s \in Seq(C) : e = <<"array", s>>
        BY <3>3
      <4>2. Shape[e] = <<"tuple", [i \in DOMAIN s |-> Shape[s[i]]]>>
        BY <3>1, <4>1 DEF ShapeBy
      <4>3. [i \in DOMAIN s |-> Shape[s[i]]] \in Seq(A)
        <5>1. Len(s) \in Nat /\ DOMAIN s = 1..Len(s) /\ \A i \in DOMAIN s : Shape[s[i]] \in A
          BY <2>2
        <5> QED BY <5>1
      <4>4. TypeOver(Shape[e], A)
        BY <4>2, <4>3 DEF TypeOver
      <4> QED BY <4>4, TypesWithHas
    <3>4. CASE \E K \in SUBSET KeyNames : \E f \in [K -> C] : e = <<"object", f>>
      <4>0. PICK K \in SUBSET KeyNames : \E f \in [K -> C] : e = <<"object", f>>
        BY <3>4
      <4>1. PICK f \in [K -> C] : e = <<"object", f>>
        BY <4>0
      <4>2. Shape[e] = <<"object", [i \in DOMAIN f |-> Shape[f[i]]]>>
        BY <3>1, <4>1 DEF ShapeBy
      <4>3. [i \in DOMAIN f |-> Shape[f[i]]] \in [K -> A]
        BY <2>2
      <4>4. TypeOver(Shape[e], A)
        BY <4>2, <4>3 DEF TypeOver
      <4> QED BY <4>4, TypesWithHas
    <3>5. CASE \E c1, c2 \in C : e = <<"cond", c1, c2>>
      <4>1. PICK c1 \in C, c2 \in C : e = <<"cond", c1, c2>>
        BY <3>5
      <4>2. Shape[e] = MergeShapes[Shape[c1]][Shape[c2]]
        BY <3>1, <4>1 DEF ShapeBy
      <4> QED BY <2>2, <2>3, <2>4, <4>2
    <3> QED BY <3>2, <3>3, <3>4, <3>5, ConstantsWithHas
  <2> QED BY <2>1, <2>5
<1>2. \A m \in 0..Depth : m \in G
  <2> HIDE DEF G
  <2> QED BY <1>1, LevelByLevel, DepthAssumption
<1> QED BY <1>2

-----------------------------------------------------------------------------
(* What a type accepts as it is has a shape that satisfies it.             *)

\* What a type accepts and leaves no attribute of out.
Kept(T) == Accepted[T] \ Dropping[T]

\* What satisfies and what accepts.
LEMMA SatisfyingHas ==
  ASSUME NEW T \in Types, NEW x
  PROVE  x \in Satisfying[T] <=> x \in Types /\ SatisfiesBy(T, x, Satisfying)
BY SatisfyingIs

LEMMA AcceptedHas ==
  ASSUME NEW T \in Types, NEW v \in Accepted[T]
  PROVE  AcceptsBy(T, v, Accepted)
BY AcceptedIs

LEMMA KeptHas ==
  ASSUME NEW T \in Types, NEW v \in Kept(T)
  PROVE  AcceptsBy(T, v, Accepted) /\ ~DropsBy(T, v, Dropping)
<1>1. v \in Accepted[T] /\ v \notin Dropping[T]
  BY DEF Kept
<1>2. v \in AllValues
  BY <1>1, AcceptedIs
<1> QED BY <1>1, <1>2, AcceptedHas, DroppingIs

\* Every type is one of any's, primitives, collections, tuples and objects.
LEMMA TypesAre ==
  ASSUME NEW T \in Types
  PROVE  TypeOver(T, Types)
<1>1. Depth \in 0..Depth
  BY DepthAssumption
<1>2. Types = TypesWith(Lower(TypesTo, Depth)) /\ Lower(TypesTo, Depth) \subseteq Types
  BY <1>1, TypesLevels DEF Types
<1>3. T \in TypesWith(Types)
  BY <1>2, TypesWithGrow
<1> QED BY <1>3, TypesWithHas

(* What two branches satisfy, their merge satisfies.                       *)
LEMMA MergeSatisfies ==
  ASSUME NEW D \in Types, NEW a \in Satisfying[D], NEW b \in Satisfying[D]
  PROVE  MergeShapes[a][b] \in Satisfying[D]
<1> DEFINE G == {n \in 0..Depth : \A x \in TypesTo[n], y \in Types, T \in Types :
                   x \in Satisfying[T] /\ y \in Satisfying[T] => MergeShapes[x][y] \in Satisfying[T]}
<1>1. ASSUME NEW n \in 0..Depth, n # 0 => n - 1 \in G PROVE n \in G
  <2> DEFINE A == Lower(TypesTo, n)
  <2>1. TypesTo[n] = TypesWith(A) /\ TypesTo[n] \subseteq Types /\ A \subseteq Types
    BY TypesLevels
  <2>2. \A x \in A, y \in Types, T \in Types :
          x \in Satisfying[T] /\ y \in Satisfying[T] => MergeShapes[x][y] \in Satisfying[T]
    BY <1>1 DEF Lower
  <2> HIDE DEF A
  <2>3. ASSUME NEW x \in TypesWith(A), x \in Types, NEW y \in Types, NEW T \in Types,
               x \in Satisfying[T], y \in Satisfying[T]
        PROVE  MergeShapes[x][y] \in Satisfying[T]
    <3> DEFINE m == MergeShapes[x][y]
    <3>1. m = MergeShapesBy(x, y, MergeShapes)
      BY <2>3, MergeShapesAre
    <3>2. TypeOver(x, A) /\ TypeOver(y, Types) /\ TypeOver(T, Types)
      BY <2>3, TypesWithHas, TypesAre
    <3>3. SatisfiesBy(T, x, Satisfying) /\ SatisfiesBy(T, y, Satisfying)
      BY <2>3, SatisfyingHas
    <3>4. CASE x # AnyType /\ x[1] = "object" /\ y[1] = "object"
      <4>0. PICK K \in SUBSET KeyNames, M \in SUBSET KeyNames :
              /\ \E f \in [K -> A] : x = <<"object", f>>
              /\ \E g \in [M -> Types] : y = <<"object", g>>
        BY <3>2, <3>4 DEF TypeOver, AnyType, Wraps
      <4>1. PICK f \in [K -> A] : x = <<"object", f>>
        BY <4>0
      <4>2. PICK g \in [M -> Types] : y = <<"object", g>>
        BY <4>0
      <4> DEFINE h == [k \in K \cup M |->
                         CASE k \notin M -> f[k] [] k \notin K -> g[k]
                           [] OTHER -> MergeShapes[f[k]][g[k]]]
      <4>3. m = <<"object", h>>
        BY <3>1, <3>4, <4>1, <4>2 DEF MergeShapesBy
      <4>4. /\ \A k \in K \ M : h[k] = f[k]
            /\ \A k \in M \ K : h[k] = g[k]
            /\ \A k \in K \cap M : h[k] = MergeShapes[f[k]][g[k]]
            /\ DOMAIN h = K \cup M /\ DOMAIN f = K /\ DOMAIN g = M
        OBVIOUS
      <4> HIDE DEF h
      <4>5. m \in Types
        BY <2>3, MergeShapesTyped, DepthAssumption DEF Types
      <4>6. CASE T = AnyType
        BY <4>5, <4>6, SatisfyingHas DEF SatisfiesBy
      <4>7. CASE T # AnyType /\ T[1] = "map"
        <5>1. T[2] \in Types
          BY <3>2, <4>7 DEF TypeOver, AnyType
        <5>2. /\ \A k \in K : f[k] \in Satisfying[T[2]]
              /\ \A k \in M : g[k] \in Satisfying[T[2]]
          BY <3>3, <4>1, <4>2, <4>4, <4>7 DEF SatisfiesBy, AnyType, TypesIn
        <5>3. \A k \in K \cap M : h[k] \in Satisfying[T[2]]
          BY <2>2, <4>4, <5>1, <5>2
        <5>4. \A k \in K \cup M : h[k] \in Satisfying[T[2]]
          BY <4>4, <5>2, <5>3
        <5>5. \A U \in TypesIn(m) : U \in Satisfying[T[2]]
          BY <4>3, <4>4, <5>4 DEF TypesIn
        <5>6. SatisfiesBy(T, m, Satisfying)
          BY <4>3, <4>7, <5>5 DEF SatisfiesBy
        <5> QED BY <4>5, <5>6, SatisfyingHas
      <4>8. CASE T # AnyType /\ T[1] = "object"
        <5>0. PICK N \in SUBSET KeyNames : \E d \in [N -> Types] : T = <<"object", d>>
          BY <3>2, <4>8 DEF TypeOver, AnyType, Wraps
        <5>1. PICK d \in [N -> Types] : T = <<"object", d>>
          BY <5>0
        <5>2. /\ K \subseteq N
              /\ \A k \in N : IF k \in K THEN f[k] \in Satisfying[d[k]] ELSE d[k] = AnyType
          BY <3>3, <4>1, <4>4, <4>8, <5>1 DEF SatisfiesBy, AnyType
        <5>3. /\ M \subseteq N
              /\ \A k \in N : IF k \in M THEN g[k] \in Satisfying[d[k]] ELSE d[k] = AnyType
          BY <3>3, <4>2, <4>4, <4>8, <5>1 DEF SatisfiesBy, AnyType
        <5>4. \A k \in K \cap M : h[k] \in Satisfying[d[k]]
          BY <2>2, <4>4, <5>1, <5>2, <5>3
        <5>5. /\ \A k \in K \ M : h[k] \in Satisfying[d[k]]
              /\ \A k \in M \ K : h[k] \in Satisfying[d[k]]
          BY <4>4, <5>2, <5>3
        <5>6. /\ K \cup M \subseteq N
              /\ \A k \in N : IF k \in K \cup M THEN h[k] \in Satisfying[d[k]] ELSE d[k] = AnyType
          BY <5>2, <5>3, <5>4, <5>5
        <5>7. SatisfiesBy(T, m, Satisfying)
          BY <4>3, <4>4, <5>1, <5>6 DEF SatisfiesBy
        <5> QED BY <4>5, <5>7, SatisfyingHas
      <4>9. T = AnyType \/ T[1] = "map" \/ T[1] = "object"
        BY <3>2, <3>3, <3>4, <4>1 DEF SatisfiesBy, TypeOver, AnyType
      <4> QED BY <4>6, <4>7, <4>8, <4>9
    <3>5. CASE ~(x # AnyType /\ x[1] = "object" /\ y[1] = "object")
      <4>1. m \in {x, y}
        BY <3>1, <3>5 DEF MergeShapesBy, AnyType
      <4> QED BY <2>3, <4>1
    <3> QED BY <3>4, <3>5
  <2> QED BY <2>1, <2>3
<1>2. \A n \in 0..Depth : n \in G
  <2> HIDE DEF G
  <2> QED BY <1>1, LevelByLevel, DepthAssumption
<1>3. a \in Types /\ b \in Types /\ Depth \in 0..Depth
  BY SatisfyingHas, DepthAssumption
<1> QED BY <1>2, <1>3 DEF Types

(* Picks: values chosen one for each index.                                *)
LEMMA PicksReach ==
  ASSUME NEW f, \A i \in DOMAIN f : f[i] # {}
  PROVE  \A i \in DOMAIN f : \A v \in f[i] : \E p \in Picks(f) : p[i] = v
<1>1. SUFFICES ASSUME NEW i \in DOMAIN f, NEW v \in f[i] PROVE \E p \in Picks(f) : p[i] = v
  OBVIOUS
<1> DEFINE p == [j \in DOMAIN f |-> IF j = i THEN v ELSE CHOOSE w : w \in f[j]]
<1>2. \A j \in DOMAIN f : p[j] \in f[j]
  OBVIOUS
<1>3. p \in Picks(f)
  BY <1>2 DEF Picks
<1>4. p[i] = v
  OBVIOUS
<1> HIDE DEF p
<1> QED BY <1>3, <1>4

LEMMA PicksExist ==
  ASSUME NEW f, \A i \in DOMAIN f : f[i] # {}
  PROVE  Picks(f) # {}
<1> DEFINE p == [j \in DOMAIN f |-> CHOOSE w : w \in f[j]]
<1>1. \A j \in DOMAIN f : p[j] \in f[j]
  OBVIOUS
<1>2. p \in Picks(f)
  BY <1>1 DEF Picks
<1> QED BY <1>2

LEMMA PicksAre ==
  ASSUME NEW f, NEW p \in Picks(f)
  PROVE  DOMAIN p = DOMAIN f /\ \A i \in DOMAIN f : p[i] \in f[i]
BY DEF Picks

(* A constant has some value: Terraform gives it one.                      *)
LEMMA ConstantsHaveValues ==
  ASSUME NEW n \in 0..Depth, NEW c \in ConstantsTo[n]
  PROVE  ValuesOf[c] # {}
<1> DEFINE G == {m \in 0..Depth : \A e \in ConstantsTo[m] : ValuesOf[e] # {}}
<1>1. ASSUME NEW m \in 0..Depth, m # 0 => m - 1 \in G PROVE m \in G
  <2> DEFINE C == Lower(ConstantsTo, m)
  <2>1. ConstantsTo[m] = ConstantsWith(C) /\ ConstantsTo[m] \subseteq Terms
    BY ConstantsLevels, ConstantsAreTerms
  <2>2. \A e \in C : ValuesOf[e] # {}
    BY <1>1 DEF Lower
  <2> HIDE DEF C
  <2>3. ASSUME NEW e \in ConstantsWith(C), e \in Terms PROVE ValuesOf[e] # {}
    <3> DEFINE V == [i \in DOMAIN e[2] |-> ValuesOf[e[2][i]]]
    <3>1. ValuesOf[e] = ValuesOfBy(e, ValuesOf)
      BY <2>3, ValuesOfIs
    <3>2. CASE \E k \in Primitives \cup {"null"} : e = <<"lit", k>>
      <4>1. PICK k \in Primitives \cup {"null"} : e = <<"lit", k>>
        BY <3>2
      <4>2. ValuesOf[e] = {<<k>>}
        BY <3>1, <4>1 DEF ValuesOfBy
      <4> QED BY <4>2
    <3>3. CASE (\E s \in Seq(C) : e = <<"array", s>>) \/
               (\E K \in SUBSET KeyNames : \E f \in [K -> C] : e = <<"object", f>>)
      <4>1. e[1] \in {"array", "object"} /\ \A i \in DOMAIN e[2] : e[2][i] \in C
        BY <3>3
      <4>2. Picks(V) # {}
        BY <2>2, <4>1, PicksExist
      <4>3. CASE e[1] = "array"
        <5>1. ValuesOf[e] = {<<"tuple", s>> : s \in Picks(V)}
          BY <3>1, <4>3 DEF ValuesOfBy
        <5> HIDE DEF V
        <5> QED BY <4>2, <5>1
      <4>4. CASE e[1] = "object"
        <5>1. ValuesOf[e] = {<<"object", s>> : s \in Picks(V)}
          BY <3>1, <4>4 DEF ValuesOfBy
        <5> HIDE DEF V
        <5> QED BY <4>2, <5>1
      <4> QED BY <4>1, <4>3, <4>4
    <3>4. CASE \E c1, c2 \in C : e = <<"cond", c1, c2>>
      <4>1. PICK c1 \in C, c2 \in C : e = <<"cond", c1, c2>>
        BY <3>4
      <4>2. ValuesOf[e] = ValuesOf[c1] \cup ValuesOf[c2]
        BY <3>1, <4>1 DEF ValuesOfBy
      <4> QED BY <2>2, <4>2
    <3> QED BY <3>2, <3>3, <3>4, ConstantsWithHas
  <2> QED BY <2>1, <2>3
<1>2. \A m \in 0..Depth : m \in G
  <2> HIDE DEF G
  <2> QED BY <1>1, LevelByLevel, DepthAssumption
<1> QED BY <1>2

(* If a type accepts every value of a constant, and whole, the shape given *)
(* to the constant satisfies what the type is read as.                     *)
LEMMA AcceptedSatisfies ==
  ASSUME NEW n \in 0..Depth, NEW c \in ConstantsTo[n], NEW D \in Types,
         ValuesOf[c] \subseteq Kept(D)
  PROVE  Shape[c] \in Satisfying[TypeOf[D]]
<1> DEFINE G == {m \in 0..Depth : \A e \in ConstantsTo[m], T \in Types :
                   ValuesOf[e] \subseteq Kept(T) => Shape[e] \in Satisfying[TypeOf[T]]}
<1>1. ASSUME NEW m \in 0..Depth, m # 0 => m - 1 \in G PROVE m \in G
  <2> DEFINE C == Lower(ConstantsTo, m)
  <2>1. ConstantsTo[m] = ConstantsWith(C) /\ ConstantsTo[m] \subseteq Terms
    BY ConstantsLevels, ConstantsAreTerms
  <2>2. \A e \in C, T \in Types : ValuesOf[e] \subseteq Kept(T) => Shape[e] \in Satisfying[TypeOf[T]]
    BY <1>1 DEF Lower
  <2>3. \A e \in C : ValuesOf[e] # {}
    <3>1. m # 0 => m - 1 \in 0..Depth
      BY DepthAssumption
    <3> QED BY <3>1, ConstantsHaveValues DEF Lower
  <2>4. \A e \in ConstantsTo[m] : ValuesOf[e] # {} /\ Shape[e] \in Types
    BY ConstantsHaveValues, ShapeTyped, TypesLevels
  <2> HIDE DEF C
  <2>5. ASSUME NEW e \in ConstantsWith(C), e \in Terms, NEW T \in Types,
               ValuesOf[e] \subseteq Kept(T)
        PROVE  Shape[e] \in Satisfying[TypeOf[T]]
    <3> DEFINE R == TypeOf[T]
               S == Shape[e]
               V == [i \in DOMAIN e[2] |-> ValuesOf[e[2][i]]]
    <3>1. S = ShapeBy(e, Shape) /\ ValuesOf[e] = ValuesOfBy(e, ValuesOf) /\ S \in Types
      BY <2>1, <2>4, <2>5, ShapeIs, ValuesOfIs
    <3>2. TypeOver(T, Types) /\ R \in Types /\ R = TypeOfBy(T, TypeOf)
      BY TypesAre, TypeOfTyped, TypeOfIs
    <3>3. SUFFICES SatisfiesBy(R, S, Satisfying) \/ S \in Satisfying[R]
      BY <3>1, <3>2, SatisfyingHas
    <3>4. CASE T[1] \in {"any", "optional"}
      <4>1. R = AnyType
        BY <3>2, <3>4 DEF TypeOfBy, Wraps
      <4> QED BY <4>1 DEF SatisfiesBy
    <3>5. CASE T[1] \notin {"any", "optional"} /\ \E k \in Primitives \cup {"null"} : e = <<"lit", k>>
      <4>1. PICK k \in Primitives \cup {"null"} : e = <<"lit", k>>
        BY <3>5
      <4>2. S = IF k = "null" THEN AnyType ELSE <<"prim", k>>
        BY <3>1, <4>1 DEF ShapeBy, Prim
      <4>3. CASE k = "null"
        BY <4>2, <4>3 DEF SatisfiesBy
      <4>4. CASE k # "null"
        <5>1. <<k>> \in ValuesOf[e]
          BY <3>1, <4>1 DEF ValuesOfBy
        <5>2. AcceptsBy(T, <<k>>, Accepted)
          BY <2>5, <5>1, KeptHas
        <5>3. T[1] = "prim" /\ (k = T[2] \/ "string" \in {k, T[2]})
          BY <3>5, <4>4, <5>2 DEF AcceptsBy, Primitives, SequenceKinds, KeyedKinds, NullValue
        <5>4. R = T
          BY <3>2, <5>3 DEF TypeOfBy, Wraps
        <5> QED BY <4>2, <4>4, <5>3, <5>4 DEF SatisfiesBy, PrimitivesCompatible
      <4> QED BY <4>3, <4>4
    <3>6. CASE T[1] \notin {"any", "optional"} /\ \E s \in Seq(C) : e = <<"array", s>>
      <4>1. PICK s \in Seq(C) : e = <<"array", s>>
        BY <3>6
      <4>2. S = <<"tuple", [i \in DOMAIN s |-> Shape[s[i]]]>>
        BY <3>1, <4>1 DEF ShapeBy
      <4>3. ValuesOf[e] = {<<"tuple", p>> : p \in Picks(V)}
        BY <3>1, <4>1 DEF ValuesOfBy
      <4>4. /\ DOMAIN V = DOMAIN s /\ \A i \in DOMAIN s : V[i] = ValuesOf[s[i]] /\ s[i] \in C
            /\ Len(s) \in Nat /\ DOMAIN s = 1..Len(s)
        BY <4>1
      <4> HIDE DEF V
      <4>5. \A i \in DOMAIN V : V[i] # {}
        BY <2>3, <4>4
      <4>6. \A i \in DOMAIN V : \A v \in V[i] : \E p \in Picks(V) : p[i] = v
        BY <4>5, PicksReach
      <4>7. \A p \in Picks(V) : /\ AcceptsBy(T, <<"tuple", p>>, Accepted)
                                 /\ ~DropsBy(T, <<"tuple", p>>, Dropping)
                                 /\ DOMAIN p = 1..Len(s)
        BY <2>5, <4>3, <4>4, KeptHas, PicksAre
      <4>8. PICK p0 \in Picks(V) : TRUE
        BY <4>5, PicksExist
      <4>9. CASE T[1] \in {"list", "set"}
        <5>1. T[2] \in Types /\ R = <<T[1], TypeOf[T[2]]>>
          BY <3>2, <4>9 DEF TypeOfBy, TypeOver, AnyType, Wraps
        <5>2. ASSUME NEW i \in DOMAIN s PROVE Shape[s[i]] \in Satisfying[TypeOf[T[2]]]
          <6>1. ASSUME NEW v \in ValuesOf[s[i]] PROVE v \in Kept(T[2])
            <7>0. i \in DOMAIN V /\ v \in V[i]
              BY <4>4
            <7>1. PICK p \in Picks(V) : p[i] = v
              BY <4>6, <7>0
            <7>2. /\ AcceptsBy(T, <<"tuple", p>>, Accepted) /\ ~DropsBy(T, <<"tuple", p>>, Dropping)
                  /\ i \in DOMAIN p
              BY <4>4, <4>7
            <7>3. \A w \in Within(<<"tuple", p>>) : w \in Accepted[T[2]]
              BY <4>9, <7>2 DEF AcceptsBy, Primitives, SequenceKinds, KeyedKinds, NullValue
            <7>4. \A w \in Within(<<"tuple", p>>) : w \notin Dropping[T[2]]
              BY <4>9, <7>2 DEF DropsBy, SequenceKinds, KeyedKinds
            <7> QED BY <7>1, <7>2, <7>3, <7>4 DEF Within, Kept
          <6> QED BY <2>2, <4>4, <5>1, <6>1
        <5>3. \A U \in TypesIn(S) : U \in Satisfying[TypeOf[T[2]]]
          BY <4>2, <5>2 DEF TypesIn
        <5> QED BY <4>2, <4>9, <5>1, <5>3 DEF SatisfiesBy
      <4>10. CASE T[1] = "tuple"
        <5>1. PICK d \in Seq(Types) : T = <<"tuple", d>>
          BY <3>2, <4>10 DEF TypeOver, AnyType, Wraps
        <5>2. R = <<"tuple", [i \in DOMAIN d |-> TypeOf[d[i]]]>>
          BY <3>2, <5>1 DEF TypeOfBy, Wraps
        <5>3. \A p \in Picks(V) : Len(d) = Len(p) /\ \A i \in DOMAIN p : p[i] \in Accepted[d[i]]
          BY <4>7, <5>1 DEF AcceptsBy, Primitives, SequenceKinds, KeyedKinds, NullValue
        <5>4. Len(d) = Len(s)
          <6>1. Len(p0) = Len(s)
            <7>1. p0 \in [1..Len(s) -> UNION {V[i] : i \in DOMAIN V}]
              BY <4>4, <4>8 DEF Picks
            <7> QED BY <4>4, <7>1
          <6> QED BY <4>8, <5>3, <6>1
        <5>5. ASSUME NEW i \in DOMAIN s PROVE Shape[s[i]] \in Satisfying[TypeOf[d[i]]]
          <6>1. ASSUME NEW v \in ValuesOf[s[i]] PROVE v \in Kept(d[i])
            <7>0. i \in DOMAIN V /\ v \in V[i]
              BY <4>4
            <7>1. PICK p \in Picks(V) : p[i] = v
              BY <4>6, <7>0
            <7>2. /\ DOMAIN p = DOMAIN d /\ i \in DOMAIN p /\ p[i] \in Accepted[d[i]]
                  /\ ~DropsBy(T, <<"tuple", p>>, Dropping)
              BY <4>4, <4>7, <5>3, <5>4
            <7>3. \A j \in DOMAIN d \cap DOMAIN p : p[j] \notin Dropping[d[j]]
              BY <5>1, <7>2 DEF DropsBy
            <7> QED BY <7>1, <7>2, <7>3 DEF Kept
          <6>2. d[i] \in Types
            BY <4>4, <5>4
          <6> QED BY <2>2, <4>4, <6>1, <6>2
        <5>6. DOMAIN d = DOMAIN s /\ DOMAIN d = 1..Len(d)
          BY <4>4, <5>4
        <5> DEFINE r == [i \in DOMAIN d |-> TypeOf[d[i]]]
                   h == [i \in DOMAIN s |-> Shape[s[i]]]
        <5>7. Len(r) = Len(h) /\ DOMAIN r = DOMAIN s /\ \A i \in DOMAIN r : h[i] \in Satisfying[r[i]]
          BY <4>4, <5>4, <5>5, <5>6
        <5> HIDE DEF r, h
        <5>8. R = <<"tuple", r>> /\ S = <<"tuple", h>>
          BY <4>2, <5>2 DEF r, h
        <5> QED BY <5>7, <5>8 DEF SatisfiesBy
      <4>11. T[1] \in {"list", "set", "tuple"}
        BY <3>6, <4>7, <4>8 DEF AcceptsBy, Primitives, SequenceKinds, KeyedKinds, NullValue
      <4> QED BY <4>9, <4>10, <4>11
    <3>7. CASE T[1] \notin {"any", "optional"} /\
               \E K \in SUBSET KeyNames : \E f \in [K -> C] : e = <<"object", f>>
      <4>0. PICK K \in SUBSET KeyNames : \E f \in [K -> C] : e = <<"object", f>>
        BY <3>7
      <4>1. PICK f \in [K -> C] : e = <<"object", f>>
        BY <4>0
      <4>2. S = <<"object", [k \in K |-> Shape[f[k]]]>>
        BY <3>1, <4>1 DEF ShapeBy
      <4>3. ValuesOf[e] = {<<"object", p>> : p \in Picks(V)}
        BY <3>1, <4>1 DEF ValuesOfBy
      <4>4. DOMAIN V = K /\ \A k \in K : V[k] = ValuesOf[f[k]] /\ f[k] \in C
        BY <4>1
      <4> HIDE DEF V
      <4>5. \A k \in DOMAIN V : V[k] # {}
        BY <2>3, <4>4
      <4>6. \A i \in DOMAIN V : \A v \in V[i] : \E p \in Picks(V) : p[i] = v
        BY <4>5, PicksReach
      <4>7. \A p \in Picks(V) : /\ AcceptsBy(T, <<"object", p>>, Accepted)
                                 /\ ~DropsBy(T, <<"object", p>>, Dropping)
                                 /\ DOMAIN p = K
        BY <2>5, <4>3, <4>4, KeptHas, PicksAre
      <4>8. PICK p0 \in Picks(V) : TRUE
        BY <4>5, PicksExist
      <4>9. CASE T[1] = "map"
        <5>1. T[2] \in Types /\ R = <<"map", TypeOf[T[2]]>>
          BY <3>2, <4>9 DEF TypeOfBy, TypeOver, AnyType, Wraps
        <5>2. ASSUME NEW k \in K PROVE Shape[f[k]] \in Satisfying[TypeOf[T[2]]]
          <6>1. ASSUME NEW v \in ValuesOf[f[k]] PROVE v \in Kept(T[2])
            <7>1. PICK p \in Picks(V) : p[k] = v
              BY <4>4, <4>6
            <7>2. /\ AcceptsBy(T, <<"object", p>>, Accepted) /\ ~DropsBy(T, <<"object", p>>, Dropping)
                  /\ k \in DOMAIN p
              BY <4>7
            <7>3. \A w \in Within(<<"object", p>>) : w \in Accepted[T[2]]
              BY <4>9, <7>2 DEF AcceptsBy, Primitives, SequenceKinds, KeyedKinds, NullValue
            <7>4. \A w \in Within(<<"object", p>>) : w \notin Dropping[T[2]]
              BY <4>9, <7>2 DEF DropsBy, SequenceKinds, KeyedKinds
            <7> QED BY <7>1, <7>2, <7>3, <7>4 DEF Within, Kept
          <6> QED BY <2>2, <4>4, <5>1, <6>1
        <5>3. \A U \in TypesIn(S) : U \in Satisfying[TypeOf[T[2]]]
          BY <4>2, <5>2 DEF TypesIn
        <5> QED BY <4>2, <5>1, <5>3 DEF SatisfiesBy
      <4>10. CASE T[1] = "object"
        <5>0. PICK N \in SUBSET KeyNames : \E d \in [N -> Types] : T = <<"object", d>>
          BY <3>2, <4>10 DEF TypeOver, AnyType, Wraps
        <5>1. PICK d \in [N -> Types] : T = <<"object", d>>
          BY <5>0
        <5>2. R = <<"object", [k \in N |-> TypeOf[d[k]]]>>
          BY <3>2, <5>1 DEF TypeOfBy, Wraps
        <5>3. ASSUME NEW p \in Picks(V)
              PROVE  /\ K \subseteq N
                     /\ \A k \in N : IF k \in K THEN p[k] \in Kept(d[k]) ELSE d[k][1] = "optional"
          <6>1. /\ AcceptsBy(T, <<"object", p>>, Accepted)
                /\ ~DropsBy(T, <<"object", p>>, Dropping)
                /\ DOMAIN p = K /\ DOMAIN d = N
            BY <4>7
          <6>2. \A k \in DOMAIN d : IF k \in DOMAIN p THEN p[k] \in Accepted[d[k]]
                                                     ELSE d[k][1] = "optional"
            BY <5>1, <6>1 DEF AcceptsBy, Primitives, SequenceKinds, KeyedKinds, NullValue
          <6>3. \A k \in DOMAIN p : k \in DOMAIN d /\ p[k] \notin Dropping[d[k]]
            BY <5>1, <6>1 DEF DropsBy, KeyedKinds
          <6> QED BY <6>1, <6>2, <6>3 DEF Kept
        <5>4. K \subseteq N /\ \A k \in N \ K : d[k][1] = "optional"
          BY <4>8, <5>3
        <5>5. ASSUME NEW k \in K PROVE Shape[f[k]] \in Satisfying[TypeOf[d[k]]]
          <6>1. ASSUME NEW v \in ValuesOf[f[k]] PROVE v \in Kept(d[k])
            <7>1. PICK p \in Picks(V) : p[k] = v
              BY <4>4, <4>6
            <7> QED BY <5>3, <5>4, <7>1
          <6>2. d[k] \in Types
            BY <5>4
          <6> QED BY <2>2, <4>4, <6>1, <6>2
        <5>6. \A k \in N \ K : TypeOf[d[k]] = AnyType
          <6>1. \A k \in N \ K : TypeOf[d[k]] = TypeOfBy(d[k], TypeOf)
            BY <5>1, TypeOfIs
          <6> QED BY <5>4, <6>1 DEF TypeOfBy, Wraps
        <5> DEFINE r == [k \in N |-> TypeOf[d[k]]]
                   h == [k \in K |-> Shape[f[k]]]
        <5>7. /\ DOMAIN h \subseteq DOMAIN r
              /\ \A k \in DOMAIN r : IF k \in DOMAIN h THEN h[k] \in Satisfying[r[k]] ELSE r[k] = AnyType
          BY <5>4, <5>5, <5>6
        <5> HIDE DEF r, h
        <5>8. R = <<"object", r>> /\ S = <<"object", h>>
          BY <4>2, <5>2 DEF r, h
        <5> QED BY <5>7, <5>8 DEF SatisfiesBy
      <4>11. T[1] \in {"map", "object"}
        BY <3>7, <4>7, <4>8 DEF AcceptsBy, Primitives, SequenceKinds, KeyedKinds, NullValue
      <4> QED BY <4>9, <4>10, <4>11
    <3>8. CASE \E c1, c2 \in C : e = <<"cond", c1, c2>>
      <4>1. PICK c1 \in C, c2 \in C : e = <<"cond", c1, c2>>
        BY <3>8
      <4>2. S = MergeShapes[Shape[c1]][Shape[c2]] /\ ValuesOf[e] = ValuesOf[c1] \cup ValuesOf[c2]
        BY <3>1, <4>1 DEF ShapeBy, ValuesOfBy
      <4>3. Shape[c1] \in Satisfying[R] /\ Shape[c2] \in Satisfying[R]
        BY <2>2, <2>5, <4>2
      <4> QED BY <3>2, <4>2, <4>3, MergeSatisfies
    <3> QED BY <3>4, <3>5, <3>6, <3>7, <3>8, ConstantsWithHas
  <2> QED BY <2>1, <2>5
<1>2. \A m \in 0..Depth : m \in G
  <2> HIDE DEF G
  <2> QED BY <1>1, LevelByLevel, DepthAssumption
<1> QED BY <1>2

-----------------------------------------------------------------------------
(* The values of constants are among those types are asked about.          *)

(* The values the acceptance of a type is asked about: a form for each kind*)
LEMMA ValuesWithHas ==
  ASSUME NEW A, NEW v,
         \/ v = NullValue
         \/ \E k \in Primitives : v = <<k>>
         \/ \E kind \in SequenceKinds : \E s \in Seq(A) : v = <<kind, s>>
         \/ \E kind \in KeyedKinds : \E K \in SUBSET KeyNames : \E f \in [K -> A] : v = <<kind, f>>
  PROVE  v \in ValuesWith(A)
<1> DEFINE KA == Keyed(A)
<1>1. \A K \in SUBSET KeyNames : \A f \in [K -> A] : f \in KA
  BY KeyedHas
<1> HIDE DEF KA
<1>2. v \in {NullValue} \cup {<<kind>> : kind \in Primitives}
      \cup (SequenceKinds \X Seq(A)) \cup (KeyedKinds \X KA)
  BY <1>1
<1> QED BY <1>2 DEF ValuesWith, KA

LEMMA ValuesWithGrow ==
  ASSUME NEW A, NEW B, A \subseteq B
  PROVE  ValuesWith(A) \subseteq ValuesWith(B)
<1> DEFINE SA == Seq(A)
           SB == Seq(B)
           KA == Keyed(A)
           KB == Keyed(B)
<1>1. SA \subseteq SB /\ KA \subseteq KB
  BY PartsGrow
<1> HIDE DEF SA, SB, KA, KB
<1>2. (SequenceKinds \X SA) \subseteq (SequenceKinds \X SB) /\ (KeyedKinds \X KA) \subseteq (KeyedKinds \X KB)
  BY <1>1
<1> QED BY <1>2 DEF ValuesWith, SA, SB, KA, KB

(* The values of a constant are among those the types are asked about.     *)
LEMMA ConstantValues ==
  ASSUME NEW c \in Constants
  PROVE  ValuesOf[c] \subseteq AllValues
<1> DEFINE D == Depth + 1
           G == {m \in 0..Depth : ValuesTo[m] \subseteq ValuesTo[m + 1]
                                  /\ \A e \in ConstantsTo[m] : ValuesOf[e] \subseteq ValuesTo[m]}
<1>0. D \in Nat /\ \A m \in 0..D : ValuesTo[m] = ValuesWith(Lower(ValuesTo, m))
  BY ValuesToIs, DepthAssumption DEF Lower
<1>1. ASSUME NEW m \in 0..Depth, m # 0 => m - 1 \in G PROVE m \in G
  <2> DEFINE A == Lower(ValuesTo, m)
             C == Lower(ConstantsTo, m)
  <2>1. /\ ValuesTo[m] = ValuesWith(A) /\ ConstantsTo[m] = ConstantsWith(C)
        /\ ConstantsTo[m] \subseteq Terms
    BY <1>0, ConstantsLevels, ConstantsAreTerms, DepthAssumption
  <2>2. ValuesTo[m] \subseteq ValuesTo[m + 1]
    <3>1. m + 1 \in 0..D /\ m + 1 # 0 /\ (m + 1) - 1 = m
      BY DepthAssumption
    <3>2. ValuesTo[m + 1] = ValuesWith(ValuesTo[m])
      BY <1>0, <3>1 DEF Lower
    <3>3. A \subseteq ValuesTo[m]
      <4>1. CASE m = 0
        BY <4>1 DEF Lower
      <4>2. CASE m # 0
        <5>1. ValuesTo[m - 1] \subseteq ValuesTo[(m - 1) + 1] /\ (m - 1) + 1 = m
          BY <1>1, <4>2, DepthAssumption
        <5> QED BY <4>2, <5>1 DEF Lower
      <4> QED BY <4>1, <4>2
    <3> HIDE DEF A
    <3> QED BY <2>1, <3>2, <3>3, ValuesWithGrow
  <2>3. \A e \in C : ValuesOf[e] \subseteq A
    BY <1>1 DEF Lower
  <2>4. A \subseteq ValuesWith(A)
    <3>1. CASE m = 0
      BY <3>1 DEF Lower
    <3>2. CASE m # 0
      <4>1. ValuesTo[m - 1] \subseteq ValuesTo[(m - 1) + 1] /\ (m - 1) + 1 = m
        BY <1>1, <3>2, DepthAssumption
      <4> QED BY <2>1, <3>2, <4>1 DEF Lower
    <3> QED BY <3>1, <3>2
  <2> HIDE DEF A, C
  <2>5. ASSUME NEW e \in ConstantsWith(C), e \in Terms, NEW v \in ValuesOf[e] PROVE v \in ValuesWith(A)
    <3> DEFINE V == [i \in DOMAIN e[2] |-> ValuesOf[e[2][i]]]
    <3>1. ValuesOf[e] = ValuesOfBy(e, ValuesOf)
      BY <2>5, ValuesOfIs
    <3>2. CASE \E k \in Primitives \cup {"null"} : e = <<"lit", k>>
      <4>1. PICK k \in Primitives \cup {"null"} : e = <<"lit", k>>
        BY <3>2
      <4>2. ValuesOf[e] = {<<k>>}
        BY <3>1, <4>1 DEF ValuesOfBy
      <4> QED BY <2>5, <4>2, ValuesWithHas DEF NullValue
    <3>3. CASE \E s \in Seq(C) : e = <<"array", s>>
      <4>1. PICK s \in Seq(C) : e = <<"array", s>>
        BY <3>3
      <4>2. ValuesOf[e] = {<<"tuple", p>> : p \in Picks(V)}
        BY <3>1, <4>1 DEF ValuesOfBy
      <4>3. /\ DOMAIN V = DOMAIN s /\ \A i \in DOMAIN s : V[i] = ValuesOf[s[i]] /\ s[i] \in C
            /\ Len(s) \in Nat /\ DOMAIN s = 1..Len(s)
        BY <4>1
      <4> HIDE DEF V
      <4>4. PICK p \in Picks(V) : v = <<"tuple", p>>
        BY <2>5, <4>2
      <4>5. DOMAIN p = 1..Len(s) /\ \A i \in 1..Len(s) : p[i] \in A
        BY <2>3, <4>3, PicksAre
      <4>6. p \in Seq(A)
        <5>1. p = [i \in 1..Len(s) |-> p[i]]
          BY <4>3, <4>4, <4>5 DEF Picks
        <5>2. p \in [1..Len(s) -> A]
          BY <4>5, <5>1
        <5> QED BY <4>3, <5>2
      <4> QED BY <4>4, <4>6, ValuesWithHas DEF SequenceKinds
    <3>4. CASE \E K \in SUBSET KeyNames : \E f \in [K -> C] : e = <<"object", f>>
      <4>0. PICK K \in SUBSET KeyNames : \E f \in [K -> C] : e = <<"object", f>>
        BY <3>4
      <4>1. PICK f \in [K -> C] : e = <<"object", f>>
        BY <4>0
      <4>2. ValuesOf[e] = {<<"object", p>> : p \in Picks(V)}
        BY <3>1, <4>1 DEF ValuesOfBy
      <4>3. DOMAIN V = K /\ \A k \in K : V[k] = ValuesOf[f[k]] /\ f[k] \in C
        BY <4>1
      <4> HIDE DEF V
      <4>4. PICK p \in Picks(V) : v = <<"object", p>>
        BY <2>5, <4>2
      <4>5. DOMAIN p = K /\ \A i \in K : p[i] \in A
        BY <2>3, <4>3, PicksAre
      <4>6. p \in [K -> A]
        <5>1. p = [i \in K |-> p[i]]
          BY <4>3, <4>4, <4>5 DEF Picks
        <5> QED BY <4>5, <5>1
      <4> QED BY <4>4, <4>6, ValuesWithHas DEF KeyedKinds
    <3>5. CASE \E c1, c2 \in C : e = <<"cond", c1, c2>>
      <4>1. PICK c1 \in C, c2 \in C : e = <<"cond", c1, c2>>
        BY <3>5
      <4>2. ValuesOf[e] = ValuesOf[c1] \cup ValuesOf[c2]
        BY <3>1, <4>1 DEF ValuesOfBy
      <4> QED BY <2>3, <2>4, <2>5, <4>2
    <3> QED BY <3>2, <3>3, <3>4, <3>5, ConstantsWithHas
  <2> QED BY <2>1, <2>2, <2>5
<1>2. Depth \in 0..Depth /\ \A m \in 0..Depth : m \in G
  <2> HIDE DEF G
  <2> QED BY <1>1, LevelByLevel, DepthAssumption
<1> QED BY <1>2 DEF Constants, AllValues

(* A default is flagged only if Terraform refuses one of its values, or    *)
(* drops an attribute of one: in every behaviour of the edits and          *)
(* rebuilds, for every default made of literals and every declared type,   *)
(* however deeply they nest (variable_default_type_diagnostics; satisfies, *)
(* parse_type_expr, parse_value_shape_with_schema and merge_shapes of      *)
(* variable_type.rs).                                                      *)
THEOREM DefaultsFlaggedRightly == InputsSpec => []NoFalseMismatch
<1> DEFINE Known == variable \in Variables
<1>1. InputsInit => Known
  BY DEF InputsInit
<1>2. Known /\ [InputsNext]_inputVars => Known'
  BY DEF InputsNext, EditInput, RebuildCaller, RebuildModule, inputVars
<1>3. Known => NoFalseMismatch
  <2> DEFINE T == variable.type
             c == variable.default
  <2>1. SUFFICES ASSUME Known, Mismatch, c \in Constants, 
                        \A v \in ValuesOf[c] : Accepts(T, v) /\ ~Drops(T, v)
                 PROVE  FALSE
    BY DEF NoFalseMismatch
  <2>2. T \in Types
    BY <2>1, InputsAssumption DEF Mismatch
  <2>3. ValuesOf[c] \subseteq Kept(T)
    BY <2>1 DEF Accepts, Drops, Kept
  <2>4. Shape[c] \in Satisfying[TypeOf[T]]
    BY <2>1, <2>2, <2>3, AcceptedSatisfies, DepthAssumption DEF Constants
  <2> QED BY <2>1, <2>4 DEF Mismatch, Satisfies
<1> QED BY <1>1, <1>2, <1>3, PTL DEF InputsSpec

-----------------------------------------------------------------------------
(* UnknownValues.  Sequences, whatever they hold.                          *)

LEMMA ListedAre ==
  ASSUME NEW s
  PROVE  Listed(s) <=> /\ Len(s) \in Nat /\ DOMAIN s = 1..Len(s)
                       /\ s = [i \in DOMAIN s |-> s[i]]
<1> DEFINE S == {s[i] : i \in DOMAIN s}
<1>1. ASSUME Listed(s) PROVE Len(s) \in Nat /\ DOMAIN s = 1..Len(s) /\ s = [i \in DOMAIN s |-> s[i]]
  <2>1. s \in Seq(S)
    BY <1>1 DEF Listed
  <2> HIDE DEF S
  <2> QED BY <2>1
<1>2. ASSUME Len(s) \in Nat, DOMAIN s = 1..Len(s), s = [i \in DOMAIN s |-> s[i]] PROVE Listed(s)
  <2>1. \A i \in 1..Len(s) : s[i] \in S
    BY <1>2
  <2>2. s \in [1..Len(s) -> S]
    BY <1>2, <2>1
  <2> HIDE DEF S
  <2>3. s \in Seq(S)
    BY <1>2, <2>2
  <2> QED BY <2>3 DEF Listed, S
<1> QED BY <1>1, <1>2

LEMMA SeqListed ==
  ASSUME NEW S, NEW s \in Seq(S)
  PROVE  Listed(s) /\ Len(s) \in Nat /\ DOMAIN s = 1..Len(s)
<1>1. Len(s) \in Nat /\ DOMAIN s = 1..Len(s) /\ s \in [1..Len(s) -> S]
  OBVIOUS
<1>2. s = [i \in DOMAIN s |-> s[i]]
  BY <1>1
<1> QED BY <1>1, <1>2, ListedAre

LEMMA ListedJoin ==
  ASSUME NEW s, NEW t, Listed(s), Listed(t)
  PROVE  /\ Listed(s \o t) /\ Len(s \o t) = Len(s) + Len(t)
         /\ \A i \in DOMAIN (s \o t) :
              \/ i \in DOMAIN s /\ (s \o t)[i] = s[i]
              \/ i - Len(s) \in DOMAIN t /\ (s \o t)[i] = t[i - Len(s)]
<1> DEFINE S == {s[i] : i \in DOMAIN s} \cup {t[i] : i \in DOMAIN t}
<1>1. Len(s) \in Nat /\ Len(t) \in Nat /\ DOMAIN s = 1..Len(s) /\ DOMAIN t = 1..Len(t)
      /\ s = [i \in DOMAIN s |-> s[i]] /\ t = [i \in DOMAIN t |-> t[i]]
  BY ListedAre
<1>2. s \in [1..Len(s) -> S] /\ t \in [1..Len(t) -> S]
  BY <1>1
<1> HIDE DEF S
<1>3. s \in Seq(S) /\ t \in Seq(S)
  BY <1>1, <1>2
<1>4. s \o t \in Seq(S) /\ Len(s \o t) = Len(s) + Len(t)
  BY <1>3
<1>5. Listed(s \o t)
  BY <1>4, SeqListed
<1>6. DOMAIN (s \o t) = 1..(Len(s) + Len(t))
  BY <1>4
<1>7. ASSUME NEW i \in 1..(Len(s) + Len(t))
      PROVE  (s \o t)[i] = IF i <= Len(s) THEN s[i] ELSE t[i - Len(s)]
  BY <1>3, <1>7
<1> QED BY <1>1, <1>4, <1>5, <1>6, <1>7

LEMMA ListedOne ==
  ASSUME NEW c
  PROVE  Listed(<<c>>) /\ DOMAIN <<c>> = {1} /\ <<c>>[1] = c
<1>1. <<c>> \in Seq({c})
  OBVIOUS
<1>2. Listed(<<c>>)
  BY <1>1, SeqListed
<1> QED BY <1>2

LEMMA ListedNone == Listed(<<>>) /\ DOMAIN <<>> = {}
<1>1. <<>> \in Seq({})
  OBVIOUS
<1>2. Listed(<<>>)
  BY <1>1, SeqListed
<1> QED BY <1>2

\* The frames of the analysis, and the nodes they are about.
Asks == {"value", "for_each", "count", "elements", "keys", "output"}
TheResource == <<"res", "r">>

IsFrame(fr) ==
  fr \in [ask : Asks, expr : {fr.expr}, field : {fr.field}, dir : {fr.dir},
         binds : {fr.binds}, seen : {fr.seen}, visiting : {fr.visiting}]

StandsAt(dir, e, binds, nodes) ==
  \E scope : <<dir, e, scope>> \in nodes /\ scope \subseteq DOMAIN binds

Placed(fr, nodes) ==
  /\ StandsAt(fr.dir, fr.expr, fr.binds, nodes)
  /\ \A v \in DOMAIN fr.binds : StandsAt(fr.dir, fr.binds[v][2], fr.binds, nodes)

\* The call is into the configuration of the resource fr is about.
Entered(fr, c) ==
  /\ fr.expr[1] = "res" /\ fr.expr[2] \in DOMAIN Dir(fr.dir).config
  /\ c.expr = Dir(fr.dir).config[fr.expr[2]] /\ c.dir = fr.dir /\ c.binds = <<>>

\* What the calls an answer depends on have in common.
Fits(fr, c) ==
  /\ IsFrame(c)
  /\ c.dir = fr.dir \/ c.seen = {}
  /\ TheResource \in c.seen => TheResource \in fr.seen \/ Entered(fr, c)

Follows(fr, calls, nodes) ==
  /\ Listed(calls)
  /\ \A i \in DOMAIN calls : Fits(fr, calls[i]) /\ Placed(calls[i], nodes)

Caused(fr, nodes) ==
  \/ \E n \in nodes : Source(n) \/ Stray(n)
  \/ fr.expr[1] = "res" /\ TheResource \in fr.seen

Outcome(fr, o, nodes) ==
  /\ o.hit \in BOOLEAN
  /\ o.hit => Caused(fr, nodes)
  /\ ~o.hit => Follows(fr, o.then, nodes)

LEMMA AnswerOutcome ==
  ASSUME NEW fr, NEW nodes, NEW hit, hit => Caused(fr, nodes)
  PROVE  Outcome(fr, Answer(hit), nodes)
<1>1. CASE hit
  <2>1. Answer(hit) = Yes
    BY <1>1 DEF Answer
  <2>2. Caused(fr, nodes)
    BY <1>1, Zenon
  <2>3. Yes.hit = TRUE
    BY DEF Yes
  <2>4. Outcome(fr, Yes, nodes)
    BY <2>2, <2>3 DEF Outcome
  <2> QED BY <2>1, <2>4
<1>2. CASE ~hit
  <2>1. Answer(hit) = No
    BY <1>2 DEF Answer
  <2> QED BY <2>1, ListedNone DEF Outcome, No, More, Follows
<1> QED BY <1>1, <1>2

LEMMA NoOutcome ==
  ASSUME NEW fr, NEW nodes
  PROVE  Outcome(fr, No, nodes)
BY ListedNone DEF Outcome, No, More, Follows

LEMMA MoreOutcome ==
  ASSUME NEW fr, NEW nodes, NEW calls, Follows(fr, calls, nodes)
  PROVE  Outcome(fr, More(calls), nodes)
BY DEF Outcome, More

LEMMA OneFollows ==
  ASSUME NEW fr, NEW nodes, NEW c, Fits(fr, c), Placed(c, nodes)
  PROVE  Follows(fr, <<c>>, nodes)
BY ListedOne DEF Follows

LEMMA JoinFollows ==
  ASSUME NEW fr, NEW nodes, NEW s, NEW t, Follows(fr, s, nodes), Follows(fr, t, nodes)
  PROVE  Follows(fr, s \o t, nodes)
<1>1. Listed(s) /\ Listed(t)
  BY DEF Follows
<1>2. Listed(s \o t) /\ \A i \in DOMAIN (s \o t) :
        \/ i \in DOMAIN s /\ (s \o t)[i] = s[i]
        \/ i - Len(s) \in DOMAIN t /\ (s \o t)[i] = t[i - Len(s)]
  BY <1>1, ListedJoin
<1> DEFINE st == s \o t
<1> HIDE DEF st
<1>3. Listed(st) /\ \A i \in DOMAIN st :
        \/ i \in DOMAIN s /\ st[i] = s[i]
        \/ i - Len(s) \in DOMAIN t /\ st[i] = t[i - Len(s)]
  BY <1>2 DEF st
<1>4. \A i \in DOMAIN st : Fits(fr, st[i]) /\ Placed(st[i], nodes)
  BY <1>3 DEF Follows
<1> QED BY <1>3, <1>4 DEF Follows, st

LEMMA CallIs ==
  ASSUME NEW fr, IsFrame(fr), NEW ask \in Asks, NEW e
  PROVE  LET c == Call(fr, ask, e)
         IN  /\ IsFrame(c) /\ c.ask = ask /\ c.expr = e /\ c.field = None
             /\ c.dir = fr.dir /\ c.binds = fr.binds /\ c.seen = fr.seen
<1> DEFINE c == Call(fr, ask, e)
<1>1. c \in [ask : {ask}, expr : {e}, field : {None}, dir : {fr.dir},
            binds : {fr.binds}, seen : {fr.seen}, visiting : {fr.visiting}]
  BY DEF Call, IsFrame
<1> HIDE DEF c
<1>2. /\ c.ask = ask /\ c.expr = e /\ c.field = None /\ c.dir = fr.dir
      /\ c.binds = fr.binds /\ c.seen = fr.seen /\ c.visiting = fr.visiting
  BY <1>1
<1>3. IsFrame(c)
  BY <1>1, <1>2 DEF IsFrame
<1> QED BY <1>2, <1>3 DEF c

\* What is asked of fr's own surroundings.
LEMMA CallFollows ==
  ASSUME NEW fr, IsFrame(fr), NEW nodes, Placed(fr, nodes), NEW ask \in Asks, NEW e,
         StandsAt(fr.dir, e, fr.binds, nodes)
  PROVE  Fits(fr, Call(fr, ask, e)) /\ Placed(Call(fr, ask, e), nodes)
<1> DEFINE c == Call(fr, ask, e)
<1>1. /\ IsFrame(c) /\ c.ask = ask /\ c.expr = e /\ c.field = None
      /\ c.dir = fr.dir /\ c.binds = fr.binds /\ c.seen = fr.seen
  BY CallIs
<1> HIDE DEF c
<1>2. Fits(fr, c) /\ Placed(c, nodes)
  BY <1>1 DEF Fits, Placed
<1> QED BY <1>2 DEF c

LEMMA EachIs ==
  ASSUME NEW fr, NEW ask, NEW es, Listed(es)
  PROVE  /\ Listed(Each(fr, ask, es)) /\ DOMAIN Each(fr, ask, es) = DOMAIN es
         /\ \A i \in DOMAIN es : Each(fr, ask, es)[i] = Call(fr, ask, es[i])
<1> DEFINE calls == Each(fr, ask, es)
<1>1. calls = [i \in DOMAIN es |-> Call(fr, ask, es[i])]
  BY DEF Each
<1>2. Len(es) \in Nat /\ DOMAIN es = 1..Len(es)
  BY ListedAre
<1>3. DOMAIN calls = DOMAIN es /\ \A i \in DOMAIN es : calls[i] = Call(fr, ask, es[i])
  BY <1>1
<1> HIDE DEF calls
<1>4. Len(calls) = Len(es) /\ calls = [i \in DOMAIN calls |-> calls[i]]
  BY <1>1, <1>2, <1>3
<1>5. Listed(calls)
  BY <1>2, <1>3, <1>4, ListedAre
<1> QED BY <1>3, <1>5 DEF calls

LEMMA EachFollows ==
  ASSUME NEW fr, IsFrame(fr), NEW nodes, Placed(fr, nodes), NEW ask \in Asks, NEW es, Listed(es),
         \A i \in DOMAIN es : StandsAt(fr.dir, es[i], fr.binds, nodes)
  PROVE  Follows(fr, Each(fr, ask, es), nodes)
<1> DEFINE calls == Each(fr, ask, es)
<1>1. /\ Listed(calls) /\ DOMAIN calls = DOMAIN es
      /\ \A i \in DOMAIN es : calls[i] = Call(fr, ask, es[i])
  BY EachIs
<1>2. \A i \in DOMAIN es : Fits(fr, Call(fr, ask, es[i])) /\ Placed(Call(fr, ask, es[i]), nodes)
  BY CallFollows
<1> HIDE DEF calls
<1>3. Follows(fr, calls, nodes)
  BY <1>1, <1>2 DEF Follows
<1> QED BY <1>3 DEF calls

\* Expressions that stand in a closed set of nodes, and so do their parts.
AllStand(dir, es, binds, nodes) ==
  Listed(es) /\ \A i \in DOMAIN es : StandsAt(dir, es[i], binds, nodes)

LEMMA HereStand ==
  ASSUME NEW dir, NEW e, NEW scope, NEW es, Listed(es), NEW nodes,
         Here(<<dir, e, scope>>, es) \subseteq nodes, NEW binds, scope \subseteq DOMAIN binds
  PROVE  AllStand(dir, es, binds, nodes)
<1>1. \A i \in DOMAIN es : <<dir, es[i], scope>> \in nodes
  BY DEF Here
<1>2. \A i \in DOMAIN es : StandsAt(dir, es[i], binds, nodes)
  BY <1>1 DEF StandsAt
<1> QED BY <1>2 DEF AllStand

LEMMA DefinedStand ==
  ASSUME NEW dir, NEW es, Listed(es), NEW nodes, Defined(dir, es) \subseteq nodes, NEW binds
  PROVE  AllStand(dir, es, binds, nodes)
<1>1. \A i \in DOMAIN es : <<dir, es[i], {}>> \in nodes
  BY DEF Defined
<1>2. \A x : <<dir, x, {}>> \in nodes => StandsAt(dir, x, binds, nodes)
  <2> SUFFICES ASSUME NEW x, <<dir, x, {}>> \in nodes
               PROVE  \E scope : <<dir, x, scope>> \in nodes /\ scope \subseteq DOMAIN binds
    BY DEF StandsAt
  <2> WITNESS {}
  <2> QED OBVIOUS
<1> QED BY <1>1, <1>2 DEF AllStand

LEMMA OneStands ==
  ASSUME NEW dir, NEW e, NEW binds, NEW nodes, AllStand(dir, <<e>>, binds, nodes)
  PROVE  StandsAt(dir, e, binds, nodes)
<1> DEFINE es == <<e>>
<1>1. DOMAIN es = {1} /\ es[1] = e
  BY ListedOne
<1> HIDE DEF es
<1>2. AllStand(dir, es, binds, nodes)
  BY DEF es
<1> QED BY <1>1, <1>2 DEF AllStand

LEMMA ListedTwo ==
  ASSUME NEW a, NEW b
  PROVE  Listed(<<a, b>>) /\ DOMAIN <<a, b>> = {1, 2} /\ <<a, b>>[1] = a /\ <<a, b>>[2] = b
<1>1. <<a, b>> \in Seq({a, b}) /\ Len(<<a, b>>) = 2
  OBVIOUS
<1>2. Listed(<<a, b>>) /\ DOMAIN <<a, b>> = 1..2
  BY <1>1, SeqListed
<1> QED BY <1>2

LEMMA ValuesListed ==
  ASSUME NEW pairs, Listed(pairs)
  PROVE  /\ Listed(Values(pairs)) /\ DOMAIN Values(pairs) = DOMAIN pairs
         /\ \A i \in DOMAIN pairs : Values(pairs)[i] = pairs[i][2]
<1> DEFINE v == Values(pairs)
<1>1. v = [i \in DOMAIN pairs |-> pairs[i][2]]
  BY DEF Values
<1>2. Len(pairs) \in Nat /\ DOMAIN pairs = 1..Len(pairs)
  BY ListedAre
<1>3. DOMAIN v = DOMAIN pairs /\ \A i \in DOMAIN pairs : v[i] = pairs[i][2]
  BY <1>1
<1> HIDE DEF v
<1>4. Len(v) = Len(pairs) /\ v = [i \in DOMAIN v |-> v[i]]
  BY <1>1, <1>2, <1>3
<1>5. Listed(v)
  BY <1>2, <1>3, <1>4, ListedAre
<1> QED BY <1>3, <1>5 DEF v

StandingParts(dir, e, binds, nodes) ==
  /\ e[1] = "list" => AllStand(dir, e[2], binds, nodes)
  /\ e[1] = "object" => Listed(e[2]) /\ AllStand(dir, Values(e[2]), binds, nodes)
  /\ e[1] = "keyed" => AllStand(dir, <<e[2], e[3]>>, binds, nodes)
  /\ e[1] = "call" => AllStand(dir, e[3], binds, nodes)
                      /\ (e[2] \in {"same", "length"} => StandsAt(dir, e[3][1], binds, nodes))
  /\ e[1] = "for" =>
       /\ StandsAt(dir, e[4], binds, nodes)
       /\ \A b : DOMAIN binds \cup LoopVariables(e) \subseteq DOMAIN b =>
            AllStand(dir, e[5], b, nodes) /\ AllStand(dir, e[6], b, nodes)
  /\ e[1] = "template" => StandsAt(dir, e[3], binds, nodes) /\ AllStand(dir, e[4], binds, nodes)
  /\ e[1] = "local" /\ e[2] \in DOMAIN Dir(dir).locals =>
       \A b : StandsAt(dir, Dir(dir).locals[e[2]], b, nodes)
  /\ e[1] = "res" /\ e[2] \in DOMAIN Dir(dir).config =>
       \A b : AllStand(dir, <<Dir(dir).config[e[2]]>>, b, nodes)
  /\ e[1] = "data" /\ e[2] \in DOMAIN Dir(dir).data =>
       \A b : AllStand(dir, Dir(dir).data[e[2]].exprs, b, nodes)
  /\ e[1] = "module" /\ e[2] \in DOMAIN Dir(dir).calls
       /\ e[3] \in DOMAIN Dir(Dir(dir).calls[e[2]]).outputs =>
       \A b : StandsAt(Dir(dir).calls[e[2]], Dir(Dir(dir).calls[e[2]]).outputs[e[3]], b, nodes)

LEMMA PartsStand ==
  ASSUME NEW nodes, Closed(nodes), NEW dir, NEW e, NEW binds, StandsAt(dir, e, binds, nodes)
  PROVE  StandingParts(dir, e, binds, nodes)
<1>1. PICK scope : <<dir, e, scope>> \in nodes /\ scope \subseteq DOMAIN binds
  BY DEF StandsAt
<1> DEFINE n == <<dir, e, scope>>
<1>2. WellFormed(n) /\ Parts(n) \subseteq nodes
  BY <1>1 DEF Closed
<1>3. n[1] = dir /\ n[2] = e /\ n[3] = scope
  OBVIOUS
<1>4. \A es : Listed(es) /\ Here(n, es) \subseteq nodes => AllStand(dir, es, binds, nodes)
  BY <1>1, HereStand
<1>5. \A d, es, b : Listed(es) /\ Defined(d, es) \subseteq nodes => AllStand(d, es, b, nodes)
  BY DefinedStand
<1>6. \A x, b, d : AllStand(d, <<x>>, b, nodes) => StandsAt(d, x, b, nodes)
  BY OneStands
<1>7. ASSUME NEW x PROVE Listed(<<x>>)
  BY ListedOne
<1> HIDE DEF n
<1>8. e[1] = "list" => AllStand(dir, e[2], binds, nodes)
  <2> SUFFICES ASSUME e[1] = "list" PROVE AllStand(dir, e[2], binds, nodes)
    OBVIOUS
  <2>1. Listed(e[2])
    BY <1>2, <1>3 DEF WellFormed
  <2>2. Here(n, e[2]) \subseteq nodes
    BY <1>2, <1>3 DEF Parts
  <2> QED BY <1>4, <2>1, <2>2
<1>9. e[1] = "object" => Listed(e[2]) /\ AllStand(dir, Values(e[2]), binds, nodes)
  <2> SUFFICES ASSUME e[1] = "object" PROVE Listed(e[2]) /\ AllStand(dir, Values(e[2]), binds, nodes)
    OBVIOUS
  <2>1. Listed(e[2])
    BY <1>2, <1>3 DEF WellFormed
  <2>2. Here(n, Values(e[2])) \subseteq nodes
    BY <1>2, <1>3 DEF Parts
  <2>3. Listed(Values(e[2]))
    BY <2>1, ValuesListed
  <2> QED BY <1>4, <2>1, <2>2, <2>3
<1>10. e[1] = "keyed" => AllStand(dir, <<e[2], e[3]>>, binds, nodes)
  <2> SUFFICES ASSUME e[1] = "keyed" PROVE AllStand(dir, <<e[2], e[3]>>, binds, nodes)
    OBVIOUS
  <2>2. Here(n, <<e[2], e[3]>>) \subseteq nodes
    BY <1>2, <1>3 DEF Parts
  <2>3. Listed(<<e[2], e[3]>>)
    BY ListedTwo
  <2> QED BY <1>4, <2>2, <2>3
<1>11. e[1] = "call" => AllStand(dir, e[3], binds, nodes)
                      /\ (e[2] \in {"same", "length"} => StandsAt(dir, e[3][1], binds, nodes))
  <2> SUFFICES ASSUME e[1] = "call"
               PROVE  AllStand(dir, e[3], binds, nodes)
                      /\ (e[2] \in {"same", "length"} => StandsAt(dir, e[3][1], binds, nodes))
    OBVIOUS
  <2>1. Listed(e[3]) /\ (e[2] \in {"same", "length"} => e[3] # <<>>)
    BY <1>2, <1>3 DEF WellFormed
  <2>2. Here(n, e[3]) \subseteq nodes
    BY <1>2, <1>3 DEF Parts
  <2>3. AllStand(dir, e[3], binds, nodes)
    BY <1>4, <2>1, <2>2
  <2>4. ASSUME e[2] \in {"same", "length"} PROVE 1 \in DOMAIN e[3]
    <3>1. e[3] # <<>> /\ e[3] \in Seq({e[3][i] : i \in DOMAIN e[3]})
      BY <2>1, <2>4 DEF Listed
    <3>2. \A S, s : s \in Seq(S) /\ s # <<>> => 1 \in DOMAIN s
      OBVIOUS
    <3> QED BY <3>1, <3>2
  <2> QED BY <2>3, <2>4 DEF AllStand
<1>12. e[1] = "for" =>
       /\ StandsAt(dir, e[4], binds, nodes)
       /\ \A b : DOMAIN binds \cup LoopVariables(e) \subseteq DOMAIN b =>
            AllStand(dir, e[5], b, nodes) /\ AllStand(dir, e[6], b, nodes)
  <2> SUFFICES ASSUME e[1] = "for"
               PROVE  /\ StandsAt(dir, e[4], binds, nodes)
                      /\ \A b : DOMAIN binds \cup LoopVariables(e) \subseteq DOMAIN b =>
                           AllStand(dir, e[5], b, nodes) /\ AllStand(dir, e[6], b, nodes)
    OBVIOUS
  <2> DEFINE wide == scope \cup LoopVariables(e)
  <2>1. Listed(e[5]) /\ Listed(e[6])
    BY <1>2, <1>3 DEF WellFormed
  <2>2. Parts(n) = Here(n, <<e[4]>>) \cup Here(<<dir, e, wide>>, e[5]) \cup Here(<<dir, e, wide>>, e[6])
    BY <1>3 DEF Parts
  <2> HIDE DEF wide
  <2>3. /\ Here(n, <<e[4]>>) \subseteq nodes
        /\ Here(<<dir, e, wide>>, e[5]) \subseteq nodes
        /\ Here(<<dir, e, wide>>, e[6]) \subseteq nodes
    BY <1>2, <2>2
  <2>4. StandsAt(dir, e[4], binds, nodes)
    BY <1>4, <1>6, <1>7, <2>3
  <2>5. ASSUME NEW b, DOMAIN binds \cup LoopVariables(e) \subseteq DOMAIN b
        PROVE  AllStand(dir, e[5], b, nodes) /\ AllStand(dir, e[6], b, nodes)
    <3>1. wide \subseteq DOMAIN b
      BY <1>1, <2>5 DEF wide
    <3> QED BY <2>1, <2>3, <3>1, HereStand
  <2> QED BY <2>4, <2>5
<1>13. e[1] = "template" => StandsAt(dir, e[3], binds, nodes) /\ AllStand(dir, e[4], binds, nodes)
  <2> SUFFICES ASSUME e[1] = "template"
               PROVE  StandsAt(dir, e[3], binds, nodes) /\ AllStand(dir, e[4], binds, nodes)
    OBVIOUS
  <2>1. Listed(e[4])
    BY <1>2, <1>3 DEF WellFormed
  <2>2. Here(n, <<e[3]>>) \subseteq nodes /\ Here(n, e[4]) \subseteq nodes
    BY <1>2, <1>3 DEF Parts
  <2> QED BY <1>4, <1>6, <1>7, <2>1, <2>2
<1>14. e[1] = "local" /\ e[2] \in DOMAIN Dir(dir).locals =>
       \A b : StandsAt(dir, Dir(dir).locals[e[2]], b, nodes)
  <2> SUFFICES ASSUME e[1] = "local", e[2] \in DOMAIN Dir(dir).locals
               PROVE  \A b : StandsAt(dir, Dir(dir).locals[e[2]], b, nodes)
    OBVIOUS
  <2>2. Defined(dir, <<Dir(dir).locals[e[2]]>>) \subseteq nodes
    BY <1>2, <1>3 DEF Parts
  <2> QED BY <1>5, <1>6, <1>7, <2>2
<1>15. e[1] = "res" /\ e[2] \in DOMAIN Dir(dir).config =>
       \A b : AllStand(dir, <<Dir(dir).config[e[2]]>>, b, nodes)
  <2> SUFFICES ASSUME e[1] = "res", e[2] \in DOMAIN Dir(dir).config
               PROVE  \A b : AllStand(dir, <<Dir(dir).config[e[2]]>>, b, nodes)
    OBVIOUS
  <2>2. Defined(dir, <<Dir(dir).config[e[2]]>>) \subseteq nodes
    BY <1>2, <1>3 DEF Parts
  <2> QED BY <1>5, <1>7, <2>2
<1>16. e[1] = "data" /\ e[2] \in DOMAIN Dir(dir).data =>
       \A b : AllStand(dir, Dir(dir).data[e[2]].exprs, b, nodes)
  <2> SUFFICES ASSUME e[1] = "data", e[2] \in DOMAIN Dir(dir).data
               PROVE  \A b : AllStand(dir, Dir(dir).data[e[2]].exprs, b, nodes)
    OBVIOUS
  <2>1. Listed(Dir(dir).data[e[2]].exprs)
    BY <1>2, <1>3 DEF WellFormed
  <2>2. Defined(dir, Dir(dir).data[e[2]].exprs) \subseteq nodes
    BY <1>2, <1>3 DEF Parts
  <2> QED BY <1>5, <2>1, <2>2
<1>17. e[1] = "module" /\ e[2] \in DOMAIN Dir(dir).calls
         /\ e[3] \in DOMAIN Dir(Dir(dir).calls[e[2]]).outputs =>
       \A b : StandsAt(Dir(dir).calls[e[2]], Dir(Dir(dir).calls[e[2]]).outputs[e[3]], b, nodes)
  <2> DEFINE child == Dir(dir).calls[e[2]]
  <2> SUFFICES ASSUME e[1] = "module", e[2] \in DOMAIN Dir(dir).calls,
                      e[3] \in DOMAIN Dir(child).outputs
               PROVE  \A b : StandsAt(child, Dir(child).outputs[e[3]], b, nodes)
    OBVIOUS
  <2>2. Defined(child, <<Dir(child).outputs[e[3]]>>) \subseteq nodes
    BY <1>2, <1>3 DEF Parts
  <2> QED BY <1>5, <1>6, <1>7, <2>2
<1> QED BY <1>8, <1>9, <1>10, <1>11, <1>12, <1>13, <1>14, <1>15, <1>16, <1>17
        DEF StandingParts

\* Frames that go on from fr in the module it is about, with other bindings or
\* more seen, but not the resource.
LEMMA LoopIs ==
  ASSUME NEW fr, IsFrame(fr), NEW nodes, Closed(nodes), Placed(fr, nodes), fr.expr[1] = "for"
  PROVE  LET c == Loop(fr)
         IN  /\ IsFrame(c) /\ Placed(c, nodes)
             /\ c.dir = fr.dir /\ c.expr = fr.expr /\ c.seen = fr.seen
             /\ DOMAIN fr.binds \cup LoopVariables(fr.expr) \subseteq DOMAIN c.binds
<1> DEFINE e == fr.expr
           value == e[2]
           key == e[3]
           bound == [v \in {value} |-> <<"value", e[4]>>]
           both == IF key = None THEN bound
                   ELSE [v \in {value, key} |-> IF v = key THEN <<"key", e[4]>> ELSE bound[value]]
           binds == [v \in DOMAIN both \cup DOMAIN fr.binds |->
                       IF v \in DOMAIN both THEN both[v] ELSE fr.binds[v]]
           c == [fr EXCEPT !.binds = binds]
<1>1. Loop(fr) = c
  BY DEF Loop
<1>2. \A v \in DOMAIN both : both[v][2] = e[4]
  <2>1. \A v \in {value} : bound[v][2] = e[4]
    OBVIOUS
  <2>2. CASE key = None
    BY <2>1, <2>2
  <2>3. CASE key # None
    BY <2>3
  <2> QED BY <2>2, <2>3
<1>3. LoopVariables(e) \subseteq DOMAIN both
  BY DEF LoopVariables
<1> HIDE DEF both
<1>4. /\ DOMAIN binds = DOMAIN both \cup DOMAIN fr.binds
      /\ \A v \in DOMAIN both : binds[v] = both[v]
      /\ \A v \in DOMAIN fr.binds \ DOMAIN both : binds[v] = fr.binds[v]
  OBVIOUS
<1> HIDE DEF binds
<1>5. c \in [ask : Asks, expr : {fr.expr}, field : {fr.field}, dir : {fr.dir},
            binds : {binds}, seen : {fr.seen}, visiting : {fr.visiting}]
  BY DEF IsFrame
<1> HIDE DEF c
<1>6. /\ c.expr = fr.expr /\ c.field = fr.field /\ c.dir = fr.dir
      /\ c.binds = binds /\ c.seen = fr.seen /\ c.visiting = fr.visiting
  BY <1>5
<1>7. IsFrame(c)
  BY <1>5, <1>6 DEF IsFrame
<1> HIDE DEF e, value, key
<1>8. StandsAt(fr.dir, e[4], fr.binds, nodes)
  <2>1. StandingParts(fr.dir, fr.expr, fr.binds, nodes)
    BY PartsStand DEF Placed
  <2> QED BY <2>1 DEF StandingParts, e
<1>9. \A x : StandsAt(fr.dir, x, fr.binds, nodes) => StandsAt(fr.dir, x, binds, nodes)
  BY <1>4 DEF StandsAt
<1>10. StandsAt(fr.dir, fr.expr, binds, nodes)
  BY <1>9 DEF Placed
<1>11. \A v \in DOMAIN binds : StandsAt(fr.dir, binds[v][2], binds, nodes)
  BY <1>2, <1>4, <1>8, <1>9 DEF Placed
<1>12. Placed(c, nodes)
  BY <1>6, <1>10, <1>11 DEF Placed
<1>13. DOMAIN fr.binds \cup LoopVariables(fr.expr) \subseteq DOMAIN c.binds
  BY <1>3, <1>4, <1>6 DEF e
<1> QED BY <1>1, <1>6, <1>7, <1>12, <1>13 DEF e

\* What holds of a frame holds of one that differs in its bindings or field.
LEMMA FollowsOn ==
  ASSUME NEW fr, NEW g, g.dir = fr.dir, g.seen = fr.seen, g.expr = fr.expr,
         NEW calls, NEW nodes, Follows(g, calls, nodes)
  PROVE  Follows(fr, calls, nodes)
<1>1. \A c : Fits(g, c) => Fits(fr, c)
  BY DEF Fits, Entered
<1> QED BY <1>1 DEF Follows

LEMMA OutcomeOn ==
  ASSUME NEW fr, NEW g, g.dir = fr.dir, g.seen = fr.seen, g.expr = fr.expr,
         NEW o, NEW nodes, Outcome(g, o, nodes)
  PROVE  Outcome(fr, o, nodes)
<1>1. Follows(g, o.then, nodes) => Follows(fr, o.then, nodes)
  BY FollowsOn
<1>2. Caused(g, nodes) => Caused(fr, nodes)
  BY DEF Caused
<1> QED BY <1>1, <1>2 DEF Outcome

\* The same call about another expression or field.
LEMMA NextFollows ==
  ASSUME NEW fr, IsFrame(fr), NEW nodes, Placed(fr, nodes), NEW e, StandsAt(fr.dir, e, fr.binds, nodes),
         NEW field, NEW c, c \in [ask : Asks, expr : {e}, field : {field}, dir : {fr.dir},
                                binds : {fr.binds}, seen : {fr.seen}, visiting : {fr.visiting}]
  PROVE  Fits(fr, c) /\ Placed(c, nodes)
<1>1. /\ c.expr = e /\ c.field = field /\ c.dir = fr.dir /\ c.binds = fr.binds
      /\ c.seen = fr.seen /\ c.visiting = fr.visiting
  OBVIOUS
<1>2. IsFrame(c)
  BY <1>1 DEF IsFrame
<1> QED BY <1>1, <1>2 DEF Fits, Placed

LEMMA FollowOutcome ==
  ASSUME NEW fr, IsFrame(fr), NEW nodes, Closed(nodes), Placed(fr, nodes),
         fr.expr[1] = "local", NEW ask \in Asks
  PROVE  Outcome(fr, Follow(fr, ask, fr.expr[2]), nodes)
<1> DEFINE name == fr.expr[2]
           def == Dir(fr.dir).locals[name]
           c == [Call(fr, ask, def) EXCEPT !.seen = @ \cup {<<"local", name>>}, !.field = fr.field]
<1>1. CASE name \notin DOMAIN Dir(fr.dir).locals \/ <<"local", name>> \in fr.seen
  <2>1. Follow(fr, ask, name) = No
    BY <1>1 DEF Follow
  <2> QED BY <2>1, NoOutcome
<1>2. CASE ~(name \notin DOMAIN Dir(fr.dir).locals \/ <<"local", name>> \in fr.seen)
  <2>1. Follow(fr, ask, name) = More(<<c>>)
    BY <1>2 DEF Follow
  <2>2. StandsAt(fr.dir, def, fr.binds, nodes)
    <3>1. StandingParts(fr.dir, fr.expr, fr.binds, nodes)
      BY PartsStand DEF Placed
    <3> QED BY <1>2, <3>1 DEF StandingParts
  <2> HIDE DEF def
  <2>3. c \in [ask : Asks, expr : {def}, field : {fr.field}, dir : {fr.dir}, binds : {fr.binds},
              seen : {fr.seen \cup {<<"local", name>>}}, visiting : {fr.visiting}]
    BY DEF Call, IsFrame
  <2> HIDE DEF c
  <2>4. /\ c.expr = def /\ c.field = fr.field /\ c.dir = fr.dir /\ c.binds = fr.binds
        /\ c.seen = fr.seen \cup {<<"local", name>>} /\ c.visiting = fr.visiting
    BY <2>3
  <2>5. IsFrame(c)
    BY <2>3, <2>4 DEF IsFrame
  <2>6. TheResource \in c.seen => TheResource \in fr.seen
    BY <2>4 DEF TheResource
  <2>7. Fits(fr, c)
    BY <2>4, <2>5, <2>6 DEF Fits
  <2>8. Placed(c, nodes)
    BY <2>2, <2>4 DEF Placed
  <2>9. Follows(fr, <<c>>, nodes)
    BY <2>7, <2>8, OneFollows
  <2> QED BY <2>1, <2>9, MoreOutcome
<1> QED BY <1>1, <1>2

LEMMA FlattenFollows ==
  ASSUME NEW fr, NEW nodes, NEW seqs, Listed(seqs),
         \A i \in DOMAIN seqs : Follows(fr, seqs[i], nodes)
  PROVE  Follows(fr, FlattenSeq(seqs), nodes)
<1>1. Len(seqs) \in Nat /\ DOMAIN seqs = 1..Len(seqs)
  BY ListedAre
<1>2. CASE Len(seqs) = 0
  <2>1. FlattenSeq(seqs) = seqs
    BY <1>2 DEF FlattenSeq
  <2> QED BY <1>1, <1>2, <2>1 DEF Follows
<1>3. CASE Len(seqs) # 0
  <2> DEFINE what == <<"flatten", seqs>>
             N == Len(seqs)
             g == CHOOSE f : f = [x \in 1..N |-> StepOf(what, x, f)]
             L == [n \in 0..(N - 1) |-> 1..(n + 1)]
  <2>1. \A x, f : StepOf(what, x, f) = IF x = 1 THEN seqs[x] ELSE f[x - 1] \o seqs[x]
    BY DEF StepOf
  <2>2. FlattenSeq(seqs) = g[N]
    <3>1. FlattenSeq(seqs)
            = (CHOOSE f : f = [x \in 1..N |-> IF x = 1 THEN seqs[x] ELSE f[x - 1] \o seqs[x]])[N]
      BY <1>3 DEF FlattenSeq
    <3>2. \A f : [x \in 1..N |-> IF x = 1 THEN seqs[x] ELSE f[x - 1] \o seqs[x]]
                 = [x \in 1..N |-> StepOf(what, x, f)]
      BY <2>1
    <3> QED BY <3>1, <3>2
  <2>3. N - 1 \in Nat /\ N \in Nat
    BY <1>1, <1>3
  <2> HIDE DEF what, N
  <2>15. /\ \A f : StepOf(what, 1, f) = seqs[1]
         /\ \A x \in 2..N : \A f : StepOf(what, x, f) = f[x - 1] \o seqs[x]
    <3>1. \A x : x # 1 => \A f : StepOf(what, x, f) = f[x - 1] \o seqs[x]
      BY <2>1
    <3>2. \A x \in 2..N : x # 1
      BY <2>3
    <3>3. \A f : StepOf(what, 1, f) = seqs[1]
      BY <2>1
    <3> QED BY <3>1, <3>2, <3>3
  <2>4. \A n \in 0..(N - 1) : L[n] = 1..(n + 1)
    OBVIOUS
  <2> HIDE DEF L
  <2>5. LooksBelow(what, N - 1, L)
    <3>1. \A n \in 1..(N - 1) : \A x \in L[n - 1] : x \in L[n]
      BY <2>3, <2>4
    <3>2. \A f, h : \A x \in L[0] : StepOf(what, x, f) = StepOf(what, x, h)
      <4>1. \A x \in L[0] : x = 1
        BY <2>3, <2>4
      <4> QED BY <2>15, <4>1
    <3>3. ASSUME NEW n \in 1..(N - 1), NEW f, NEW h, \A y \in L[n - 1] : f[y] = h[y], NEW x \in L[n]
          PROVE  StepOf(what, x, f) = StepOf(what, x, h)
      <4>1. x = 1 \/ (x \in 2..N /\ x - 1 \in L[n - 1])
        BY <2>3, <2>4
      <4>2. CASE x = 1
        BY <2>15, <4>2
      <4>3. CASE x \in 2..N /\ x - 1 \in L[n - 1]
        <5>1. f[x - 1] = h[x - 1]
          BY <3>3, <4>3
        <5> QED BY <2>15, <4>3, <5>1
      <4> QED BY <4>1, <4>2, <4>3
    <3> QED BY <3>1, <3>2, <3>3 DEF LooksBelow
  <2>6. \E f : f = [x \in L[N - 1] |-> StepOf(what, x, f)]
    BY <2>3, <2>5, Recursion
  <2>7. L[N - 1] = 1..N
    BY <2>3, <2>4
  <2>8. g = [x \in 1..N |-> StepOf(what, x, g)]
    BY <2>6, <2>7
  <2> HIDE DEF g
  <2>9. g[1] = seqs[1] /\ \A x \in 2..N : g[x] = g[x - 1] \o seqs[x]
    <3>1. 1 \in 1..N /\ \A x \in 2..N : x \in 1..N
      BY <2>3
    <3>2. \A x \in 1..N : g[x] = StepOf(what, x, g)
      BY <2>8
    <3> QED BY <2>15, <3>1, <3>2
  <2> DEFINE G == {n \in 0..(N - 1) : Follows(fr, g[n + 1], nodes)}
  <2>10. 0 \in G
    BY <1>1, <2>3, <2>9 DEF N
  <2>11. ASSUME NEW n \in 1..(N - 1), n - 1 \in G PROVE n \in G
    <3>1. n + 1 \in 2..N /\ n + 1 - 1 = n /\ n - 1 + 1 = n
      BY <2>3
    <3>6. \A m \in 2..N : g[m] = g[m - 1] \o seqs[m]
      BY <2>9
    <3>2. g[n + 1] = g[n] \o seqs[n + 1]
      <4> DEFINE m == n + 1
      <4>1. m \in 2..N /\ m - 1 = n
        BY <3>1
      <4> HIDE DEF m
      <4>2. g[m] = g[n] \o seqs[m]
        BY <3>6, <4>1
      <4> QED BY <4>2 DEF m
    <3>3. Follows(fr, g[n], nodes)
      BY <2>11, <3>1
    <3>4. Follows(fr, seqs[n + 1], nodes)
      BY <1>1, <2>3, <3>1 DEF N
    <3>5. Follows(fr, g[n + 1], nodes)
      BY <3>2, <3>3, <3>4, JoinFollows
    <3> QED BY <2>3, <3>5
  <2> HIDE DEF G
  <2>12. \A n \in 0..(N - 1) : n \in G
    BY <2>3, <2>10, <2>11, CountedUp
  <2>13. N - 1 \in G /\ N - 1 + 1 = N
    BY <2>3, <2>12
  <2>14. Follows(fr, g[N], nodes)
    BY <2>13 DEF G
  <2> QED BY <2>2, <2>14
<1> QED BY <1>2, <1>3

\* Calls into the block a resource or a data source is configured by.
LEMMA EnterFollows ==
  ASSUME NEW fr, IsFrame(fr), NEW nodes, NEW key, NEW es, AllStand(fr.dir, es, <<>>, nodes),
         key = TheResource =>
           /\ fr.expr[1] = "res" /\ fr.expr[2] \in DOMAIN Dir(fr.dir).config
           /\ \A i \in DOMAIN es : es[i] = Dir(fr.dir).config[fr.expr[2]]
  PROVE  Follows(fr, Enter(fr, key, es), nodes)
<1> DEFINE g == [fr EXCEPT !.seen = @ \cup {key}, !.binds = <<>>]
           calls == Each(g, "value", es)
<1>1. Enter(fr, key, es) = calls
  BY DEF Enter
<1>2. g \in [ask : Asks, expr : {fr.expr}, field : {fr.field}, dir : {fr.dir},
            binds : {<<>>}, seen : {fr.seen \cup {key}}, visiting : {fr.visiting}]
  BY DEF IsFrame
<1> HIDE DEF g
<1>3. /\ g.expr = fr.expr /\ g.field = fr.field /\ g.dir = fr.dir
      /\ g.binds = <<>> /\ g.seen = fr.seen \cup {key} /\ g.visiting = fr.visiting
  BY <1>2
<1>4. IsFrame(g)
  BY <1>2, <1>3 DEF IsFrame
<1>5. Listed(es)
  BY DEF AllStand
<1>6. /\ Listed(calls) /\ DOMAIN calls = DOMAIN es
      /\ \A i \in DOMAIN es : calls[i] = Call(g, "value", es[i])
  BY <1>5, EachIs
<1> HIDE DEF calls
<1>7. ASSUME NEW i \in DOMAIN es PROVE Fits(fr, calls[i]) /\ Placed(calls[i], nodes)
  <2> DEFINE c == calls[i]
  <2>1. c = Call(g, "value", es[i]) /\ "value" \in Asks
    BY <1>6 DEF Asks
  <2>2. /\ IsFrame(c) /\ c.expr = es[i]
        /\ c.dir = fr.dir /\ c.binds = <<>> /\ c.seen = fr.seen \cup {key}
    BY <1>3, <1>4, <2>1, CallIs
  <2> HIDE DEF c
  <2>3. TheResource \in c.seen => TheResource \in fr.seen \/ Entered(fr, c)
    BY <2>2 DEF Entered
  <2>4. Fits(fr, c)
    BY <2>2, <2>3 DEF Fits
  <2>5. StandsAt(c.dir, c.expr, c.binds, nodes)
    BY <2>2 DEF AllStand
  <2>6. DOMAIN c.binds = {}
    BY <2>2, ListedNone
  <2>7. Placed(c, nodes)
    BY <2>5, <2>6 DEF Placed
  <2> QED BY <2>4, <2>7 DEF c
<1>8. Follows(fr, calls, nodes)
  BY <1>6, <1>7 DEF Follows
<1> QED BY <1>1, <1>8

LEMMA ResourceOutcome ==
  ASSUME NEW fr, IsFrame(fr), NEW nodes, Closed(nodes), Placed(fr, nodes),
         NEW attr, NEW field, fr.expr[1] = "res", attr = fr.expr[2]
  PROVE  Outcome(fr, Resource(fr, attr, field), nodes)
<1> DEFINE key == <<"res", "r">>
           config == Dir(fr.dir).config
<1>1. PICK scope : <<fr.dir, fr.expr, scope>> \in nodes
  BY DEF Placed, StandsAt
<1> DEFINE n == <<fr.dir, fr.expr, scope>>
<1>2. n \in nodes /\ n[1] = fr.dir /\ n[2] = fr.expr
  BY <1>1
<1> HIDE DEF n
<1>3. CASE field # None /\ attr \in DOMAIN PlanKnown
  <2>1. Resource(fr, attr, field) = Answer(field \notin PlanKnown[attr])
    BY <1>3 DEF Resource
  <2>2. Source(n)
    BY <1>2, <1>3 DEF Source
  <2>3. Caused(fr, nodes)
    BY <1>2, <2>2 DEF Caused
  <2> QED BY <2>1, <2>3, AnswerOutcome
<1>4. CASE ~(field # None /\ attr \in DOMAIN PlanKnown) /\ key \in fr.seen
  <2>1. Resource(fr, attr, field) = Answer(TRUE)
    BY <1>4 DEF Resource, Answer
  <2>2. Caused(fr, nodes)
    BY <1>4 DEF Caused, TheResource
  <2> QED BY <2>1, <2>2, AnswerOutcome
<1>5. CASE ~(field # None /\ attr \in DOMAIN PlanKnown) /\ key \notin fr.seen /\ attr \in DOMAIN config
  <2>1. Resource(fr, attr, field) = More(Enter(fr, key, <<config[attr]>>))
    BY <1>5 DEF Resource
  <2>2. AllStand(fr.dir, <<config[attr]>>, <<>>, nodes)
    <3>1. StandingParts(fr.dir, fr.expr, fr.binds, nodes)
      BY PartsStand DEF Placed
    <3> QED BY <1>5, <3>1 DEF StandingParts
  <2> DEFINE es == <<config[attr]>>
  <2>3. DOMAIN es = {1} /\ es[1] = config[attr]
    BY ListedOne
  <2> HIDE DEF es
  <2>4. AllStand(fr.dir, es, <<>>, nodes)
    BY <2>2 DEF es
  <2>5. Follows(fr, Enter(fr, key, es), nodes)
    BY <1>5, <2>3, <2>4, EnterFollows
  <2> QED BY <2>1, <2>5, MoreOutcome DEF es
<1>6. CASE ~(field # None /\ attr \in DOMAIN PlanKnown) /\ key \notin fr.seen /\ attr \notin DOMAIN config
  <2>1. Resource(fr, attr, field) = Answer(attr \notin Optional)
    BY <1>6 DEF Resource
  <2>2. attr \notin Optional => Source(n)
    BY <1>2, <1>6 DEF Source
  <2>3. attr \notin Optional => Caused(fr, nodes)
    BY <1>2, <2>2 DEF Caused
  <2> QED BY <2>1, <2>3, AnswerOutcome
<1> QED BY <1>3, <1>4, <1>5, <1>6

LEMMA DataOutcome ==
  ASSUME NEW fr, IsFrame(fr), NEW nodes, Closed(nodes), Placed(fr, nodes), fr.expr[1] = "data"
  PROVE  Outcome(fr, Data(fr, fr.expr[2]), nodes)
<1> DEFINE name == fr.expr[2]
           key == <<"data", name>>
           data == Dir(fr.dir).data
<1>1. CASE key \in fr.seen \/ name \notin DOMAIN data
  <2>1. Data(fr, name) = No
    BY <1>1 DEF Data
  <2> QED BY <2>1, NoOutcome
<1>2. CASE ~(key \in fr.seen \/ name \notin DOMAIN data) /\ data[name].deferred
  <2>1. PICK scope : <<fr.dir, fr.expr, scope>> \in nodes
    BY DEF Placed, StandsAt
  <2> DEFINE n == <<fr.dir, fr.expr, scope>>
  <2>2. n \in nodes /\ n[1] = fr.dir /\ n[2] = fr.expr
    BY <2>1
  <2> HIDE DEF n
  <2>3. Source(n)
    BY <1>2, <2>2 DEF Source
  <2>4. Caused(fr, nodes)
    BY <2>2, <2>3 DEF Caused
  <2>5. Data(fr, name) = Answer(TRUE)
    BY <1>2 DEF Data, Answer
  <2> QED BY <2>4, <2>5, AnswerOutcome
<1>3. CASE ~(key \in fr.seen \/ name \notin DOMAIN data) /\ ~data[name].deferred
  <2>1. Data(fr, name) = More(Enter(fr, key, data[name].exprs))
    BY <1>3 DEF Data
  <2>2. AllStand(fr.dir, data[name].exprs, <<>>, nodes)
    <3>1. StandingParts(fr.dir, fr.expr, fr.binds, nodes)
      BY PartsStand DEF Placed
    <3> QED BY <1>3, <3>1 DEF StandingParts
  <2>3. key # TheResource
    BY DEF TheResource
  <2> HIDE DEF key
  <2>4. Follows(fr, Enter(fr, key, data[name].exprs), nodes)
    BY <2>2, <2>3, EnterFollows
  <2> QED BY <2>1, <2>4, MoreOutcome
<1> QED BY <1>1, <1>2, <1>3

LEMMA OutputOutcome ==
  ASSUME NEW fr, IsFrame(fr), NEW nodes, Closed(nodes), Placed(fr, nodes), fr.expr[1] = "module",
         NEW field
  PROVE  Outcome(fr, Output(fr, fr.expr[2], fr.expr[3], field), nodes)
<1> DEFINE label == fr.expr[2]
           output == fr.expr[3]
           child == Dir(fr.dir).calls[label]
           def == Dir(child).outputs[output]
           c == [ask |-> "output", expr |-> def, field |-> field, dir |-> child, binds |-> <<>>,
                 seen |-> {}, visiting |-> fr.visiting \cup {child}]
           none == \/ label \notin DOMAIN Dir(fr.dir).calls
                   \/ child \in fr.visiting
                   \/ output \notin DOMAIN Dir(child).outputs
<1>1. CASE none
  <2>1. Output(fr, label, output, field) = No
    BY <1>1 DEF Output
  <2> QED BY <2>1, NoOutcome
<1>2. CASE ~none
  <2>1. Output(fr, label, output, field) = More(<<c>>)
    BY <1>2 DEF Output
  <2>2. StandsAt(child, def, <<>>, nodes)
    <3>1. StandingParts(fr.dir, fr.expr, fr.binds, nodes)
      BY PartsStand DEF Placed
    <3> QED BY <1>2, <3>1 DEF StandingParts
  <2> HIDE DEF def, child
  <2>3. /\ c.expr = def /\ c.dir = child /\ c.binds = <<>> /\ c.seen = {}
        /\ c \in [ask : Asks, expr : {def}, field : {c.field}, dir : {child},
                 binds : {<<>>}, seen : {{}}, visiting : {c.visiting}]
    BY DEF Asks
  <2> HIDE DEF c
  <2>4. IsFrame(c)
    BY <2>3 DEF IsFrame
  <2>5. Fits(fr, c)
    BY <2>3, <2>4 DEF Fits
  <2>6. DOMAIN c.binds = {}
    BY <2>3, ListedNone
  <2>7. Placed(c, nodes)
    BY <2>2, <2>3, <2>6 DEF Placed
  <2>8. Follows(fr, <<c>>, nodes)
    BY <2>5, <2>7, OneFollows
  <2> QED BY <2>1, <2>8, MoreOutcome
<1> QED BY <1>1, <1>2

LEMMA BoundOutcome ==
  ASSUME NEW fr, IsFrame(fr), NEW nodes, Placed(fr, nodes), NEW v \in DOMAIN fr.binds, NEW field
  PROVE  Outcome(fr, Bound(fr, v, field), nodes)
<1> DEFINE bind == fr.binds[v]
           ask == IF bind[1] = "key" THEN "keys" ELSE "elements"
           c == [Call(fr, ask, bind[2]) EXCEPT !.field = field]
<1>1. Bound(fr, v, field) = More(<<c>>)
  BY DEF Bound
<1>2. ask \in Asks
  BY DEF Asks
<1>3. StandsAt(fr.dir, bind[2], fr.binds, nodes)
  BY DEF Placed
<1> HIDE DEF bind, ask
<1>4. c \in [ask : Asks, expr : {bind[2]}, field : {field}, dir : {fr.dir},
            binds : {fr.binds}, seen : {fr.seen}, visiting : {fr.visiting}]
  BY <1>2 DEF Call, IsFrame
<1> HIDE DEF c
<1>5. Fits(fr, c) /\ Placed(c, nodes)
  BY <1>3, <1>4, NextFollows
<1>6. Follows(fr, <<c>>, nodes)
  BY <1>5, OneFollows
<1> QED BY <1>1, <1>6, MoreOutcome

\* One call, or none.
LEMMA NoneFollows ==
  ASSUME NEW fr, NEW nodes
  PROVE  Follows(fr, <<>>, nodes)
BY ListedNone DEF Follows

LEMMA AskedFollows ==
  ASSUME NEW fr, IsFrame(fr), NEW nodes, Placed(fr, nodes), NEW ask \in Asks, NEW e,
         StandsAt(fr.dir, e, fr.binds, nodes)
  PROVE  Follows(fr, <<Call(fr, ask, e)>>, nodes)
BY CallFollows, OneFollows

LEMMA GetFollows ==
  ASSUME NEW fr, IsFrame(fr), NEW nodes, Closed(nodes), Placed(fr, nodes), NEW e, e[1] = "object",
         StandsAt(fr.dir, e, fr.binds, nodes), NEW field
  PROVE  Follows(fr, Get(fr, e, field), nodes)
<1> DEFINE I == {i \in 1..Len(e[2]) : e[2][i][1] = field}
           at == SelectInSeq(e[2], LAMBDA pair : pair[1] = field)
<1>1. at = IF I # {} THEN Min(I) ELSE 0
  BY DEF SelectInSeq
<1>2. Listed(e[2]) /\ AllStand(fr.dir, Values(e[2]), fr.binds, nodes)
  <2>1. StandingParts(fr.dir, e, fr.binds, nodes)
    BY PartsStand
  <2> QED BY <2>1 DEF StandingParts
<1>3. Len(e[2]) \in Nat /\ DOMAIN e[2] = 1..Len(e[2])
  BY <1>2, ListedAre
<1>4. CASE at = 0
  <2>1. Get(fr, e, field) = <<>>
    BY <1>4 DEF Get
  <2> QED BY <2>1, NoneFollows
<1>5. CASE at # 0
  <2>1. I # {} /\ at = Min(I)
    BY <1>1, <1>5
  <2>2. Min(I) \in I
    <3>1. \A y \in I : y \in Nat
      BY <1>3
    <3> HIDE DEF I
    <3>2. \E x \in I : \A y \in I : x <= y
      BY <2>1, <3>1, LeastOf
    <3> QED BY <3>2 DEF Min
  <2>3. at \in DOMAIN e[2]
    BY <1>3, <2>1, <2>2
  <2>4. Get(fr, e, field) = <<Call(fr, "value", e[2][at][2])>>
    BY <1>5 DEF Get
  <2> HIDE DEF at
  <2>5. StandsAt(fr.dir, e[2][at][2], fr.binds, nodes)
    BY <1>2, <2>3, ValuesListed DEF AllStand
  <2>6. "value" \in Asks
    BY DEF Asks
  <2>7. Follows(fr, <<Call(fr, "value", e[2][at][2])>>, nodes)
    BY <2>5, <2>6, AskedFollows
  <2> QED BY <2>4, <2>7
<1> QED BY <1>4, <1>5

LEMMA FieldFollows ==
  ASSUME NEW fr, IsFrame(fr), NEW nodes, Closed(nodes), Placed(fr, nodes), NEW e,
         StandsAt(fr.dir, e, fr.binds, nodes), NEW field
  PROVE  Follows(fr, ElementField(fr, e, field), nodes)
<1>1. CASE field = None \/ e[1] \notin {"object", "keyed"}
  <2>1. ElementField(fr, e, field) = <<Call(fr, "value", e)>> /\ "value" \in Asks
    BY <1>1 DEF ElementField, Asks
  <2> QED BY <2>1, AskedFollows
<1>2. CASE ~(field = None \/ e[1] \notin {"object", "keyed"}) /\ e[1] = "object"
  <2>1. ElementField(fr, e, field) = Get(fr, e, field)
    BY <1>2 DEF ElementField
  <2> QED BY <1>2, <2>1, GetFollows
<1>3. CASE ~(field = None \/ e[1] \notin {"object", "keyed"}) /\ e[1] # "object"
  <2>1. ElementField(fr, e, field) = <<>>
    BY <1>3 DEF ElementField
  <2> QED BY <2>1, NoneFollows
<1> QED BY <1>1, <1>2, <1>3

LEMMA FieldsFollow ==
  ASSUME NEW fr, IsFrame(fr), NEW nodes, Closed(nodes), Placed(fr, nodes), NEW es,
         AllStand(fr.dir, es, fr.binds, nodes), NEW field
  PROVE  Follows(fr, FlattenSeq([i \in DOMAIN es |-> ElementField(fr, es[i], field)]), nodes)
<1> DEFINE seqs == [i \in DOMAIN es |-> ElementField(fr, es[i], field)]
<1>1. Listed(es)
  BY DEF AllStand
<1>2. Len(es) \in Nat /\ DOMAIN es = 1..Len(es)
  BY <1>1, ListedAre
<1>3. DOMAIN seqs = DOMAIN es /\ \A i \in DOMAIN es : seqs[i] = ElementField(fr, es[i], field)
  OBVIOUS
<1>4. seqs = [i \in DOMAIN es |-> ElementField(fr, es[i], field)]
  OBVIOUS
<1> HIDE DEF seqs
<1>5. Len(seqs) = Len(es) /\ seqs = [i \in DOMAIN seqs |-> seqs[i]]
  BY <1>2, <1>3, <1>4
<1>6. Listed(seqs)
  BY <1>2, <1>3, <1>5, ListedAre
<1>7. \A i \in DOMAIN es : StandsAt(fr.dir, es[i], fr.binds, nodes)
  BY DEF AllStand
<1>8. \A i \in DOMAIN seqs : Follows(fr, seqs[i], nodes)
  BY <1>3, <1>7, FieldFollows
<1>9. Follows(fr, FlattenSeq(seqs), nodes)
  BY <1>6, <1>8, FlattenFollows
<1> QED BY <1>9 DEF seqs

(* Every question a frame can ask depends on calls that stand in the same  *)
(* closed sets, and answers yes for a cause in them.                       *)
Parted(fr, nodes) ==
  /\ IsFrame(fr) /\ Placed(fr, nodes)
  /\ StandsAt(fr.dir, fr.expr, fr.binds, nodes)
  /\ StandingParts(fr.dir, fr.expr, fr.binds, nodes)
  /\ \A ask \in Asks : \A es : AllStand(fr.dir, es, fr.binds, nodes) => Follows(fr, Each(fr, ask, es), nodes)
  /\ \A ask \in Asks : \A e : StandsAt(fr.dir, e, fr.binds, nodes) =>
       Follows(fr, <<Call(fr, ask, e)>>, nodes) /\ Outcome(fr, More(<<Call(fr, ask, e)>>), nodes)
  /\ \A calls : Follows(fr, calls, nodes) => Outcome(fr, More(calls), nodes)

LEMMA FrameParted ==
  ASSUME NEW fr, IsFrame(fr), NEW nodes, Closed(nodes), Placed(fr, nodes)
  PROVE  Parted(fr, nodes)
<1>1. StandsAt(fr.dir, fr.expr, fr.binds, nodes)
  BY DEF Placed
<1>2. StandingParts(fr.dir, fr.expr, fr.binds, nodes)
  BY <1>1, PartsStand
<1>3. ASSUME NEW ask \in Asks, NEW es, AllStand(fr.dir, es, fr.binds, nodes)
      PROVE  Follows(fr, Each(fr, ask, es), nodes)
  BY <1>3, EachFollows DEF AllStand
<1>4. \A calls : Follows(fr, calls, nodes) => Outcome(fr, More(calls), nodes)
  BY MoreOutcome
<1>5. ASSUME NEW ask \in Asks, NEW e, StandsAt(fr.dir, e, fr.binds, nodes)
      PROVE  Follows(fr, <<Call(fr, ask, e)>>, nodes) /\ Outcome(fr, More(<<Call(fr, ask, e)>>), nodes)
  BY <1>4, <1>5, AskedFollows
<1> QED BY <1>1, <1>2, <1>3, <1>4, <1>5 DEF Parted

\* A reference is a cause where it is one.
LEMMA CausedHere ==
  ASSUME NEW fr, NEW nodes, Placed(fr, nodes),
         \A n : n[1] = fr.dir /\ n[2] = fr.expr /\ n[3] \subseteq DOMAIN fr.binds => Source(n) \/ Stray(n)
  PROVE  Caused(fr, nodes)
<1>1. PICK scope : <<fr.dir, fr.expr, scope>> \in nodes /\ scope \subseteq DOMAIN fr.binds
  BY DEF Placed, StandsAt
<1> DEFINE n == <<fr.dir, fr.expr, scope>>
<1>2. n \in nodes /\ n[1] = fr.dir /\ n[2] = fr.expr /\ n[3] \subseteq DOMAIN fr.binds
  BY <1>1
<1> HIDE DEF n
<1> QED BY <1>2 DEF Caused

LEMMA JoinStand ==
  ASSUME NEW dir, NEW s, NEW t, NEW binds, NEW nodes,
         AllStand(dir, s, binds, nodes), AllStand(dir, t, binds, nodes)
  PROVE  AllStand(dir, s \o t, binds, nodes)
<1>1. Listed(s) /\ Listed(t)
  BY DEF AllStand
<1> DEFINE st == s \o t
<1>2. Listed(st) /\ \A i \in DOMAIN st :
        \/ i \in DOMAIN s /\ st[i] = s[i]
        \/ i - Len(s) \in DOMAIN t /\ st[i] = t[i - Len(s)]
  BY <1>1, ListedJoin
<1> HIDE DEF st
<1>3. AllStand(dir, st, binds, nodes)
  BY <1>2 DEF AllStand
<1> QED BY <1>3 DEF st

LEMMA StandsOne ==
  ASSUME NEW dir, NEW e, NEW binds, NEW nodes, StandsAt(dir, e, binds, nodes)
  PROVE  AllStand(dir, <<e>>, binds, nodes)
<1> DEFINE es == <<e>>
<1>1. Listed(es) /\ DOMAIN es = {1} /\ es[1] = e
  BY ListedOne
<1> HIDE DEF es
<1>2. AllStand(dir, es, binds, nodes)
  BY <1>1 DEF AllStand
<1> QED BY <1>2 DEF es

\* Calls inside a comprehension.
LEMMA LoopFollows ==
  ASSUME NEW fr, IsFrame(fr), NEW nodes, Closed(nodes), Placed(fr, nodes), fr.expr[1] = "for"
  PROVE  /\ Follows(fr, Each(Loop(fr), "value", fr.expr[5]), nodes)
         /\ Follows(fr, Each(Loop(fr), "value", fr.expr[6] \o fr.expr[5]), nodes)
<1> DEFINE g == Loop(fr)
<1>1. /\ IsFrame(g) /\ Placed(g, nodes)
      /\ g.dir = fr.dir /\ g.expr = fr.expr /\ g.seen = fr.seen
      /\ DOMAIN fr.binds \cup LoopVariables(fr.expr) \subseteq DOMAIN g.binds
  BY LoopIs
<1> HIDE DEF g
<1>2. AllStand(fr.dir, fr.expr[5], g.binds, nodes) /\ AllStand(fr.dir, fr.expr[6], g.binds, nodes)
  <2>1. StandingParts(fr.dir, fr.expr, fr.binds, nodes)
    BY PartsStand DEF Placed
  <2> QED BY <1>1, <2>1 DEF StandingParts
<1>3. AllStand(fr.dir, fr.expr[6] \o fr.expr[5], g.binds, nodes)
  BY <1>2, JoinStand
<1>4. ASSUME NEW es, AllStand(fr.dir, es, g.binds, nodes)
      PROVE  Follows(fr, Each(g, "value", es), nodes)
  <2>1. "value" \in Asks /\ Listed(es) /\ \A i \in DOMAIN es : StandsAt(g.dir, es[i], g.binds, nodes)
    BY <1>1, <1>4 DEF Asks, AllStand
  <2>2. Follows(g, Each(g, "value", es), nodes)
    BY <1>1, <2>1, EachFollows
  <2> QED BY <1>1, <2>2, FollowsOn
<1> QED BY <1>2, <1>3, <1>4 DEF g

ExpressionForms == {"known", "list", "object", "keyed", "call", "for", "template", "use", "local", "var",
          "data", "module", "res"}

LEMMA FormsAre ==
  ASSUME NEW fr, NEW nodes, Closed(nodes), Placed(fr, nodes)
  PROVE  fr.expr[1] \in ExpressionForms
<1>1. PICK scope : <<fr.dir, fr.expr, scope>> \in nodes
  BY DEF Placed, StandsAt
<1> DEFINE n == <<fr.dir, fr.expr, scope>>
<1>2. n \in nodes /\ n[2] = fr.expr
  BY <1>1
<1> HIDE DEF n
<1>3. WellFormed(n)
  BY <1>2 DEF Closed
<1> QED BY <1>2, <1>3 DEF WellFormed, ExpressionForms

LEMMA ValueOutcome ==
  ASSUME NEW fr, IsFrame(fr), NEW nodes, Closed(nodes), Placed(fr, nodes)
  PROVE  Outcome(fr, Value(fr), nodes)
<1> DEFINE e == fr.expr
<1>1. Parted(fr, nodes) /\ e[1] \in ExpressionForms /\ "value" \in Asks
  BY FrameParted, FormsAre DEF Asks
<1>2. CASE e[1] = "known"
  <2>1. Value(fr) = No
    BY <1>2 DEF Value
  <2> QED BY <2>1, NoOutcome
<1>3. CASE e[1] = "list"
  <2>1. Value(fr) = More(Each(fr, "value", e[2]))
    BY <1>3 DEF Value
  <2> QED BY <1>1, <1>3, <2>1 DEF Parted, StandingParts
<1>4. CASE e[1] = "object"
  <2>1. Value(fr) = More(Each(fr, "value", Values(e[2])))
    BY <1>4 DEF Value
  <2> QED BY <1>1, <1>4, <2>1 DEF Parted, StandingParts
<1>5. CASE e[1] = "keyed"
  <2>1. Value(fr) = More(Each(fr, "value", <<e[2], e[3]>>))
    BY <1>5 DEF Value
  <2> QED BY <1>1, <1>5, <2>1 DEF Parted, StandingParts
<1>6. CASE e[1] = "call"
  <2>1. Value(fr) = More(Each(fr, "value", e[3]))
    BY <1>6 DEF Value
  <2> QED BY <1>1, <1>6, <2>1 DEF Parted, StandingParts
<1>7. CASE e[1] = "for"
  <2>1. Value(fr) = More(<<Call(fr, "value", e[4])>> \o Each(Loop(fr), "value", e[6] \o e[5]))
    BY <1>7 DEF Value
  <2>2. Follows(fr, Each(Loop(fr), "value", e[6] \o e[5]), nodes)
    BY <1>7, LoopFollows
  <2>3. Follows(fr, <<Call(fr, "value", e[4])>>, nodes)
    BY <1>1, <1>7 DEF Parted, StandingParts
  <2>4. Follows(fr, <<Call(fr, "value", e[4])>> \o Each(Loop(fr), "value", e[6] \o e[5]), nodes)
    BY <2>2, <2>3, JoinFollows
  <2> QED BY <2>1, <2>4, MoreOutcome
<1>8. CASE e[1] = "template"
  <2>1. Value(fr) = More(Each(fr, "value", <<e[3]>> \o e[4]))
    BY <1>8 DEF Value
  <2>2. StandsAt(fr.dir, e[3], fr.binds, nodes) /\ AllStand(fr.dir, e[4], fr.binds, nodes)
    BY <1>1, <1>8 DEF Parted, StandingParts
  <2>3. AllStand(fr.dir, <<e[3]>>, fr.binds, nodes)
    BY <2>2, StandsOne
  <2>4. AllStand(fr.dir, <<e[3]>> \o e[4], fr.binds, nodes)
    BY <2>2, <2>3, JoinStand
  <2> QED BY <1>1, <2>1, <2>4 DEF Parted
<1>9. CASE e[1] = "use" /\ e[2] \in DOMAIN fr.binds
  <2>1. Value(fr) = Bound(fr, e[2], e[3])
    BY <1>9 DEF Value
  <2> QED BY <1>9, <2>1, BoundOutcome
<1>10. CASE e[1] = "use" /\ e[2] \notin DOMAIN fr.binds
  <2>1. Value(fr) = Answer(e[3] # None)
    BY <1>10 DEF Value
  <2>2. e[3] # None => Caused(fr, nodes)
    <3> SUFFICES ASSUME e[3] # None PROVE Caused(fr, nodes)
      OBVIOUS
    <3>1. \A n : n[1] = fr.dir /\ n[2] = fr.expr /\ n[3] \subseteq DOMAIN fr.binds => Stray(n)
      BY <1>10 DEF Stray
    <3> QED BY <3>1, CausedHere
  <2> QED BY <2>1, <2>2, AnswerOutcome
<1>11. CASE e[1] = "local"
  <2> DEFINE g == [fr EXCEPT !.field = None]
  <2>1. Value(fr) = Follow(g, "value", e[2])
    BY <1>11 DEF Value
  <2>2. g \in [ask : Asks, expr : {fr.expr}, field : {None}, dir : {fr.dir},
              binds : {fr.binds}, seen : {fr.seen}, visiting : {fr.visiting}]
    BY DEF IsFrame
  <2> HIDE DEF g
  <2>3. /\ g.expr = fr.expr /\ g.field = None /\ g.dir = fr.dir /\ g.binds = fr.binds
        /\ g.seen = fr.seen /\ g.visiting = fr.visiting
    BY <2>2
  <2>4. IsFrame(g) /\ Placed(g, nodes)
    BY <2>2, <2>3 DEF IsFrame, Placed
  <2>5. Outcome(g, Follow(g, "value", g.expr[2]), nodes)
    BY <1>1, <1>11, <2>3, <2>4, FollowOutcome
  <2> QED BY <2>1, <2>3, <2>5, OutcomeOn
<1>12. CASE e[1] = "var"
  <2> DEFINE hit == Dir(fr.dir).vars[e[2]].value
  <2>1. Value(fr) = Answer(hit)
    BY <1>12 DEF Value
  <2>2. hit => Caused(fr, nodes)
    <3> SUFFICES ASSUME hit PROVE Caused(fr, nodes)
      OBVIOUS
    <3>1. \A n : n[1] = fr.dir /\ n[2] = fr.expr /\ n[3] \subseteq DOMAIN fr.binds => Source(n)
      BY <1>12 DEF Source
    <3> QED BY <3>1, CausedHere
  <2> HIDE DEF hit
  <2> QED BY <2>1, <2>2, AnswerOutcome
<1>13. CASE e[1] = "data"
  <2>1. Value(fr) = Data(fr, e[2])
    BY <1>13 DEF Value
  <2> QED BY <1>13, <2>1, DataOutcome
<1>14. CASE e[1] = "module"
  <2>1. Value(fr) = Output(fr, e[2], e[3], e[4])
    BY <1>14 DEF Value
  <2> QED BY <1>14, <2>1, OutputOutcome
<1>15. CASE e[1] = "res"
  <2>1. Value(fr) = Resource(fr, e[2], e[3])
    BY <1>15 DEF Value
  <2> QED BY <1>15, <2>1, ResourceOutcome
<1> QED BY <1>1, <1>2, <1>3, <1>4, <1>5, <1>6, <1>7, <1>8, <1>9, <1>10, <1>11, <1>12, <1>13,
           <1>14, <1>15 DEF ExpressionForms

LEMMA MembershipOutcome ==
  ASSUME NEW fr, IsFrame(fr), NEW nodes, Closed(nodes), Placed(fr, nodes)
  PROVE  Outcome(fr, Membership(fr), nodes)
<1> DEFINE e == fr.expr
           length == e[1] = "call" /\ fr.ask = "count" /\ e[2] = "length"
           passing == e[1] = "call" /\ e[2] \in {"same", "build"}
<1>1. Parted(fr, nodes) /\ {"value", "for_each"} \subseteq Asks /\ fr.ask \in Asks
  BY FrameParted DEF Asks, IsFrame
<1>2. CASE length
  <2>1. Membership(fr) = IF IsListed(e[3][1]) THEN No ELSE More(<<Call(fr, "for_each", e[3][1])>>)
    BY <1>2 DEF Membership
  <2>2. Outcome(fr, More(<<Call(fr, "for_each", e[3][1])>>), nodes)
    BY <1>1, <1>2 DEF Parted, StandingParts
  <2> QED BY <2>1, <2>2, NoOutcome
<1>3. CASE passing
  <2>1. Membership(fr) = More(Each(fr, fr.ask, e[3]))
    BY <1>3 DEF Membership
  <2> QED BY <1>1, <1>3, <2>1 DEF Parted, StandingParts
<1>4. CASE e[1] = "for"
  <2>1. Membership(fr) = More(Each(Loop(fr), "value", e[5]))
    BY <1>4 DEF Membership
  <2> QED BY <1>4, <2>1, LoopFollows, MoreOutcome
<1>5. CASE e[1] = "list"
  <2>1. Membership(fr) = More(Each(fr, "value", e[2]))
    BY <1>5 DEF Membership
  <2> QED BY <1>1, <1>5, <2>1 DEF Parted, StandingParts
<1>6. CASE e[1] = "object"
  <2>1. Membership(fr) = No
    BY <1>6 DEF Membership
  <2> QED BY <2>1, NoOutcome
<1>7. CASE e[1] = "keyed"
  <2>1. Membership(fr) = More(<<Call(fr, "value", e[2])>>)
    BY <1>7 DEF Membership
  <2>2. StandsAt(fr.dir, e[2], fr.binds, nodes)
    <3> DEFINE es == <<e[2], e[3]>>
    <3>1. DOMAIN es = {1, 2} /\ es[1] = e[2]
      BY ListedTwo
    <3>2. AllStand(fr.dir, es, fr.binds, nodes)
      BY <1>1, <1>7 DEF Parted, StandingParts
    <3> HIDE DEF es
    <3> QED BY <3>1, <3>2 DEF AllStand
  <2> QED BY <1>1, <2>1, <2>2 DEF Parted
<1>8. CASE e[1] = "local"
  <2>1. Membership(fr) = Follow(fr, fr.ask, e[2])
    BY <1>8 DEF Membership
  <2> QED BY <1>1, <1>8, <2>1, FollowOutcome
<1>9. CASE e[1] = "var"
  <2> DEFINE hit == Dir(fr.dir).vars[e[2]].membership
  <2>1. Membership(fr) = Answer(hit)
    BY <1>9 DEF Membership
  <2>2. hit => Caused(fr, nodes)
    <3> SUFFICES ASSUME hit PROVE Caused(fr, nodes)
      OBVIOUS
    <3>1. \A n : n[1] = fr.dir /\ n[2] = fr.expr /\ n[3] \subseteq DOMAIN fr.binds => Source(n)
      BY <1>9 DEF Source
    <3> QED BY <3>1, CausedHere
  <2> HIDE DEF hit
  <2> QED BY <2>1, <2>2, AnswerOutcome
<1>10. CASE ~length /\ ~passing /\ e[1] \notin {"for", "list", "object", "keyed", "local", "var"}
  <2>1. Membership(fr) = More(<<Call(fr, "value", e)>>)
    BY <1>10 DEF Membership
  <2> QED BY <1>1, <2>1 DEF Parted
<1> QED BY <1>2, <1>3, <1>4, <1>5, <1>6, <1>7, <1>8, <1>9, <1>10

\* The question handed on to what a function returns as it is.
LEMMA SameOutcome ==
  ASSUME NEW fr, IsFrame(fr), NEW nodes, Closed(nodes), Placed(fr, nodes),
         fr.expr[1] = "call", fr.expr[2] = "same"
  PROVE  Outcome(fr, More(<<[fr EXCEPT !.expr = fr.expr[3][1]]>>), nodes)
<1> DEFINE part == fr.expr[3][1]
           c == [fr EXCEPT !.expr = part]
<1>1. StandsAt(fr.dir, part, fr.binds, nodes)
  BY FrameParted DEF Parted, StandingParts
<1> HIDE DEF part
<1>2. c \in [ask : Asks, expr : {part}, field : {fr.field}, dir : {fr.dir},
            binds : {fr.binds}, seen : {fr.seen}, visiting : {fr.visiting}]
  BY DEF IsFrame
<1> HIDE DEF c
<1>3. Fits(fr, c) /\ Placed(c, nodes)
  BY <1>1, <1>2, NextFollows
<1>4. Outcome(fr, More(<<c>>), nodes)
  BY <1>3, OneFollows, MoreOutcome
<1> QED BY <1>4 DEF c, part

LEMMA ElementsOutcome ==
  ASSUME NEW fr, IsFrame(fr), NEW nodes, Closed(nodes), Placed(fr, nodes)
  PROVE  Outcome(fr, Elements(fr), nodes)
<1> DEFINE e == fr.expr
           fields(es) == FlattenSeq([i \in DOMAIN es |-> ElementField(fr, es[i], fr.field)])
<1>1. Parted(fr, nodes) /\ {"value", "elements"} \subseteq Asks
  BY FrameParted DEF Asks
<1>2. \A es : AllStand(fr.dir, es, fr.binds, nodes) => Outcome(fr, More(fields(es)), nodes)
  BY FieldsFollow, MoreOutcome
<1> HIDE DEF fields
<1>3. CASE e[1] = "local"
  <2>1. Elements(fr) = Follow(fr, "elements", e[2])
    BY <1>3 DEF Elements, IsListed
  <2> QED BY <1>1, <1>3, <2>1, FollowOutcome
<1>4. CASE e[1] = "call" /\ e[2] = "same"
  <2>1. Elements(fr) = More(<<[fr EXCEPT !.expr = e[3][1]]>>)
    BY <1>4 DEF Elements, IsListed
  <2> QED BY <1>4, <2>1, SameOutcome
<1>5. CASE e[1] = "object"
  <2>1. Elements(fr) = More(fields(Values(e[2])))
    BY <1>5 DEF Elements, IsListed, fields
  <2> QED BY <1>1, <1>2, <1>5, <2>1 DEF Parted, StandingParts
<1>6. CASE e[1] = "keyed"
  <2>1. Elements(fr) = More(fields(<<e[3]>>))
    BY <1>6 DEF Elements, IsListed, fields
  <2>2. StandsAt(fr.dir, e[3], fr.binds, nodes)
    <3> DEFINE es == <<e[2], e[3]>>
    <3>1. DOMAIN es = {1, 2} /\ es[2] = e[3]
      BY ListedTwo
    <3>2. AllStand(fr.dir, es, fr.binds, nodes)
      BY <1>1, <1>6 DEF Parted, StandingParts
    <3> HIDE DEF es
    <3> QED BY <3>1, <3>2 DEF AllStand
  <2>3. AllStand(fr.dir, <<e[3]>>, fr.binds, nodes)
    BY <2>2, StandsOne
  <2> QED BY <1>2, <2>1, <2>3
<1>7. CASE e[1] = "list"
  <2>1. Elements(fr) = More(fields(e[2]))
    BY <1>7 DEF Elements, IsListed, fields
  <2> QED BY <1>1, <1>2, <1>7, <2>1 DEF Parted, StandingParts
<1>8. CASE IsListed(e)
  <2> DEFINE hit == fr.field = None \/ fr.field \notin PlanKnown[e[2]]
  <2>1. Elements(fr) = Answer(hit)
    BY <1>8 DEF Elements, IsListed
  <2>2. \A n : n[1] = fr.dir /\ n[2] = fr.expr /\ n[3] \subseteq DOMAIN fr.binds => Source(n)
    BY <1>8 DEF Source, IsListed
  <2>3. Caused(fr, nodes)
    BY <2>2, CausedHere
  <2> HIDE DEF hit
  <2> QED BY <2>1, <2>3, AnswerOutcome
<1>9. CASE /\ e[1] \notin {"local", "object", "keyed", "list"} /\ ~(e[1] = "call" /\ e[2] = "same")
           /\ ~IsListed(e)
  <2>1. Elements(fr) = More(<<Call(fr, "value", e)>>)
    BY <1>9 DEF Elements
  <2> QED BY <1>1, <2>1 DEF Parted
<1> QED BY <1>3, <1>4, <1>5, <1>6, <1>7, <1>8, <1>9

LEMMA KeysOutcome ==
  ASSUME NEW fr, IsFrame(fr), NEW nodes, Closed(nodes), Placed(fr, nodes)
  PROVE  Outcome(fr, Keys(fr), nodes)
<1> DEFINE e == fr.expr
<1>1. Parted(fr, nodes) /\ {"value", "keys"} \subseteq Asks
  BY FrameParted DEF Asks
<1>2. CASE e[1] = "local"
  <2>1. Keys(fr) = Follow(fr, "keys", e[2])
    BY <1>2 DEF Keys
  <2> QED BY <1>1, <1>2, <2>1, FollowOutcome
<1>3. CASE e[1] = "call" /\ e[2] = "same"
  <2>1. Keys(fr) = More(<<[fr EXCEPT !.expr = e[3][1]]>>)
    BY <1>3 DEF Keys
  <2> QED BY <1>3, <2>1, SameOutcome
<1>4. CASE e[1] \in {"object", "keyed"}
  <2>1. Keys(fr) = No
    BY <1>4 DEF Keys
  <2> QED BY <2>1, NoOutcome
<1>5. CASE e[1] = "list"
  <2>1. Keys(fr) = More(Each(fr, "value", e[2]))
    BY <1>5 DEF Keys
  <2> QED BY <1>1, <1>5, <2>1 DEF Parted, StandingParts
<1>6. CASE e[1] = "var"
  <2> DEFINE hit == Dir(fr.dir).vars[e[2]].membership
  <2>1. Keys(fr) = Answer(hit)
    BY <1>6 DEF Keys
  <2>2. hit => Caused(fr, nodes)
    <3> SUFFICES ASSUME hit PROVE Caused(fr, nodes)
      OBVIOUS
    <3>1. \A n : n[1] = fr.dir /\ n[2] = fr.expr /\ n[3] \subseteq DOMAIN fr.binds => Source(n)
      BY <1>6 DEF Source
    <3> QED BY <3>1, CausedHere
  <2> HIDE DEF hit
  <2> QED BY <2>1, <2>2, AnswerOutcome
<1>7. CASE e[1] \notin {"local", "object", "keyed", "list", "var"} /\ ~(e[1] = "call" /\ e[2] = "same")
  <2>1. Keys(fr) = More(<<Call(fr, "value", e)>>)
    BY <1>7 DEF Keys
  <2> QED BY <1>1, <2>1 DEF Parted
<1> QED BY <1>2, <1>3, <1>4, <1>5, <1>6, <1>7

LEMMA OutputFieldOutcome ==
  ASSUME NEW fr, IsFrame(fr), NEW nodes, Closed(nodes), Placed(fr, nodes)
  PROVE  Outcome(fr, OutputField(fr), nodes)
<1>1. Parted(fr, nodes) /\ "value" \in Asks
  BY FrameParted DEF Asks
<1>2. CASE fr.field # None /\ fr.expr[1] = "object"
  <2>1. OutputField(fr) = More(Get(fr, fr.expr, fr.field))
    BY <1>2 DEF OutputField
  <2> QED BY <1>1, <1>2, <2>1, GetFollows DEF Parted
<1>3. CASE fr.field # None /\ fr.expr[1] = "keyed"
  <2>1. OutputField(fr) = No
    BY <1>3 DEF OutputField
  <2> QED BY <2>1, NoOutcome
<1>4. CASE ~(fr.field # None /\ fr.expr[1] \in {"object", "keyed"})
  <2>1. OutputField(fr) = More(<<Call(fr, "value", fr.expr)>>)
    BY <1>4 DEF OutputField
  <2> QED BY <1>1, <2>1 DEF Parted
<1> QED BY <1>2, <1>3, <1>4

LEMMA ExpandOutcome ==
  ASSUME NEW fr, IsFrame(fr), NEW nodes, Closed(nodes), Placed(fr, nodes)
  PROVE  Outcome(fr, Expand(fr), nodes)
<1>1. fr.ask \in Asks
  BY DEF IsFrame
<1>2. CASE fr.ask = "value"
  BY <1>2, ValueOutcome DEF Expand
<1>3. CASE fr.ask \in {"for_each", "count"}
  BY <1>3, MembershipOutcome DEF Expand
<1>4. CASE fr.ask = "elements"
  BY <1>4, ElementsOutcome DEF Expand
<1>5. CASE fr.ask = "keys"
  BY <1>5, KeysOutcome DEF Expand
<1>6. CASE fr.ask = "output"
  BY <1>6, OutputFieldOutcome DEF Expand
<1> QED BY <1>1, <1>2, <1>3, <1>4, <1>5, <1>6 DEF Asks

HasCause(nodes) == \E n \in nodes : Source(n) \/ Stray(n) \/ Circular(n)

\* A frame stands in the closed set.  One that comes out of the resource's
\* configuration stands in every closed set that holds the parts of a node
\* which reads that configuration.
StaysWithin(m, fr) == \A nodes : Closed(nodes) /\ Parts(m) \subseteq nodes => Placed(fr, nodes)

GoodFrame(fr, nodes) ==
  /\ IsFrame(fr) /\ Placed(fr, nodes)
  /\ TheResource \in fr.seen => \E m \in nodes : Configured(m) /\ m[1] = fr.dir /\ StaysWithin(m, fr)

OnTheWay(nodes) ==
  /\ verdict = "yes" => HasCause(nodes)
  /\ verdict = "open" => /\ frames # <<>> /\ Listed(frames)
                         /\ \A i \in DOMAIN frames : GoodFrame(frames[i], nodes)

AnalysisInv == \A nodes : Query \in nodes /\ Closed(nodes) => OnTheWay(nodes)

LEMMA AnalysisStarts ==
  ASSUME UnknownInit
  PROVE  AnalysisInv
<1> SUFFICES ASSUME NEW nodes, Query \in nodes, Closed(nodes) PROVE OnTheWay(nodes)
  BY DEF AnalysisInv
<1> DEFINE fr == [ask |-> program.ask, expr |-> program.expr, field |-> None,
                  dir |-> "root", binds |-> <<>>, seen |-> {}, visiting |-> {}]
<1>1. frames = <<fr>> /\ verdict = "open" /\ program.ask \in Asks
  BY ProgramsAssumption DEF UnknownInit, Asks
<1>2. /\ fr.expr = program.expr /\ fr.dir = "root" /\ fr.binds = <<>> /\ fr.seen = {}
      /\ fr \in [ask : Asks, expr : {program.expr}, field : {fr.field}, dir : {"root"},
                binds : {<<>>}, seen : {{}}, visiting : {fr.visiting}]
  BY <1>1
<1> HIDE DEF fr
<1>3. IsFrame(fr)
  BY <1>2 DEF IsFrame
<1>4. StandsAt("root", program.expr, <<>>, nodes)
  <2> SUFFICES \E scope : <<"root", program.expr, scope>> \in nodes /\ scope \subseteq DOMAIN <<>>
    BY DEF StandsAt
  <2> WITNESS {}
  <2> QED BY DEF Query
<1>5. DOMAIN fr.binds = {}
  BY <1>2, ListedNone
<1>6. Placed(fr, nodes)
  BY <1>2, <1>4, <1>5 DEF Placed
<1>7. GoodFrame(fr, nodes)
  BY <1>2, <1>3, <1>6 DEF GoodFrame
<1>8. Listed(frames) /\ DOMAIN frames = {1} /\ frames[1] = fr
  <2> HIDE <1>1
  <2> DEFINE one == <<fr>>
  <2>1. Listed(one) /\ DOMAIN one = {1} /\ one[1] = fr
    BY ListedOne
  <2>2. frames = one
    BY <1>1
  <2> HIDE DEF one
  <2> QED BY <2>1, <2>2
<1>9. frames # <<>>
  BY <1>8, ListedNone
<1> QED BY <1>1, <1>7, <1>8, <1>9 DEF OnTheWay

\* The answer yes has a cause.
LEMMA CauseOfHit ==
  ASSUME NEW nodes, Closed(nodes), NEW fr, GoodFrame(fr, nodes), Caused(fr, nodes)
  PROVE  HasCause(nodes)
<1>1. CASE \E n \in nodes : Source(n) \/ Stray(n)
  BY <1>1 DEF HasCause
<1>2. CASE fr.expr[1] = "res" /\ TheResource \in fr.seen
  <2>1. PICK m \in nodes : Configured(m) /\ m[1] = fr.dir /\ StaysWithin(m, fr)
    BY <1>2 DEF GoodFrame
  <2>2. ASSUME NEW D, Closed(D), Parts(m) \subseteq D
        PROVE  \E n \in D : SameResource(m, n)
    <3>1. Placed(fr, D)
      BY <2>1, <2>2 DEF StaysWithin
    <3>2. PICK scope : <<fr.dir, fr.expr, scope>> \in D
      BY <3>1 DEF Placed, StandsAt
    <3> DEFINE n == <<fr.dir, fr.expr, scope>>
    <3>3. n \in D /\ n[1] = fr.dir /\ n[2] = fr.expr
      BY <3>2
    <3> HIDE DEF n
    <3>4. SameResource(m, n)
      BY <1>2, <2>1, <3>3 DEF SameResource
    <3> QED BY <3>3, <3>4
  <2>3. Circular(m)
    BY <2>1, <2>2 DEF Circular
  <2> QED BY <2>3 DEF HasCause
<1> QED BY <1>1, <1>2 DEF Caused

\* So are the calls a good frame leads to.
LEMMA GoodGoesOn ==
  ASSUME NEW nodes, Closed(nodes), NEW fr, GoodFrame(fr, nodes), ~Expand(fr).hit,
         NEW i \in DOMAIN Expand(fr).then
  PROVE  GoodFrame(Expand(fr).then[i], nodes)
<1> DEFINE c == Expand(fr).then[i]
<1>1. ASSUME NEW D, Closed(D), Placed(fr, D) PROVE Fits(fr, c) /\ Placed(c, D)
  <2>1. IsFrame(fr)
    BY DEF GoodFrame
  <2>2. Outcome(fr, Expand(fr), D)
    BY <1>1, <2>1, ExpandOutcome
  <2> QED BY <2>2 DEF Outcome, Follows
<1>2. Fits(fr, c) /\ Placed(c, nodes)
  BY <1>1 DEF GoodFrame
<1> HIDE DEF c
<1>3. ASSUME TheResource \in c.seen
      PROVE  \E m \in nodes : Configured(m) /\ m[1] = c.dir /\ StaysWithin(m, c)
  <2>1. c.dir = fr.dir
    BY <1>2, <1>3 DEF Fits
  <2>2. CASE TheResource \in fr.seen
    <3>1. PICK m \in nodes : Configured(m) /\ m[1] = fr.dir /\ StaysWithin(m, fr)
      BY <2>2 DEF GoodFrame
    <3>2. StaysWithin(m, c)
      BY <1>1, <3>1 DEF StaysWithin
    <3> QED BY <2>1, <3>1, <3>2
  <2>3. CASE Entered(fr, c)
    <3>1. PICK scope : <<fr.dir, fr.expr, scope>> \in nodes
      BY DEF GoodFrame, Placed, StandsAt
    <3> DEFINE m == <<fr.dir, fr.expr, scope>>
    <3>2. m \in nodes /\ m[1] = fr.dir /\ m[2] = fr.expr
      BY <3>1
    <3> HIDE DEF m
    <3>3. Configured(m)
      BY <2>3, <3>2 DEF Configured, Entered
    <3>4. ASSUME NEW D, Closed(D), Parts(m) \subseteq D PROVE Placed(c, D)
      <4> DEFINE def == Dir(fr.dir).config[fr.expr[2]]
      <4>1. Parts(m) = Defined(fr.dir, <<def>>)
        BY <2>3, <3>2 DEF Parts, Entered
      <4>2. AllStand(fr.dir, <<def>>, c.binds, D)
        BY <3>4, <4>1, ListedOne, DefinedStand
      <4>3. StandsAt(fr.dir, def, c.binds, D)
        BY <4>2, OneStands
      <4>4. DOMAIN c.binds = {}
        BY <2>3, ListedNone DEF Entered
      <4> QED BY <2>3, <4>3, <4>4 DEF Placed, Entered
    <3>5. StaysWithin(m, c)
      BY <3>4 DEF StaysWithin
    <3> QED BY <2>1, <3>2, <3>3, <3>5
  <2> QED BY <1>2, <1>3, <2>2, <2>3 DEF Fits
<1>4. IsFrame(c)
  BY <1>2 DEF Fits
<1>5. GoodFrame(c, nodes)
  BY <1>2, <1>3, <1>4 DEF GoodFrame
<1> QED BY <1>5 DEF c

\* All of this is about the program, and a step leaves the program alone.
LEMMA ProgramStays ==
  ASSUME program' = program
  PROVE  /\ \A nodes : (Query \in nodes /\ Closed(nodes))' <=> (Query \in nodes /\ Closed(nodes))
         /\ \A nodes : HasCause(nodes)' <=> HasCause(nodes)
         /\ \A fr, nodes : GoodFrame(fr, nodes)' <=> GoodFrame(fr, nodes)
<1>1. \A dir : Dir(dir)' = Dir(dir)
  BY DEF Dir
<1>2. \A n : Parts(n)' = Parts(n)
  BY <1>1 DEF Parts
<1>3. \A n : WellFormed(n)' <=> WellFormed(n)
  BY <1>1 DEF WellFormed
<1>4. \A nodes : Closed(nodes)' <=> Closed(nodes)
  BY <1>2, <1>3 DEF Closed
<1>5. \A n : (Source(n)' <=> Source(n)) /\ (Configured(n)' <=> Configured(n))
  BY <1>1 DEF Source, Configured
<1>6. \A n : Circular(n)' <=> Circular(n)
  BY <1>2, <1>4, <1>5 DEF Circular
<1>7. Query' = Query
  BY DEF Query
<1>8. \A nodes : HasCause(nodes)' <=> HasCause(nodes)
  BY <1>5, <1>6 DEF HasCause
<1>9. \A m, fr : StaysWithin(m, fr)' <=> StaysWithin(m, fr)
  BY <1>2, <1>4 DEF StaysWithin
<1>10. \A fr, nodes : GoodFrame(fr, nodes)' <=> GoodFrame(fr, nodes)
  BY <1>5, <1>9 DEF GoodFrame
<1> QED BY <1>4, <1>7, <1>8, <1>10

LEMMA ListedTail ==
  ASSUME NEW s, Listed(s), s # <<>>
  PROVE  /\ 1 \in DOMAIN s /\ Head(s) = s[1] /\ Listed(Tail(s))
         /\ \A j \in DOMAIN Tail(s) : j + 1 \in DOMAIN s /\ Tail(s)[j] = s[j + 1]
<1> DEFINE S == {s[i] : i \in DOMAIN s}
<1>1. s \in Seq(S)
  BY DEF Listed
<1> HIDE DEF S
<1>2. /\ Tail(s) \in Seq(S) /\ Head(s) = s[1] /\ 1 \in DOMAIN s
      /\ \A j \in DOMAIN Tail(s) : j + 1 \in DOMAIN s /\ Tail(s)[j] = s[j + 1]
  BY <1>1, TailElements
<1>3. Listed(Tail(s))
  BY <1>2, SeqListed
<1> QED BY <1>2, <1>3

LEMMA AnalysisGoesOn ==
  ASSUME AnalysisInv, [UnknownNext]_unknownVars
  PROVE  AnalysisInv'
<1>1. program' = program
  BY DEF UnknownNext, Analyse, unknownVars
<1>2. SUFFICES ASSUME NEW nodes, Query \in nodes, Closed(nodes)
               PROVE  /\ verdict' = "yes" => HasCause(nodes)
                      /\ verdict' = "open" =>
                           /\ frames' # <<>> /\ Listed(frames')
                           /\ \A i \in DOMAIN frames' : GoodFrame(frames'[i], nodes)
  BY <1>1, ProgramStays DEF AnalysisInv, OnTheWay
<1>3. OnTheWay(nodes)
  BY <1>2 DEF AnalysisInv
<1>4. CASE UNCHANGED unknownVars
  BY <1>3, <1>4 DEF unknownVars, OnTheWay
<1>5. CASE Analyse
  <2> DEFINE fr == Head(frames)
             outcome == Expand(fr)
             rest == outcome.then \o Tail(frames)
  <2>1. /\ verdict = "open"
        /\ frames' = IF outcome.hit THEN <<>> ELSE rest
        /\ verdict' = IF outcome.hit THEN "yes" ELSE IF rest = <<>> THEN "no" ELSE "open"
    BY <1>5 DEF Analyse
  <2>2. /\ frames # <<>> /\ Listed(frames)
        /\ \A i \in DOMAIN frames : GoodFrame(frames[i], nodes)
    BY <1>3, <2>1 DEF OnTheWay
  <2>3. /\ 1 \in DOMAIN frames /\ fr = frames[1] /\ Listed(Tail(frames))
        /\ \A j \in DOMAIN Tail(frames) : j + 1 \in DOMAIN frames /\ Tail(frames)[j] = frames[j + 1]
    BY <2>2, ListedTail
  <2>4. GoodFrame(fr, nodes)
    BY <2>2, <2>3
  <2> HIDE DEF fr
  <2>5. Outcome(fr, outcome, nodes)
    BY <1>2, <2>4, ExpandOutcome DEF GoodFrame
  <2>6. CASE outcome.hit
    <3>1. HasCause(nodes)
      BY <1>2, <2>4, <2>5, <2>6, CauseOfHit DEF Outcome
    <3> QED BY <2>1, <2>6, <3>1
  <2>7. CASE ~outcome.hit
    <3>1. \A i \in DOMAIN outcome.then : GoodFrame(outcome.then[i], nodes)
      BY <1>2, <2>4, <2>7, GoodGoesOn
    <3>2. Listed(outcome.then)
      BY <2>5, <2>7 DEF Outcome, Follows
    <3> HIDE DEF outcome
    <3>3. Listed(rest) /\ \A i \in DOMAIN rest :
            \/ i \in DOMAIN outcome.then /\ rest[i] = outcome.then[i]
            \/ i - Len(outcome.then) \in DOMAIN Tail(frames)
               /\ rest[i] = Tail(frames)[i - Len(outcome.then)]
      BY <2>3, <3>2, ListedJoin
    <3>4. \A j \in DOMAIN Tail(frames) : GoodFrame(Tail(frames)[j], nodes)
      BY <2>2, <2>3
    <3> HIDE DEF rest
    <3>5. \A i \in DOMAIN rest : GoodFrame(rest[i], nodes)
      BY <3>1, <3>3, <3>4
    <3> QED BY <2>1, <2>7, <3>3, <3>5
  <2> QED BY <2>6, <2>7
<1> QED BY <1>4, <1>5 DEF UnknownNext

(* ReportsHaveCauses, for any modules, expressions and schemas: the rules  *)
(* that hold for_each, count and an import's id against values known at    *)
(* plan time report nothing the plan does know.                            *)
THEOREM AlarmsHaveCauses == UnknownSpec => []ReportsHaveCauses
<1>1. UnknownInit => AnalysisInv
  BY AnalysisStarts
<1>2. AnalysisInv /\ [UnknownNext]_unknownVars => AnalysisInv'
  BY AnalysisGoesOn
<1>3. AnalysisInv => ReportsHaveCauses
  BY DEF AnalysisInv, OnTheWay, HasCause, ReportsHaveCauses
<1> QED BY <1>1, <1>2, <1>3, PTL DEF UnknownSpec

=============================================================================
