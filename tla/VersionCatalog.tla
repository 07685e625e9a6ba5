---------------------------- MODULE VersionCatalog ----------------------------
(***************************************************************************)
(* The version catalogues kept on disk under $XDG_CACHE_HOME: provider and *)
(* module registries (tfls-provider-protocol/src/registry_versions.rs),    *)
(* the releases of the two CLIs (tool_versions.rs) and the tags of a git   *)
(* repository (git_refs.rs).  They are filled by completion and by the     *)
(* prefetch (tfls-engine/src/prefetch.rs, version_prefetch.rs) and read by *)
(* the diagnostics (tfls-engine/src/pipeline.rs, version_constraint.rs).   *)
(*                                                                         *)
(* Tasks run concurrently, in one server or in several processes, the      *)
(* linter's among them, and share nothing but the files.  A catalogue is   *)
(* the number of releases it lists: lists only grow.  The clock ticks once *)
(* per CACHE_TTL; tasks, whose requests time out after seconds, do not     *)
(* outlast a tick.                                                         *)
(***************************************************************************)
EXTENDS Naturals, FiniteSets, FiniteSetsExt

CONSTANTS
  Prefetches,   \* the tasks that may run at once: of the prefetch,
  Completions,  \* ... and of completion requests
  MaxReleases   \* bound: releases made in all feeds together

ASSUME CatalogAssumption == MaxReleases \in Nat /\ Prefetches \cap Completions = {}

Tasks == Prefetches \cup Completions

VARIABLES
  kind,         \* "registry", "tools" or "git"
  released,     \* per feed: releases now, when this tick began, a tick before
  file,         \* per feed: the file on disk and its age in ticks
  task,         \* per task: how far each of its feeds is
  prefetched,   \* history: a prefetch ended in this tick
  missed        \* history: the feeds the last one left as they were, though
                \* they were old, torn or not there

catalogVars == <<kind, released, file, task, prefetched, missed>>

TTL == 1
Expired == TTL + 1

Feeds == IF kind = "git" THEN {"tags"} ELSE {"terraform", "opentofu"}

\* "emptied": truncated and not yet written; "mixed": two writers' output.
Whole(f) == f.state = "whole"
Exists(f) == f.state # "absent"
NoCatalog == [state |-> "absent", list |-> 0, age |-> Expired]
Lists(n) == [state |-> "whole", list |-> n, age |-> 0]
Unreadable(state, n) == [state |-> state, list |-> n, age |-> 0]

Begun == [step |-> "begun", list |-> 0, failed |-> FALSE, had |-> 0]
Idle == [r \in Feeds |-> [Begun EXCEPT !.step = "idle"]]

Step(t, r, step) == task[t][r].step = step

Ended(t, r) == task[t][r].step \in {"done", "unwritten"}

Listed(r) == IF Whole(file[r]) THEN file[r].list ELSE 0

To(t, r, feed) == [task EXCEPT ![t][r] = feed]
Asked(r) == [Begun EXCEPT !.step = "asked", !.had = Listed(r)]
Received(n) == [Begun EXCEPT !.step = "received", !.list = n]
Answered(n) == [Begun EXCEPT !.step = "done", !.list = n]

(* History: no task may count any longer on what it found in the file.     *)
Disturbs(tasks, r) ==
  [t \in Tasks |-> IF tasks[t][r].step = "asked" THEN [tasks[t] EXCEPT ![r].had = 0]
                                                 ELSE tasks[t]]

CatalogTypeOK ==
  /\ kind \in {"registry", "tools", "git"}
  /\ released \in [Feeds -> [now : Nat, today : Nat, longAgo : Nat]]
  /\ file \in [Feeds -> [state : {"absent", "whole", "emptied", "mixed"}, list : Nat,
                         age : 0 .. Expired]]
  /\ task \in [Tasks -> [Feeds ->
       [step : {"idle", "begun", "asked", "received", "emptied", "done", "unwritten"},
        list : Nat, failed : BOOLEAN, had : Nat]]]
  /\ prefetched \in BOOLEAN
  /\ missed \subseteq Feeds

CatalogInit ==
  /\ kind \in {"registry", "tools", "git"}
  /\ released = [r \in Feeds |-> [now |-> 1, today |-> 1, longAgo |-> 1]]
  /\ file = [r \in Feeds |-> NoCatalog]
  /\ task = [t \in Tasks |-> Idle]
  /\ prefetched = FALSE
  /\ missed = {}

-----------------------------------------------------------------------------
(* The feeds and the clock.                                                *)

Release(r) ==
  /\ MapThenSumSet(LAMBDA q : released[q].now - 1, Feeds) < MaxReleases
  /\ released' = [released EXCEPT ![r].now = @ + 1]
  /\ UNCHANGED <<kind, file, task, prefetched, missed>>

Tick ==
  /\ \A t \in Tasks : task[t] = Idle
  /\ released' = [r \in Feeds |-> [released[r] EXCEPT !.longAgo = released[r].today,
                                                      !.today = released[r].now]]
  /\ file' = [r \in Feeds |-> [file[r] EXCEPT !.age = IF @ > TTL THEN Expired ELSE @ + 1]]
  /\ prefetched' = FALSE
  /\ missed' = {}
  /\ UNCHANGED <<kind, task>>

-----------------------------------------------------------------------------
(* The prefetch begins where is_cached finds nothing.                      *)

Fresh(r) == Exists(file[r]) /\ file[r].age <= TTL

(* is_provider_cached and is_module_cached are content with either file,   *)
(* tool_versions::is_cached wants both, of whatever age;                   *)
(* is_repo_tags_cached wants a fresh one.                                  *)
IsCached ==
  CASE kind = "registry" -> \E r \in Feeds : Exists(file[r])
    [] kind = "tools" -> \A r \in Feeds : Exists(file[r])
    [] kind = "git" -> \A r \in Feeds : Fresh(r)

Current(r) == Whole(file[r]) /\ Fresh(r)

\* Of the CLIs' releases nothing is remembered: diagnostics never know them.
Prefetched(leftOut) ==
  /\ prefetched' = (kind # "tools")
  /\ missed' = IF kind = "tools" THEN {} ELSE leftOut

Skip ==
  /\ IsCached
  /\ Prefetched({r \in Feeds : ~Current(r)})
  /\ UNCHANGED <<kind, released, file, task>>

Fetch(t) ==
  /\ task[t] = Idle
  /\ t \in Prefetches => ~IsCached
  /\ task' = [task EXCEPT ![t] = [r \in Feeds |-> Begun]]
  /\ UNCHANGED <<kind, released, file, prefetched, missed>>

-----------------------------------------------------------------------------
(* fetch_registry_versions, fetch_module_registry_versions,                *)
(* fetch_github_releases and list_repo_tags_with_runner: the feeds of a    *)
(* task are fetched concurrently.                                          *)

(* Faulty: the file need only be there.                                    *)
ReadAnyAge(t, r) ==
  /\ Step(t, r, "begun")
  /\ task' = To(t, r, IF Whole(file[r]) THEN Answered(file[r].list) ELSE Asked(r))
  /\ UNCHANGED <<kind, released, file, prefetched, missed>>

(* read_fresh_cache: what is too old or does not parse is as good as no    *)
(* file.  It looks at the time of modification before it reads; what       *)
(* happens in between could as well have happened before both.             *)
ReadFresh(t, r) ==
  /\ Step(t, r, "begun")
  /\ task' = To(t, r, IF Current(r) THEN Answered(file[r].list) ELSE Asked(r))
  /\ UNCHANGED <<kind, released, file, prefetched, missed>>

RequestSucceeds(t, r) ==
  /\ Step(t, r, "asked")
  /\ task' = To(t, r, Received(released[r].now))
  /\ UNCHANGED <<kind, released, file, prefetched, missed>>

(* Transport error, bad status, malformed body or timeout: read_any_cache. *)
RequestFails(t, r) ==
  /\ Step(t, r, "asked")
  /\ task' = To(t, r, [task[t][r] EXCEPT !.step = "done", !.failed = TRUE,
                                             !.list = Listed(r)])
  /\ UNCHANGED <<kind, released, file, prefetched, missed>>

(* write_cache: the file is truncated first ...                            *)
Truncate(t, r) ==
  /\ Step(t, r, "received")
  /\ file' = [file EXCEPT ![r] = Unreadable("emptied", 0)]
  /\ task' = Disturbs(To(t, r, [task[t][r] EXCEPT !.step = "emptied"]), r)
  /\ UNCHANGED <<kind, released, prefetched, missed>>

(* ... and written from its beginning: what another writer put there since *)
(* shows beyond the end of a shorter list.                                 *)
Overwritten(f, n) == IF f.list > n THEN Unreadable("mixed", f.list) ELSE Lists(n)

Write(t, r) ==
  /\ Step(t, r, "emptied")
  /\ LET n == task[t][r].list IN
       /\ file' = [file EXCEPT ![r] = Overwritten(@, n)]
       /\ task' = Disturbs(To(t, r, Answered(n)), r)
  /\ UNCHANGED <<kind, released, prefetched, missed>>

(* The directory cannot be made, or the disk is full: the answer stands.   *)
WriteFails(t, r) ==
  /\ \E step \in {"received", "emptied"} : Step(t, r, step)
  /\ task' = To(t, r, [Answered(task[t][r].list) EXCEPT !.step = "unwritten"])
  /\ UNCHANGED <<kind, released, file, prefetched, missed>>

(* join!: a feed that failed adds nothing, the rest is served.             *)
Finish(t) ==
  /\ \A r \in Feeds : Ended(t, r)
  /\ IF t \in Prefetches
     THEN Prefetched({r \in Feeds : task[t][r].failed \/ Step(t, r, "unwritten")})
     ELSE UNCHANGED <<prefetched, missed>>
  /\ task' = [task EXCEPT ![t] = Idle]
  /\ UNCHANGED <<kind, released, file>>

(* The process ends.                                                       *)
Dies(t) ==
  /\ task[t] # Idle
  /\ task' = [task EXCEPT ![t] = Idle]
  /\ UNCHANGED <<kind, released, file, prefetched, missed>>

CatalogNext ==
  \/ \E r \in Feeds : Release(r)
  \/ Tick \/ Skip
  \/ \E t \in Tasks :
       \/ Fetch(t) \/ Finish(t) \/ Dies(t)
       \/ \E r \in Feeds :
            \/ ReadFresh(t, r)
            \/ RequestSucceeds(t, r) \/ RequestFails(t, r)
            \/ Truncate(t, r) \/ Write(t, r) \/ WriteFails(t, r)

CatalogSpec == CatalogInit /\ [][CatalogNext]_catalogVars
-----------------------------------------------------------------------------
(* Faulty: the first readable file is enough.                              *)
FirstCached ==
  IF kind = "registry" /\ Whole(file["terraform"]) THEN file["terraform"].list
  ELSE Max({0} \cup {file[r].list : r \in {q \in Feeds : Whole(file[q])}})

(* The releases the diagnostics know of: of any readable file, whatever    *)
(* its age.  The files of the CLIs' releases hold objects where            *)
(* OnDiskVersionCache expects strings, and are never readable to it.       *)
CachedVersions ==
  IF kind = "tools" THEN 0
  ELSE Max({0} \cup {file[r].list : r \in {q \in Feeds : Whole(file[q])}})

(* A feed whose request did not fail is answered with every release older  *)
(* than the TTL.  One whose request failed is answered with the list that  *)
(* was on disk when the request was sent, if nobody touched it since       *)
(* (registry_versions.rs:806-808: "so a registry outage doesn't blank the  *)
(* completion list"), whatever other tasks and processes do.               *)
AnswersCurrent ==
  \A t \in Tasks, r \in Feeds :
    Ended(t, r) =>
      LET answer == task[t][r] IN
        IF answer.failed THEN answer.had > 0 => answer.list = answer.had
        ELSE answer.list >= released[r].longAgo

(* After a prefetch the diagnostics know every release older than the TTL, *)
(* so that no constraint only such a release satisfies is reported as      *)
(* matched by none (version_prefetch.rs:3-5).  Excepted are feeds whose    *)
(* request or write failed, feeds the prefetch left old, torn or missing   *)
(* because is_cached was content, and files two writers or a dying one     *)
(* tore since.                                                             *)
DiagnosticsKnow ==
  (prefetched /\ \A t \in Tasks : task[t] = Idle) =>
    \A r \in Feeds \ missed :
      (Exists(file[r]) => Whole(file[r])) => CachedVersions >= released[r].longAgo
=============================================================================
