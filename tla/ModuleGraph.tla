---------------------------- MODULE ModuleGraph ----------------------------
(***************************************************************************)
(* The first three stages of compile (main.rs) and the ModuleRegistry they *)
(* fill (frontend/resolve/module.rs): a worklist loads every file the      *)
(* inputs import, the imports become edges between modules, a depth-first  *)
(* search rejects cycles, and Kahn's algorithm gives the order in which    *)
(* the modules are compiled.                                               *)
(*                                                                         *)
(* The recursion of dfs_cycle_check is an explicit stack.  The registry's  *)
(* HashMaps are walked in an arbitrary order.  The files of a behaviour    *)
(* are chosen in Init and never change.                                    *)
(***************************************************************************)
EXTENDS Integers, Sequences, FiniteSets, SequencesExt

CONSTANTS
  Files,         \* canonical paths; also the names a file may have
  Contents,      \* what a file may hold: "good", "bad" (a syntax error), "missing"
  MaxImports,    \* bound: use items per file
  MaxInputs,     \* bound: files on the command line
  SameStem       \* two files may have the same name in different directories

ASSUME GraphAssumption ==
  /\ Contents \subseteq {"good", "bad", "missing"}
  /\ MaxImports \in Nat /\ MaxInputs \in Nat \ {0} /\ SameStem \in BOOLEAN

VARIABLES
  \* the files
  content, imports, stem,
  inputs,        \* opts.inputs
  \* compile
  phase,         \* "load", "cycles", "sort", "sorted" or "rejected"
  to_process, processed, errors,
  \* ModuleRegistry: an id is a position in modules
  modules, name_to_id, dependencies,
  \* check_cycles: the calls of dfs_cycle_check, <<[id, next]>>, and its Err
  calls, visiting, visited, cycle,
  \* topological_sort
  in_degree, queue, sorted,
  edge           \* the next import of the last module of sorted

files    == <<content, imports, stem, inputs>>
registry == <<modules, name_to_id, dependencies>>
search   == <<calls, visiting, visited, cycle>>
kahn     == <<in_degree, queue, sorted, edge>>
vars     == <<files, phase, to_process, processed, errors, registry, search, kahn>>

NoId == 0
Ids == DOMAIN modules

\* The elements of a sequence that are in a set, in their order.
Kept(s, S) ==
  LET kept[i \in 0 .. Len(s)] ==
        IF i = 0 THEN <<>> ELSE IF s[i] \in S THEN Append(kept[i - 1], s[i]) ELSE kept[i - 1]
  IN  kept[Len(s)]

-----------------------------------------------------------------------------
Init ==
  /\ content \in [Files -> Contents]
  /\ imports \in [Files -> SeqOf(Files, MaxImports)]
  /\ \A f \in Files : content[f] # "good" => imports[f] = <<>>     \* nothing to be read
  /\ stem \in IF SameStem THEN [Files -> Files] ELSE {[f \in Files |-> f]}
  /\ phase = "load"
  /\ inputs \in SeqOf(Files, MaxInputs) \ {<<>>} /\ to_process = inputs
  /\ processed = {} /\ errors = FALSE
  /\ modules = <<>> /\ name_to_id = [s \in Files |-> NoId] /\ dependencies = <<>>
  /\ calls = <<>> /\ visiting = {} /\ visited = {} /\ cycle = <<>>
  /\ in_degree = <<>> /\ queue = <<>> /\ sorted = <<>> /\ edge = 1

-----------------------------------------------------------------------------
(* Stage 1: the worklist.                                                  *)

\* Mutant of Seen: nothing is remembered.
NeverSeen(f) == FALSE

Seen(f) == f \in processed

Loading(f) == phase = "load" /\ to_process # <<>> /\ f = Head(to_process)

SkipFile(f) ==
  /\ Loading(f) /\ Seen(f)
  /\ to_process' = Tail(to_process)
  /\ UNCHANGED <<files, phase, processed, errors, registry, search, kahn>>

\* The file cannot be read or parsed, or an earlier file had an error: it is not
\* registered and its imports are not followed.
RejectFile(f) ==
  /\ Loading(f) /\ ~Seen(f)
  /\ content[f] # "good" \/ errors
  /\ errors' = TRUE
  /\ processed' = processed \cup {f}
  /\ to_process' = Tail(to_process)
  /\ UNCHANGED <<files, phase, registry, search, kahn>>

Existing == {f \in Files : content[f] # "missing"}

\* Mutant of Queued: the imports of a file take the place of what was queued.
QueuedInstead(f) == Kept(imports[f], Existing)

Queued(f) == Tail(to_process) \o Kept(imports[f], Existing)

\* register_module, after the imports that exist have been queued.
LoadFile(f) ==
  /\ Loading(f) /\ ~Seen(f)
  /\ content[f] = "good" /\ ~errors
  /\ to_process' = Queued(f)
  /\ errors' = (\E i \in DOMAIN imports[f] : imports[f][i] \notin Existing)
  /\ IF f \in ToSet(modules) THEN UNCHANGED <<modules, name_to_id>>
     ELSE /\ modules' = Append(modules, f)
          /\ name_to_id' = [name_to_id EXCEPT ![stem[f]] = Len(modules) + 1]
  /\ processed' = processed \cup {f}
  /\ UNCHANGED <<files, phase, dependencies, search, kahn>>

\* An import becomes an edge to the module that has its name.
Edges(f) ==
  LET found == Kept(imports[f], {g \in Files : name_to_id[stem[g]] # NoId})
  IN  [i \in DOMAIN found |-> name_to_id[stem[found[i]]]]

Link ==
  /\ phase = "load" /\ to_process = <<>>
  /\ dependencies' = [m \in Ids |-> Edges(modules[m])]
  /\ phase' = IF errors THEN "rejected" ELSE "cycles"
  /\ UNCHANGED <<files, to_process, processed, errors, modules, name_to_id, search, kahn>>

-----------------------------------------------------------------------------
(* Stage 2: check_cycles and dfs_cycle_check.                              *)

Searching == phase = "cycles" /\ calls # <<>>
Call == Last(calls)
Dep == dependencies[Call.id][Call.next]
HasDep == Call.next <= Len(dependencies[Call.id])
Advanced == [calls EXCEPT ![Len(calls)].next = @ + 1]

Root(m) ==
  /\ phase = "cycles" /\ calls = <<>>
  /\ m \notin visited
  /\ calls' = <<[id |-> m, next |-> 1]>>
  /\ visiting' = visiting \cup {m}
  /\ UNCHANGED <<files, phase, to_process, processed, errors, registry, visited, cycle, kahn>>

Descend ==
  /\ Searching /\ HasDep
  /\ Dep \notin visiting \cup visited
  /\ calls' = Append(Advanced, [id |-> Dep, next |-> 1])
  /\ visiting' = visiting \cup {Dep}
  /\ UNCHANGED <<files, phase, to_process, processed, errors, registry, visited, cycle, kahn>>

PassVisited ==
  /\ Searching /\ HasDep
  /\ Dep \in visited \ visiting
  /\ calls' = Advanced
  /\ UNCHANGED <<files, phase, to_process, processed, errors, registry, visiting, visited, cycle, kahn>>

\* The Err of the innermost call, and what every caller adds to it.
Unwound(found) ==
  LET callers == Reverse([i \in DOMAIN calls |-> calls[i].id])
  IN  <<found>> \o Kept(callers, Ids \ {found})

FindCycle ==
  /\ Searching /\ HasDep
  /\ Dep \in visiting
  /\ cycle' = Unwound(Dep)
  /\ calls' = <<>> /\ phase' = "rejected" /\ errors' = TRUE
  /\ UNCHANGED <<files, to_process, processed, registry, visiting, visited, kahn>>

\* Mutant of Returned: the module stays on the path.
StillVisiting == visiting

Returned == visiting \ {Call.id}

Return ==
  /\ Searching /\ ~HasDep
  /\ calls' = Front(calls)
  /\ visiting' = Returned
  /\ visited' = visited \cup {Call.id}
  /\ UNCHANGED <<files, phase, to_process, processed, errors, registry, cycle, kahn>>

-----------------------------------------------------------------------------
(* Stage 3: topological_sort.                                              *)

\* Which import of which module is an edge.
Edge == UNION {{<<n, i>> : i \in DOMAIN dependencies[n]} : n \in Ids}

\* The number of edges into a module, counted with their multiplicity.
Degree(m) == Cardinality({e \in Edge : dependencies[e[1]][e[2]] = m})

BeginSort ==
  /\ phase = "cycles" /\ calls = <<>> /\ visited = Ids
  /\ in_degree' = [m \in Ids |-> Degree(m)]
  /\ queue' \in SetToSeqs({m \in Ids : Degree(m) = 0})
  /\ phase' = "sort"
  /\ UNCHANGED <<files, to_process, processed, errors, registry, search, sorted, edge>>

Releasing == sorted # <<>> /\ edge <= Len(dependencies[Last(sorted)])

PopModule ==
  /\ phase = "sort" /\ ~Releasing /\ queue # <<>>
  /\ sorted' = Append(sorted, Head(queue))
  /\ queue' = Tail(queue)
  /\ edge' = 1
  /\ UNCHANGED <<files, phase, to_process, processed, errors, registry, search, in_degree>>

\* One edge of the module that was popped last.
Release ==
  /\ phase = "sort" /\ Releasing
  /\ LET dep == dependencies[Last(sorted)][edge] IN
       /\ in_degree' = [in_degree EXCEPT ![dep] = @ - 1]
       /\ queue' = IF in_degree[dep] = 1 THEN Append(queue, dep) ELSE queue
  /\ edge' = edge + 1
  /\ UNCHANGED <<files, phase, to_process, processed, errors, registry, search, sorted>>

\* Mutant of Ordered: importers first.
ImportersFirst(s) == s

Ordered(s) == Reverse(s)

EndSort ==
  /\ phase = "sort" /\ ~Releasing /\ queue = <<>>
  /\ IF Len(sorted) = Len(modules)
     THEN phase' = "sorted" /\ sorted' = Ordered(sorted) /\ UNCHANGED errors
     ELSE phase' = "rejected" /\ errors' = TRUE /\ UNCHANGED sorted
  /\ UNCHANGED <<files, to_process, processed, registry, search, in_degree, queue, edge>>

-----------------------------------------------------------------------------
Next ==
  \/ \E f \in Files : SkipFile(f) \/ RejectFile(f) \/ LoadFile(f)
  \/ Link
  \/ \E m \in Ids : Root(m)
  \/ Descend \/ PassVisited \/ FindCycle \/ Return
  \/ BeginSort \/ PopModule \/ Release \/ EndSort

\* One thread that runs until it is done.
Spec == Init /\ [][Next]_vars /\ WF_vars(Next)

-----------------------------------------------------------------------------
Id == Nat \ {NoId}

\* Every component has its type.
TypeOK ==
  /\ content \in [Files -> Contents] /\ imports \in [Files -> Seq(Files)]
  /\ stem \in [Files -> Files] /\ inputs \in Seq(Files)
  /\ phase \in {"load", "cycles", "sort", "sorted", "rejected"}
  /\ to_process \in Seq(Files) /\ processed \subseteq Files /\ errors \in BOOLEAN
  /\ modules \in Seq(Files) /\ name_to_id \in [Files -> Ids \cup {NoId}]
  /\ phase # "load" => dependencies \in [Ids -> Seq(Ids)]
  /\ calls \in Seq([id : Ids, next : Id])
  /\ visiting \subseteq Ids /\ visited \subseteq Ids /\ cycle \in Seq(Ids)
  /\ phase \in {"sort", "sorted"} => in_degree \in [Ids -> Nat]
  /\ queue \in Seq(Ids) /\ sorted \in Seq(Ids) /\ edge \in Id

(* What the imports of the files mean, whatever the registry makes of them. *)

\* A set of files that holds what its members import.
Closed(S) == \A f \in S : ToSet(imports[f]) \subseteq S

\* The files that some files import, directly or through others, and these.
Imported(from) ==
  {f \in Files : \A S \in SUBSET Files : from \subseteq S /\ Closed(S) => f \in S}

OnCycle(f) == f \in Imported(ToSet(imports[f]))
Loaded == ToSet(modules)

\* The search begins only if every file was read, and then each file an input
\* imports, however far away, is a module, once, and no other file is.
LoadsWhatIsImported ==
  phase \notin {"load", "rejected"} =>
    /\ IsInjective(modules)
    /\ Loaded = Imported(ToSet(inputs))
    /\ \A f \in Loaded : content[f] = "good"

\* Imports are rejected as circular exactly when some module imports itself,
\* directly or through others (check_cycles).  Once none was found the sort
\* succeeds: main.rs:361 is never reached.
CyclesAreRejected ==
  /\ phase \in {"sort", "sorted"} => \A f \in Loaded : ~OnCycle(f)
  /\ cycle # <<>> => \E f \in Loaded : OnCycle(f)
  /\ phase = "rejected" /\ cycle = <<>> => sorted = <<>> /\ visited = {}

\* Every module is compiled once, after every module it imports.
ImportsComeFirst ==
  phase = "sorted" =>
    /\ Len(sorted) = Len(modules) /\ ToSet(sorted) = Ids
    /\ \A i, j \in DOMAIN sorted :
         modules[sorted[j]] \in ToSet(imports[modules[sorted[i]]]) => j < i

\* The compiler decides: no import graph keeps it loading or searching for ever.
Decides == <>(phase \in {"sorted", "rejected"})

-----------------------------------------------------------------------------
(* What the comments say.                                                  *)

\* path.rs:5: `use a.b.c` names the file a/b/c.kore, so that file is what the
\* importer is made to depend on.
EdgesLeadToImports ==
  phase \notin {"load", "rejected"} =>
    \A m \in Ids : \A i \in DOMAIN imports[modules[m]] :
      modules[dependencies[m][i]] = imports[modules[m]][i]
=============================================================================
