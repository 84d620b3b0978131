-------------------------------- MODULE Build --------------------------------
(***************************************************************************)
(* `kei build <dir>` (kei_cli/src/build.rs) with the import resolver it    *)
(* shares between files (kei_cli/src/resolve.rs), next to an editor that   *)
(* saves files while the build runs, to reads and writes that fail and to  *)
(* a build that is killed and started again.                               *)
(*                                                                         *)
(* A module is known by what its importers see of it (`exports`) and by    *)
(* what it expects of its imports.  An import that is not resolved is      *)
(* opaque: its types are unknown, and unknown types fit everywhere.        *)
(***************************************************************************)
EXTENDS Sequences, Naturals

CONSTANTS
    Dir,        \* <dir>, as the segments of its path
    File,       \* the .kei files under <dir>: segments relative to <dir>
    Sorted,     \* the files in the order of files.sort()
    Export,     \* what a module may export
    Saves,      \* the contents an editor may save, for each file
    MaxSaves,   \* bound: saves while the project is built
    MaxBuilds   \* bound: runs of kei build

VARIABLES
    src,        \* contents of the files
    saves,      \* number of saves so far
    builds,     \* number of builds started
    phase,      \* "idle", "check", "write"
    maps,       \* FALSE when this build runs with --no-source-map
    exit,       \* how the last build ended: "none" yet, "ok" (0), "errors" (1),
                \* "usage" (2, a file cannot be read or written), "killed"
    next,       \* index of the file, or of the output, that is dealt with next
    half,       \* the .ts of outputs[next] is written, its .map is not
    cache,      \* FsModuleResolver::cache
    missed,     \* history: this build failed to read an import
    outputs,    \* EmitOutput of the files that are clean
    failures,   \* files with diagnostics
    dist,       \* contents of the output directory
    before      \* contents of the output directory when the build started

vars == <<src, saves, builds, maps, phase, exit, next, half, cache, missed, outputs,
          failures, dist, before>>

\* Contents of a file: `decl` is <<>> without a module declaration, `expects`
\* maps the module paths it imports to the exports its body type-checks with.
IsSource(s) == /\ s.parses \in BOOLEAN /\ s.sound \in BOOLEAN
               /\ s.exports \in Export
               /\ \A p \in DOMAIN s.expects : s.expects[p] \in Export
               /\ s.parses \/ DOMAIN s.expects = {}

IsPath(p) == p \in Seq({ p[i] : i \in DOMAIN p })

ASSUME FilesAssumption ==
    /\ IsPath(Dir) /\ \A f \in File : IsPath(f) /\ f # <<>>
    /\ Sorted \in Seq(File)
    /\ MaxSaves \in Nat /\ MaxBuilds \in Nat
    /\ DOMAIN Saves = File
    /\ \A f \in File : Saves[f] # {} /\ \A s \in Saves[f] : IsSource(s)
    /\ \A f \in File : \E i \in DOMAIN Sorted : Sorted[i] = f
    /\ \A i, j \in DOMAIN Sorted : i # j => Sorted[i] # Sorted[j]

Opaque == "opaque"

Last(s) == s[Len(s)]

Without(s, n) == SubSeq(s, 1, Len(s) - n)

Extend(m, k, v) == [p \in DOMAIN m \cup {k} |-> IF p = k THEN v ELSE m[p]]

EmptyMap == [p \in {} |-> Opaque]

\* ts_path_for: the declaration decides, the file's name only without one.
TsPath(f, s) == IF s.decl # <<>> THEN s.decl ELSE <<Last(f)>>

\* A path relative to `root` is a file under <dir> when root leads there.
FileAt(root, path) ==
    LET full == root \o path
    IN  { f \in File : full = Dir \o f }

\* FsModuleResolver::resolve, reading the file system as it is now.
ReadModule(root, path) ==
    IF \E f \in FileAt(root, path) : src[f].parses
    THEN src[CHOOSE f \in FileAt(root, path) : TRUE].exports
    ELSE Opaque

\* Mutant: the resolver does not remember its answers.
ResolveAfresh(path) == ReadModule(Dir, path)

\* The resolver of a build has <dir> as its root and remembers every answer.
Resolve(path) == IF path \in DOMAIN cache THEN cache[path] ELSE ReadModule(Dir, path)

Clean(s, answer) == /\ s.parses /\ s.sound
                    /\ \A p \in DOMAIN s.expects : answer[p] \in {Opaque, s.expects[p]}

\* Mutant: the directory of the file is taken for the root.
DeriveRootShort(given, s) == IF s.decl = <<>> THEN {} ELSE {Without(given, 1)}

\* derive_root, for `kei check <given>`: the declaration has to match the end of
\* the path as it is given, and what is left of it, if only "", is the root.
DeriveRoot(given, s) ==
    LET n == Len(s.decl)
    IN  IF n > 0 /\ n <= Len(given) /\ SubSeq(given, Len(given) - n + 1, Len(given)) = s.decl
        THEN { Without(given, n) } ELSE {}

\* Without a root nothing is resolved.
ReadFrom(roots, path) ==
    IF roots = {} THEN Opaque ELSE ReadModule(CHOOSE r \in roots : TRUE, path)

\* `kei check` of f, its path given from the k-th directory above it, counted
\* from the file system's root; what it opens is relative to that directory.
CheckClean(f, k) ==
    LET full  == Dir \o f
        roots == { SubSeq(full, 1, k) \o r :
                     r \in DeriveRoot(SubSeq(full, k + 1, Len(full)), src[f]) }
    IN  Clean(src[f], [p \in DOMAIN src[f].expects |-> ReadFrom(roots, p)])
-----------------------------------------------------------------------------
Init == /\ src \in { s \in [File -> UNION { Saves[f] : f \in File }] :
                       \A f \in File : s[f] \in Saves[f] }
        /\ saves = 0 /\ builds = 0 /\ maps = TRUE
        /\ phase = "idle" /\ exit = "none"
        /\ next = 1 /\ half = FALSE
        /\ cache = EmptyMap /\ missed = FALSE
        /\ outputs = <<>> /\ failures = {}
        /\ dist = EmptyMap /\ before = EmptyMap

Save(f) == /\ saves < MaxSaves
           /\ \E s \in Saves[f] : s # src[f] /\ src' = [src EXCEPT ![f] = s]
           /\ saves' = saves + 1
           /\ UNCHANGED <<builds, maps, phase, exit, next, half, cache, missed, outputs, failures,
                          dist, before>>

Start == /\ phase = "idle" /\ builds < MaxBuilds
         /\ builds' = builds + 1
         /\ maps' \in BOOLEAN
         /\ phase' = "check" /\ next' = 1 /\ half' = FALSE
         /\ cache' = EmptyMap /\ missed' = FALSE
         /\ outputs' = <<>> /\ failures' = {}
         /\ before' = dist
         /\ UNCHANGED <<src, saves, exit, dist>>

Output(f, answer) == [file |-> f, path |-> TsPath(f, src[f]), source |-> src[f],
                      answer |-> answer]

\* The answers of the resolver to the imports of f: those in `unread` are not in
\* the cache, and reading them fails.
Answers(f, unread) ==
    [p \in DOMAIN src[f].expects |-> IF p \in unread THEN Opaque ELSE Resolve(p)]

\* Whatever the answer is, it is remembered.
Remember(answer) ==
    [p \in DOMAIN cache \cup DOMAIN answer |-> IF p \in DOMAIN answer THEN answer[p] ELSE cache[p]]

\* Mutant: a file with diagnostics is emitted as well.
CheckNextAgain ==
    /\ phase = "check" /\ next <= Len(Sorted)
    /\ LET f == Sorted[next]
       IN  \E unread \in SUBSET (DOMAIN src[f].expects \ DOMAIN cache) :
             LET answer == Answers(f, unread)
             IN  /\ cache' = Remember(answer) /\ missed' = (missed \/ unread # {})
                 /\ outputs' = Append(outputs, Output(f, answer))
                 /\ failures' = IF Clean(src[f], answer) THEN failures ELSE failures \cup {f}
    /\ next' = next + 1
    /\ UNCHANGED <<src, saves, builds, maps, phase, exit, half, dist, before>>

\* One file: it is read, and its imports are read unless they are in the cache.
CheckNext ==
    /\ phase = "check" /\ next <= Len(Sorted)
    /\ LET f == Sorted[next]
       IN  \E unread \in SUBSET (DOMAIN src[f].expects \ DOMAIN cache) :
             LET answer == Answers(f, unread)
             IN  /\ cache' = Remember(answer) /\ missed' = (missed \/ unread # {})
                 /\ IF Clean(src[f], answer)
                    THEN /\ outputs' = Append(outputs, Output(f, answer))
                         /\ UNCHANGED failures
                    ELSE /\ failures' = failures \cup {f}
                         /\ UNCHANGED outputs
    /\ next' = next + 1
    /\ UNCHANGED <<src, saves, builds, maps, phase, exit, half, dist, before>>

ReadFails == /\ phase = "check" /\ next <= Len(Sorted)
             /\ phase' = "idle" /\ exit' = "usage"
             /\ UNCHANGED <<src, saves, builds, maps, next, half, cache, missed, outputs, failures,
                            dist, before>>

\* Mutant: the files that are clean are written although others are not.
DecideLenient == /\ phase = "check" /\ next > Len(Sorted)
                 /\ next' = 1
                 /\ IF outputs = <<>> THEN phase' = "idle" /\ exit' = "errors"
                    ELSE phase' = "write" /\ UNCHANGED exit
                 /\ UNCHANGED <<src, saves, builds, maps, half, cache, missed, outputs, failures,
                                dist, before>>

\* All files are checked before anything is written.
Decide == /\ phase = "check" /\ next > Len(Sorted)
          /\ next' = 1
          /\ IF failures # {} THEN phase' = "idle" /\ exit' = "errors"
             ELSE phase' = "write" /\ UNCHANGED exit
          /\ UNCHANGED <<src, saves, builds, maps, half, cache, missed, outputs, failures,
                         dist, before>>

Ts(path)  == <<"ts", path>>
Map(path) == <<"map", path>>

\* Mutant: a file that is in the output directory is kept.
WriteTsOnce ==
    /\ phase = "write" /\ next <= Len(outputs) /\ ~half
    /\ LET o == outputs[next]
       IN  dist' = IF Ts(o.path) \in DOMAIN dist THEN dist
                   ELSE Extend(dist, Ts(o.path),
                               [of |-> o, named |-> maps, whole |-> TRUE])
    /\ IF maps THEN half' = TRUE /\ UNCHANGED next
       ELSE next' = next + 1 /\ UNCHANGED half
    /\ UNCHANGED <<src, saves, builds, maps, phase, exit, cache, missed, outputs, failures, before>>

\* strip_source_mapping_url drops the reference to the map.
WriteTs ==
    /\ phase = "write" /\ next <= Len(outputs) /\ ~half
    /\ LET o == outputs[next]
       IN  dist' = Extend(dist, Ts(o.path), [of |-> o, named |-> maps, whole |-> TRUE])
    /\ IF maps THEN half' = TRUE /\ UNCHANGED next
       ELSE next' = next + 1 /\ UNCHANGED half
    /\ UNCHANGED <<src, saves, builds, maps, phase, exit, cache, missed, outputs, failures, before>>

WriteMap ==
    /\ phase = "write" /\ half
    /\ LET o == outputs[next]
       IN  dist' = Extend(dist, Map(o.path), [of |-> o, named |-> FALSE, whole |-> TRUE])
    /\ half' = FALSE /\ next' = next + 1
    /\ UNCHANGED <<src, saves, builds, maps, phase, exit, cache, missed, outputs, failures, before>>

\* The file that is being written is as it was, or empty, or has the beginning of
\* its new content: fs::write truncates before it writes.
MayTear ==
    \/ UNCHANGED dist
    \/ /\ phase = "write" /\ next <= Len(outputs)
       /\ LET o == outputs[next]
          IN  dist' = Extend(dist, IF half THEN Map(o.path) ELSE Ts(o.path),
                             [of |-> o, named |-> maps /\ ~half, whole |-> FALSE])

WriteFails == /\ phase = "write" /\ next <= Len(outputs)
              /\ phase' = "idle" /\ exit' = "usage"
              /\ MayTear
              /\ UNCHANGED <<src, saves, builds, maps, next, half, cache, missed, outputs, failures,
                             before>>

Wrote == /\ phase = "write" /\ next > Len(outputs)
         /\ phase' = "idle" /\ exit' = "ok"
         /\ UNCHANGED <<src, saves, builds, maps, next, half, cache, missed, outputs, failures,
                        dist, before>>

Kill == /\ phase # "idle"
        /\ phase' = "idle" /\ exit' = "killed"
        /\ MayTear
        /\ UNCHANGED <<src, saves, builds, maps, next, half, cache, missed, outputs, failures,
                       before>>

BuildStep == CheckNext \/ Decide \/ WriteTs \/ WriteMap \/ Wrote

Next == \/ \E f \in File : Save(f)
        \/ Start \/ BuildStep \/ ReadFails \/ WriteFails \/ Kill

Spec == Init /\ [][Next]_vars
-----------------------------------------------------------------------------
IsOutput(o) == /\ o.file \in File /\ o.source \in Saves[o.file]
               /\ DOMAIN o.answer = DOMAIN o.source.expects
               /\ Clean(o.source, o.answer)

TypeOK == /\ \A f \in File : src[f] \in Saves[f]
          /\ saves \in 0..MaxSaves /\ builds \in 0..MaxBuilds /\ maps \in BOOLEAN
          /\ phase \in {"idle", "check", "write"}
          /\ exit \in {"none", "ok", "errors", "usage", "killed"}
          /\ next \in 1..(Len(Sorted) + 1) /\ half \in BOOLEAN /\ missed \in BOOLEAN
          /\ \A p \in DOMAIN cache : cache[p] \in Export \cup {Opaque}
          /\ \A i \in DOMAIN outputs : IsOutput(outputs[i])
          /\ failures \subseteq File
          /\ \A k \in DOMAIN dist : /\ IsOutput(dist[k].of)
                                    /\ dist[k].named \in BOOLEAN /\ dist[k].whole \in BOOLEAN

\* build.rs "if one file has an error nothing is written": the output directory
\* is as it was unless every file that was collected is clean, whatever is
\* saved meanwhile and wherever the build stops.
AllOrNothing ==
    /\ phase = "check" \/ (phase = "idle" /\ exit = "errors") => dist = before
    /\ dist # before => failures = {} /\ Len(outputs) = Len(Sorted)

UniquePath(i) == \A j \in DOMAIN outputs : outputs[j].path = outputs[i].path => j = i

\* A build that succeeds leaves the emission of every file it has checked, whole,
\* with the source map its last line names, over whatever an earlier build left
\* that was killed or could not write, torn files among it.  Of two files with one
\* ts_path the later one wins.
SuccessIsComplete ==
    phase = "idle" /\ exit = "ok" =>
        /\ Len(outputs) = Len(Sorted)
        /\ \A i \in DOMAIN outputs : UniquePath(i) =>
             /\ Ts(outputs[i].path) \in DOMAIN dist
             /\ dist[Ts(outputs[i].path)].of = outputs[i]
             /\ dist[Ts(outputs[i].path)].whole
             /\ dist[Ts(outputs[i].path)].named =>
                  /\ Map(outputs[i].path) \in DOMAIN dist
                  /\ dist[Map(outputs[i].path)].of = outputs[i]
                  /\ dist[Map(outputs[i].path)].whole

\* Two files emitted by one build were checked against the same types of a
\* module they both import, although it may be saved between the two checks:
\* the cache of the resolver is shared.
ImportersAgree ==
    \A i, j \in DOMAIN outputs :
        \A p \in DOMAIN outputs[i].answer \cap DOMAIN outputs[j].answer :
            outputs[i].answer[p] = outputs[j].answer[p]

\* A file that stands where its module declaration says and fails in `kei build
\* <dir>` fails in `kei check` as well, given from any directory down to <dir>,
\* although check derives its root from the path and build's resolver is shared by
\* all files.  One that is clean in a build that could read its imports is clean in
\* check, from whatever directory: with less of the path check sees less.
CheckAgrees ==
    saves = 0 /\ phase = "check" =>
        \A i \in 1..(next - 1) :
            LET f == Sorted[i]
            IN  src[f].decl = f =>
                  IF f \in failures THEN \A k \in 0..Len(Dir) : ~CheckClean(f, k)
                  ELSE missed \/ \A k \in 0..(Len(Dir) + Len(f) - 1) : CheckClean(f, k)
=============================================================================
