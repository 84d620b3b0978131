----------------------------- MODULE BuildProofs -----------------------------
(***************************************************************************)
(* A build writes all outputs or none, its importers agree about what they *)
(* import, a success leaves a complete output behind, and kei check agrees *)
(* with it: for every set of files, whatever an editor may save, any       *)
(* number of saves and builds, whatever cannot be read or written, and     *)
(* wherever a build fails or is killed.                                    *)
(***************************************************************************)
EXTENDS Build, SequenceTheorems, TLAPS

Sources == UNION { Saves[f] : f \in File }

AnswerMaps == UNION { [DOMAIN s.expects -> Export \cup {Opaque}] : s \in Sources }

Emission == [file : File, path : { TsPath(f, s) : f \in File, s \in Sources },
             source : Sources, answer : AnswerMaps]

\* While files are checked, every one of them has left an output or a failure
\* behind; writing begins with all of them clean.
ProgressInv ==
    /\ phase = "check" => /\ ~half
                          /\ Len(outputs) < next
                          /\ failures = {} => Len(outputs) + 1 = next
    /\ phase = "write" => /\ failures = {} /\ Len(outputs) = Len(Sorted)
                          /\ next <= Len(outputs) + 1
                          /\ half => next <= Len(outputs)

IInv == /\ TypeOK
        /\ src \in [File -> Sources]
        /\ outputs \in Seq(Emission)
        /\ ProgressInv

\* Whatever the resolver reads is an export or unknown.
LEMMA ReadType ==
    ASSUME IInv, NEW root, NEW p
    PROVE  ReadModule(root, p) \in Export \cup {Opaque}
<1>1. CASE \E f \in FileAt(root, p) : src[f].parses
  <2> DEFINE f == CHOOSE f \in FileAt(root, p) : TRUE
  <2>1. f \in File
    BY <1>1 DEF FileAt
  <2>2. IsSource(src[f])
    BY <2>1, FilesAssumption DEF IInv, TypeOK
  <2> QED BY <1>1, <2>2 DEF ReadModule, IsSource
<1>2. CASE ~\E f \in FileAt(root, p) : src[f].parses
  BY <1>2 DEF ReadModule
<1> QED BY <1>1, <1>2

LEMMA ResolveType ==
    ASSUME IInv, NEW p
    PROVE  Resolve(p) \in Export \cup {Opaque}
BY ReadType DEF Resolve, IInv, TypeOK

\* The output of a file that is clean is one the type invariant expects.
LEMMA OutputType ==
    ASSUME IInv, NEW f \in File, NEW unread, NEW answer, answer = Answers(f, unread)
    PROVE  /\ Output(f, answer) \in Emission
           /\ Clean(src[f], answer) => IsOutput(Output(f, answer))
<1>1. src[f] \in Saves[f] /\ src[f] \in Sources
  BY DEF IInv, TypeOK, Sources
<1>2. answer \in [DOMAIN src[f].expects -> Export \cup {Opaque}]
  BY ResolveType DEF Answers
<1>3. answer \in AnswerMaps
  BY <1>1, <1>2 DEF AnswerMaps
<1>4. TsPath(f, src[f]) \in { TsPath(g, s) : g \in File, s \in Sources }
  BY <1>1
<1>5. Output(f, answer) \in Emission
  BY <1>1, <1>3, <1>4 DEF Output, Emission
<1>6. ASSUME Clean(src[f], answer) PROVE IsOutput(Output(f, answer))
  BY <1>1, <1>2, <1>6 DEF Output, IsOutput
<1> QED BY <1>5, <1>6

\* The files are a sequence, in which `next` is one of them while it is checked.
LEMMA FileAtNext ==
    ASSUME IInv, phase = "check", next <= Len(Sorted)
    PROVE  Sorted[next] \in File /\ next \in Nat \ {0} /\ Len(Sorted) \in Nat
<1>1. Sorted \in Seq(File) /\ Len(Sorted) \in Nat
  BY FilesAssumption, LenProperties
<1>2. next \in 1..Len(Sorted)
  BY <1>1 DEF IInv, TypeOK
<1> QED BY <1>1, <1>2, ElementOfSeq

\* What the check of a file does, with the imports it fails to read.
LEMMA CheckFacts ==
    ASSUME IInv, CheckNext
    PROVE  LET f == Sorted[next]
           IN  \E unread :
                 /\ unread \cap DOMAIN cache = {}
                 /\ cache' = Remember(Answers(f, unread))
                 /\ missed' = (missed \/ unread # {})
                 /\ \/ /\ outputs' = Append(outputs, Output(f, Answers(f, unread)))
                       /\ Clean(src[f], Answers(f, unread)) /\ failures' = failures
                    \/ /\ failures' = failures \cup {f} /\ outputs' = outputs
                       /\ ~Clean(src[f], Answers(f, unread))
<1> DEFINE f == Sorted[next]
<1>1. PICK unread \in SUBSET (DOMAIN src[f].expects \ DOMAIN cache) :
         LET answer == Answers(f, unread)
         IN  /\ cache' = Remember(answer) /\ missed' = (missed \/ unread # {})
             /\ IF Clean(src[f], answer)
                THEN /\ outputs' = Append(outputs, Output(f, answer))
                     /\ UNCHANGED failures
                ELSE /\ failures' = failures \cup {f}
                     /\ UNCHANGED outputs
  BY DEF CheckNext
<1>2. unread \cap DOMAIN cache = {}
  BY <1>1
<1> HIDE DEF f
<1> QED BY <1>1, <1>2 DEF f

LEMMA InitInv == Init => IInv
<1> SUFFICES ASSUME Init PROVE IInv
  OBVIOUS
<1>1. src \in [File -> Sources] /\ \A f \in File : src[f] \in Saves[f]
  BY DEF Init, Sources
<1>2. outputs \in Seq(Emission) /\ Len(outputs) = 0
  BY EmptySeq DEF Init
<1>3. Len(Sorted) \in Nat
  BY FilesAssumption, LenProperties
<1>4. TypeOK
  <2>1. DOMAIN cache = {} /\ DOMAIN outputs = {} /\ DOMAIN dist = {}
    BY DEF Init, EmptyMap
  <2>2. 0 \in 0..MaxSaves /\ 0 \in 0..MaxBuilds /\ 1 \in 1..(Len(Sorted) + 1)
    BY <1>3, FilesAssumption
  <2> QED BY <1>1, <2>1, <2>2 DEF Init, TypeOK
<1> QED BY <1>1, <1>2, <1>4 DEF Init, IInv, ProgressInv

\* A file that is checked adds one output or one failure.
LEMMA CheckKeeps ==
    ASSUME IInv, CheckNext
    PROVE  IInv'
<1> DEFINE f == Sorted[next]
<1>0. PICK unread :
         /\ cache' = Remember(Answers(f, unread)) /\ missed' = (missed \/ unread # {})
         /\ \/ /\ outputs' = Append(outputs, Output(f, Answers(f, unread)))
               /\ Clean(src[f], Answers(f, unread)) /\ failures' = failures
            \/ failures' = failures \cup {f} /\ outputs' = outputs
  BY CheckFacts
<1> DEFINE answer == Answers(f, unread)
<1>1. f \in File /\ next \in Nat \ {0} /\ Len(Sorted) \in Nat
  BY FileAtNext DEF CheckNext
<1>2. /\ Output(f, answer) \in Emission
      /\ Clean(src[f], answer) => IsOutput(Output(f, answer))
  BY <1>1, OutputType
<1>3. \A p \in DOMAIN cache' : cache'[p] \in Export \cup {Opaque}
  <2>1. \A p \in DOMAIN answer : answer[p] \in Export \cup {Opaque}
    BY ResolveType DEF Answers
  <2>2. \A p \in DOMAIN cache : cache[p] \in Export \cup {Opaque}
    BY DEF IInv, TypeOK
  <2> HIDE DEF answer
  <2>3. cache' = Remember(answer)
    BY <1>0 DEF answer
  <2> QED BY <2>1, <2>2, <2>3 DEF Remember
<1>4. \/ /\ outputs' = Append(outputs, Output(f, answer)) /\ Clean(src[f], answer)
         /\ failures' = failures
      \/ failures' = failures \cup {f} /\ outputs' = outputs
  BY <1>0
<1>7. missed' \in BOOLEAN
  BY <1>0 DEF IInv, TypeOK
<1> HIDE DEF f, answer
<1>5. /\ outputs' \in Seq(Emission)
      /\ \A i \in DOMAIN outputs' : IsOutput(outputs'[i])
      /\ failures' \subseteq File
      /\ Len(outputs') < next + 1
      /\ failures' = {} => Len(outputs') + 1 = next + 1
  <2>1. /\ Len(outputs) \in Nat /\ DOMAIN outputs = 1..Len(outputs)
        /\ \A i \in 1..Len(outputs) : IsOutput(outputs[i])
    BY LenProperties DEF IInv, TypeOK
  <2>2. /\ failures \subseteq File /\ Len(outputs) < next
        /\ failures = {} => Len(outputs) + 1 = next
    BY DEF CheckNext, IInv, TypeOK, ProgressInv
  <2>3. CASE failures' = failures \cup {f} /\ outputs' = outputs
    BY <1>1, <2>1, <2>2, <2>3 DEF IInv
  <2>4. CASE /\ outputs' = Append(outputs, Output(f, answer)) /\ Clean(src[f], answer)
             /\ failures' = failures
    <3>1. /\ outputs' \in Seq(Emission) /\ Len(outputs') = Len(outputs) + 1
          /\ \A i \in 1..Len(outputs) : outputs'[i] = outputs[i]
          /\ outputs'[Len(outputs) + 1] = Output(f, answer)
      BY <1>2, <2>4, AppendProperties DEF IInv
    <3>2. DOMAIN outputs' = 1..(Len(outputs) + 1)
      BY <3>1, LenProperties
    <3>3. \A i \in DOMAIN outputs' : IsOutput(outputs'[i])
      BY <1>2, <2>1, <2>4, <3>1, <3>2
    <3> QED BY <1>1, <2>1, <2>2, <2>4, <3>1, <3>3
  <2> QED BY <1>4, <2>3, <2>4
<1>6. TypeOK'
  <2>1. next' \in 1..(Len(Sorted) + 1)
    BY <1>1 DEF CheckNext
  <2>2. UNCHANGED <<src, saves, builds, maps, phase, exit, half, dist, before>>
    BY DEF CheckNext
  <2> QED BY <1>3, <1>5, <1>7, <2>1, <2>2 DEF IInv, TypeOK, IsOutput
<1> QED BY <1>5, <1>6 DEF CheckNext, IInv, ProgressInv

\* What is written is an output.
LEMMA ExtendKeeps ==
    ASSUME IInv, NEW k, NEW n \in BOOLEAN, NEW w \in BOOLEAN, NEW i \in DOMAIN outputs,
           dist' = Extend(dist, k, [of |-> outputs[i], named |-> n, whole |-> w])
    PROVE  \A j \in DOMAIN dist' : /\ IsOutput(dist'[j].of)
                                   /\ dist'[j].named \in BOOLEAN /\ dist'[j].whole \in BOOLEAN
BY DEF IInv, TypeOK, Extend

\* A torn file is torn from an output, in the write phase.
LEMMA TearKeeps ==
    ASSUME IInv, MayTear
    PROVE  /\ \A j \in DOMAIN dist' : /\ IsOutput(dist'[j].of)
                                      /\ dist'[j].named \in BOOLEAN
                                      /\ dist'[j].whole \in BOOLEAN
           /\ dist' = dist \/ phase = "write"
<1>1. CASE UNCHANGED dist
  BY <1>1 DEF IInv, TypeOK
<1>2. CASE ~UNCHANGED dist
  <2> DEFINE key == IF half THEN Map(outputs[next].path) ELSE Ts(outputs[next].path)
  <2>1. /\ phase = "write" /\ next <= Len(outputs)
        /\ dist' = Extend(dist, key,
                          [of |-> outputs[next], named |-> maps /\ ~half, whole |-> FALSE])
    BY <1>2 DEF MayTear
  <2>2. next \in DOMAIN outputs
    <3>1. Len(outputs) \in Nat /\ DOMAIN outputs = 1..Len(outputs)
      BY LenProperties DEF IInv
    <3>2. Len(Sorted) \in Nat
      BY FilesAssumption, LenProperties
    <3> QED BY <2>1, <3>1, <3>2 DEF IInv, TypeOK
  <2>3. (maps /\ ~half) \in BOOLEAN /\ FALSE \in BOOLEAN
    BY DEF IInv, TypeOK
  <2> HIDE DEF key
  <2> QED BY <2>1, <2>2, <2>3, ExtendKeeps
<1> QED BY <1>1, <1>2

LEMMA WriteKeeps ==
    ASSUME IInv, WriteTs \/ WriteMap
    PROVE  IInv'
<1>1. /\ phase = "write" /\ next \in 1..Len(outputs) /\ Len(outputs) \in Nat
      /\ Len(outputs) = Len(Sorted) /\ next \in DOMAIN outputs /\ failures = {}
  <2>1. Len(outputs) \in Nat /\ DOMAIN outputs = 1..Len(outputs)
    BY LenProperties DEF IInv
  <2> QED BY <2>1 DEF WriteTs, WriteMap, IInv, TypeOK, ProgressInv
<1>2. \A j \in DOMAIN dist' : /\ IsOutput(dist'[j].of)
                              /\ dist'[j].named \in BOOLEAN /\ dist'[j].whole \in BOOLEAN
  BY <1>1, ExtendKeeps DEF WriteTs, WriteMap, IInv, TypeOK
<1>3. /\ next' \in {next, next + 1} /\ half' \in BOOLEAN /\ (half' => next' = next)
      /\ UNCHANGED <<src, saves, builds, maps, phase, exit, cache, missed, outputs, failures,
                     before>>
  BY DEF WriteTs, WriteMap, IInv, TypeOK
<1>4. TypeOK'
  BY <1>1, <1>2, <1>3 DEF IInv, TypeOK, IsOutput
<1>5. ProgressInv'
  BY <1>1, <1>3 DEF IInv, ProgressInv
<1> QED BY <1>3, <1>4, <1>5 DEF IInv

LEMMA SaveKeeps ==
    ASSUME IInv, NEW f \in File, Save(f)
    PROVE  IInv'
<1>1. PICK s \in Saves[f] : src' = [src EXCEPT ![f] = s]
  BY DEF Save
<1>2. src' \in [File -> Sources] /\ \A g \in File : src'[g] \in Saves[g]
  BY <1>1 DEF IInv, TypeOK, Sources
<1>3. saves' \in 0..MaxSaves
  BY FilesAssumption DEF Save, IInv, TypeOK
<1>4. TypeOK'
  BY <1>2, <1>3 DEF Save, IInv, TypeOK
<1> QED BY <1>2, <1>4 DEF Save, IInv, ProgressInv

LEMMA StepKeeps ==
    ASSUME IInv, [Next]_vars
    PROVE  IInv'
<1>0. Len(Sorted) \in Nat /\ Len(outputs) \in Nat
  BY FilesAssumption, LenProperties DEF IInv
<1>1. CASE \E f \in File : Save(f)
  BY <1>1, SaveKeeps
<1>2. CASE Start
  <2>1. outputs' \in Seq(Emission) /\ Len(outputs') = 0 /\ DOMAIN outputs' = {}
    BY <1>2, EmptySeq DEF Start
  <2>2. TypeOK'
    <3>1. DOMAIN cache' = {} /\ failures' = {}
      BY <1>2 DEF Start, EmptyMap
    <3>2. builds' \in 0..MaxBuilds /\ next' \in 1..(Len(Sorted) + 1)
      BY <1>0, <1>2, FilesAssumption DEF Start, IInv, TypeOK
    <3>3. /\ maps' \in BOOLEAN /\ phase' = "check" /\ half' = FALSE /\ missed' = FALSE
          /\ UNCHANGED <<src, saves, exit, dist>>
      BY <1>2 DEF Start
    <3> QED BY <2>1, <3>1, <3>2, <3>3 DEF IInv, TypeOK, IsOutput
  <2> QED BY <1>2, <2>1, <2>2 DEF Start, IInv, ProgressInv
<1>3. CASE CheckNext
  BY <1>3, CheckKeeps
<1>4. CASE Decide
  <2>1. next > Len(Sorted) /\ next <= Len(Sorted) + 1 /\ next \in Nat
    BY <1>0, <1>4 DEF Decide, IInv, TypeOK
  <2>2. TypeOK'
    BY <1>0, <1>4 DEF Decide, IInv, TypeOK
  <2>3. ProgressInv'
    BY <1>0, <1>4, <2>1 DEF Decide, IInv, ProgressInv
  <2> QED BY <1>4, <2>2, <2>3 DEF Decide, IInv
<1>5. CASE WriteTs \/ WriteMap
  BY <1>5, WriteKeeps
<1>6. CASE ReadFails \/ WriteFails \/ Wrote \/ Kill
  <2>1. /\ phase' = "idle" /\ exit' \in {"ok", "usage", "killed"}
        /\ UNCHANGED <<src, saves, builds, maps, next, half, cache, missed, outputs, failures,
                       before>>
        /\ UNCHANGED dist \/ MayTear
    BY <1>6 DEF ReadFails, WriteFails, Wrote, Kill
  <2>2. \A j \in DOMAIN dist' : /\ IsOutput(dist'[j].of)
                                /\ dist'[j].named \in BOOLEAN /\ dist'[j].whole \in BOOLEAN
    BY <2>1, TearKeeps DEF IInv, TypeOK
  <2> QED BY <2>1, <2>2 DEF IInv, TypeOK, IsOutput, ProgressInv
<1>7. CASE UNCHANGED vars
  BY <1>7 DEF vars, IInv, TypeOK, ProgressInv
<1> QED BY <1>1, <1>2, <1>3, <1>4, <1>5, <1>6, <1>7 DEF Next, BuildStep

\* The variables hold what they are meant to hold, for all files, saves and
\* builds (kei_cli/src/build.rs).
THEOREM TypeCorrect == Spec => []TypeOK
<1>1. IInv => TypeOK
  BY DEF IInv
<1> QED BY InitInv, StepKeeps, <1>1, PTL DEF Spec
-----------------------------------------------------------------------------
LEMMA AllOrNothingKeeps ==
    ASSUME IInv, AllOrNothing, [Next]_vars
    PROVE  AllOrNothing'
<1>1. CASE Start
  BY <1>1 DEF Start, AllOrNothing
<1>2. CASE CheckNext
  BY <1>2 DEF CheckNext, AllOrNothing
<1>3. CASE Decide
  BY <1>3 DEF Decide, AllOrNothing
<1>4. CASE WriteTs \/ WriteMap
  BY <1>4 DEF WriteTs, WriteMap, AllOrNothing, IInv, ProgressInv
<1>5. CASE ReadFails
  BY <1>5 DEF ReadFails, AllOrNothing
<1>6. CASE Wrote
  BY <1>6 DEF Wrote, AllOrNothing
<1>8. CASE WriteFails \/ Kill
  <2>1. /\ phase # "idle" /\ phase' = "idle" /\ exit' # "errors"
        /\ UNCHANGED <<outputs, failures, before>>
        /\ dist' = dist \/ phase = "write"
    BY <1>8, TearKeeps DEF WriteFails, Kill
  <2> QED BY <2>1 DEF AllOrNothing, IInv, ProgressInv
<1>7. CASE (\E f \in File : Save(f)) \/ UNCHANGED vars
  BY <1>7 DEF Save, vars, AllOrNothing
<1> QED BY <1>1, <1>2, <1>3, <1>4, <1>5, <1>6, <1>7, <1>8 DEF Next, BuildStep

\* However files are saved, reads and writes fail and builds are killed: the
\* output directory changes in a build only when all of its files are clean
\* (kei_cli/src/build.rs, the check phase before the write phase).
THEOREM AllOrNothingHolds == Spec => []AllOrNothing
<1>1. Init => AllOrNothing
  BY DEF Init, AllOrNothing
<1> QED BY InitInv, StepKeeps, <1>1, AllOrNothingKeeps, PTL DEF Spec
-----------------------------------------------------------------------------
\* Every answer an output was checked with is in the cache.
CacheInv ==
    \A i \in DOMAIN outputs : \A p \in DOMAIN outputs[i].answer :
        p \in DOMAIN cache /\ outputs[i].answer[p] = cache[p]

LEMMA CacheKeeps ==
    ASSUME IInv, CacheInv, [Next]_vars
    PROVE  CacheInv'
<1>1. CASE Start
  <2>1. DOMAIN outputs' = {}
    BY <1>1 DEF Start
  <2> QED BY <2>1 DEF CacheInv
<1>2. CASE CheckNext
  <2> DEFINE f == Sorted[next]
  <2>0. PICK unread :
           /\ unread \cap DOMAIN cache = {} /\ cache' = Remember(Answers(f, unread))
           /\ outputs' \in {outputs, Append(outputs, Output(f, Answers(f, unread)))}
    BY <1>2, CheckFacts
  <2> DEFINE answer == Answers(f, unread)
  <2>1. \A p \in DOMAIN cache : p \in DOMAIN cache' /\ cache'[p] = cache[p]
    BY <2>0 DEF Remember, Answers, Resolve
  <2>2. \A p \in DOMAIN answer : p \in DOMAIN cache' /\ cache'[p] = answer[p]
    BY <2>0 DEF Remember
  <2>3. Output(f, answer) \in Emission /\ Output(f, answer).answer = answer
    BY <1>2, FileAtNext, OutputType DEF CheckNext, Output
  <2>4. outputs' \in {outputs, Append(outputs, Output(f, answer))}
    BY <2>0
  <2> HIDE DEF f, answer
  <2>5. CASE outputs' = outputs
    BY <2>1, <2>5 DEF CacheInv
  <2>6. CASE outputs' = Append(outputs, Output(f, answer))
    <3>1. /\ Len(outputs) \in Nat /\ DOMAIN outputs = 1..Len(outputs)
          /\ outputs' \in Seq(Emission) /\ Len(outputs') = Len(outputs) + 1
          /\ \A i \in 1..Len(outputs) : outputs'[i] = outputs[i]
          /\ outputs'[Len(outputs) + 1] = Output(f, answer)
      BY <2>3, <2>6, AppendProperties, LenProperties DEF IInv
    <3>2. DOMAIN outputs' = 1..(Len(outputs) + 1)
      BY <3>1, LenProperties
    <3>3. ASSUME NEW i \in DOMAIN outputs', NEW p \in DOMAIN outputs'[i].answer
          PROVE  p \in DOMAIN cache' /\ outputs'[i].answer[p] = cache'[p]
      <4>1. CASE i = Len(outputs) + 1
        BY <2>2, <2>3, <3>1, <3>3, <4>1
      <4>2. CASE i # Len(outputs) + 1
        <5>1. i \in DOMAIN outputs /\ outputs'[i] = outputs[i]
          BY <3>1, <3>2, <4>2
        <5> QED BY <2>1, <3>3, <5>1 DEF CacheInv
      <4> QED BY <4>1, <4>2
    <3> QED BY <3>3 DEF CacheInv
  <2> QED BY <2>4, <2>5, <2>6
<1>3. CASE \/ Decide \/ WriteTs \/ WriteMap \/ Wrote \/ ReadFails \/ WriteFails \/ Kill
           \/ (\E f \in File : Save(f)) \/ UNCHANGED vars
  <2>1. UNCHANGED <<outputs, cache>>
    BY <1>3 DEF Decide, WriteTs, WriteMap, Wrote, ReadFails, WriteFails, Kill, Save, vars
  <2> QED BY <2>1 DEF CacheInv
<1> QED BY <1>1, <1>2, <1>3 DEF Next, BuildStep

\* The files one build emits were checked against one view of every module they
\* import, whenever it is saved (kei_cli/src/resolve.rs, the shared cache).
THEOREM OneViewOfImports == Spec => []ImportersAgree
<1>1. Init => CacheInv
  BY DEF Init, CacheInv
<1>2. CacheInv => ImportersAgree
  BY DEF CacheInv, ImportersAgree
<1> QED BY InitInv, StepKeeps, <1>1, <1>2, CacheKeeps, PTL DEF Spec
-----------------------------------------------------------------------------
TsDone(i) == /\ Ts(outputs[i].path) \in DOMAIN dist
             /\ dist[Ts(outputs[i].path)].of = outputs[i]
             /\ dist[Ts(outputs[i].path)].whole

Done(i) == /\ TsDone(i)
           /\ dist[Ts(outputs[i].path)].named =>
                /\ Map(outputs[i].path) \in DOMAIN dist
                /\ dist[Map(outputs[i].path)].of = outputs[i]
                /\ dist[Map(outputs[i].path)].whole

\* The outputs before `next` are there, one that is half written by its code.
WrittenInv ==
    /\ phase = "write" => /\ \A i \in DOMAIN outputs : i < next /\ UniquePath(i) => Done(i)
                          /\ half => TsDone(next)
    /\ SuccessIsComplete

\* No name of code is the name of a map.
LEMMA NamesDiffer ==
    \A p, q : Ts(p) # Map(q) /\ (Ts(p) = Ts(q) => p = q) /\ (Map(p) = Map(q) => p = q)
BY DEF Ts, Map

LEMMA WrittenKeeps ==
    ASSUME IInv, WrittenInv, [Next]_vars
    PROVE  WrittenInv'
<1>0. /\ Len(outputs) \in Nat /\ DOMAIN outputs = 1..Len(outputs)
      /\ next \in Nat /\ Len(Sorted) \in Nat
  BY FilesAssumption, LenProperties DEF IInv, TypeOK
<1>1. CASE Start \/ CheckNext \/ ReadFails \/ WriteFails \/ Kill
  BY <1>1 DEF Start, CheckNext, ReadFails, WriteFails, Kill, WrittenInv, SuccessIsComplete
<1>2. CASE Decide
  <2>1. /\ next' = 1 /\ half' = FALSE /\ outputs' = outputs
        /\ ~(phase' = "idle" /\ exit' = "ok")
    BY <1>2 DEF Decide, IInv, ProgressInv
  <2> QED BY <1>0, <2>1 DEF WrittenInv, SuccessIsComplete
<1>3. CASE WriteTs
  <2> DEFINE o == outputs[next]
  <2>1. /\ next \in DOMAIN outputs /\ phase = "write" /\ phase' = "write"
        /\ outputs' = outputs
        /\ dist' = Extend(dist, Ts(o.path), [of |-> o, named |-> maps, whole |-> TRUE])
        /\ \/ maps /\ half' = TRUE /\ next' = next
           \/ ~maps /\ half' = FALSE /\ next' = next + 1
    BY <1>0, <1>3 DEF WriteTs, IInv, TypeOK, ProgressInv
  <2>2. TsDone(next)' \/ next' = next + 1
    BY <2>1 DEF TsDone, Extend
  <2>3. ASSUME NEW i \in DOMAIN outputs, i < next', UniquePath(i)
        PROVE  Done(i)'
    <3>1. CASE i = next
      BY <2>1, <2>3, <3>1, <1>0 DEF Done, TsDone, Extend
    <3>2. CASE i # next
      <4>1. i < next /\ Done(i)
        BY <1>0, <2>1, <2>3, <3>2 DEF WrittenInv
      <4>2. outputs[i].path # o.path
        BY <2>1, <2>3, <3>2 DEF UniquePath
      <4>3. Ts(outputs[i].path) # Ts(o.path) /\ Map(outputs[i].path) # Ts(o.path)
        BY <4>2, NamesDiffer
      <4> HIDE DEF o
      <4> QED BY <2>1, <4>1, <4>3 DEF Done, TsDone, Extend
    <3> QED BY <3>1, <3>2
  <2> QED BY <1>0, <2>1, <2>2, <2>3 DEF WrittenInv, SuccessIsComplete, UniquePath
<1>4. CASE WriteMap
  <2> DEFINE o == outputs[next]
  <2>1. /\ next \in DOMAIN outputs /\ phase = "write" /\ phase' = "write"
        /\ outputs' = outputs /\ half /\ ~half' /\ next' = next + 1
        /\ dist' = Extend(dist, Map(o.path), [of |-> o, named |-> FALSE, whole |-> TRUE])
    BY <1>0, <1>4 DEF WriteMap, IInv, TypeOK, ProgressInv
  <2>3. ASSUME NEW i \in DOMAIN outputs, i < next', UniquePath(i)
        PROVE  Done(i)'
    <3>1. CASE i = next
      <4>1. TsDone(next) /\ Ts(o.path) # Map(o.path)
        BY <2>1, NamesDiffer DEF WrittenInv
      <4> QED BY <2>1, <3>1, <4>1 DEF Done, TsDone, Extend
    <3>2. CASE i # next
      <4>1. i < next /\ Done(i)
        BY <1>0, <2>1, <2>3, <3>2 DEF WrittenInv
      <4>2. outputs[i].path # o.path
        BY <2>1, <2>3, <3>2 DEF UniquePath
      <4>3. Map(outputs[i].path) # Map(o.path) /\ Ts(outputs[i].path) # Map(o.path)
        BY <4>2, NamesDiffer
      <4> HIDE DEF o
      <4> QED BY <2>1, <4>1, <4>3 DEF Done, TsDone, Extend
    <3> QED BY <3>1, <3>2
  <2> QED BY <1>0, <2>1, <2>3 DEF WrittenInv, SuccessIsComplete, UniquePath
<1>5. CASE Wrote
  <2>1. /\ phase = "write" /\ next > Len(outputs) /\ Len(outputs) = Len(Sorted)
        /\ UNCHANGED <<outputs, dist>> /\ phase' = "idle"
    BY <1>5 DEF Wrote, IInv, ProgressInv
  <2>2. \A i \in DOMAIN outputs : UniquePath(i) => Done(i)
    BY <1>0, <2>1 DEF WrittenInv
  <2> QED BY <2>1, <2>2 DEF WrittenInv, SuccessIsComplete, UniquePath, Done, TsDone
<1>6. CASE (\E f \in File : Save(f)) \/ UNCHANGED vars
  <2>1. UNCHANGED <<outputs, dist, phase, exit, next, half>>
    BY <1>6 DEF Save, vars
  <2> QED BY <2>1 DEF WrittenInv, SuccessIsComplete, UniquePath, Done, TsDone
<1> QED BY <1>1, <1>2, <1>3, <1>4, <1>5, <1>6 DEF Next, BuildStep

\* A build that succeeds has written the code of every file and the map that
\* code names, over the leavings of builds that did not (kei_cli/src/build.rs,
\* the write phase).
THEOREM SuccessComplete == Spec => []SuccessIsComplete
<1>1. Init => WrittenInv
  BY DEF Init, WrittenInv, SuccessIsComplete
<1>2. WrittenInv => SuccessIsComplete
  BY DEF WrittenInv
<1> QED BY InitInv, StepKeeps, <1>1, <1>2, WrittenKeeps, PTL DEF Spec
-----------------------------------------------------------------------------
\* What the imports of a source are, read from the root of the build.
Answer(s) == [p \in DOMAIN s.expects |-> ReadModule(Dir, p)]

\* Until something is saved, the cache is what the files say unless it could not
\* be read, and the failures are the files that are not clean against that.
AgreeInv ==
    saves = 0 /\ phase = "check" =>
        /\ \A p \in DOMAIN cache : \/ cache[p] = ReadModule(Dir, p)
                                   \/ missed /\ cache[p] = Opaque
        /\ failures \subseteq { Sorted[i] : i \in 1..(next - 1) }
        /\ \A i \in 1..(next - 1) :
              IF Sorted[i] \in failures
              THEN ~Clean(src[Sorted[i]], Answer(src[Sorted[i]]))
              ELSE missed \/ Clean(src[Sorted[i]], Answer(src[Sorted[i]]))

\* An import that is not read makes a file no less clean.
LEMMA OpaqueIsClean ==
    ASSUME NEW s, NEW a, NEW b, Clean(s, a),
           \A p \in DOMAIN s.expects : b[p] = a[p] \/ b[p] = Opaque
    PROVE  Clean(s, b)
BY DEF Clean

LEMMA AgreeKeeps ==
    ASSUME IInv, AgreeInv, [Next]_vars
    PROVE  AgreeInv'
<1>1. CASE Start
  BY <1>1 DEF Start, AgreeInv, EmptyMap
<1>2. CASE CheckNext
  <2> SUFFICES ASSUME saves = 0
               PROVE  AgreeInv'
    BY <1>2 DEF CheckNext, AgreeInv
  <2> DEFINE f == Sorted[next]
  <2>0. PICK unread :
           /\ unread \cap DOMAIN cache = {} /\ cache' = Remember(Answers(f, unread))
           /\ missed' = (missed \/ unread # {})
           /\ failures' = IF Clean(src[f], Answers(f, unread)) THEN failures
                          ELSE failures \cup {f}
    BY <1>2, CheckFacts
  <2> DEFINE answer == Answers(f, unread)
  <2>1. /\ next \in Nat \ {0} /\ next' = next + 1 /\ next \in DOMAIN Sorted
        /\ src' = src /\ phase = "check"
    <3>1. DOMAIN Sorted = 1..Len(Sorted)
      BY FilesAssumption, LenProperties
    <3> QED BY <1>2, <3>1, FileAtNext DEF CheckNext
  <2>2. \A p : /\ ReadModule(Dir, p)' = ReadModule(Dir, p)
               /\ Resolve(p) = ReadModule(Dir, p) \/ (missed /\ Resolve(p) = Opaque)
    BY <2>1 DEF AgreeInv, Resolve, ReadModule
  <2>3. \A p \in DOMAIN answer : /\ DOMAIN answer = DOMAIN src[f].expects
                                 /\ \/ answer[p] = ReadModule(Dir, p)
                                    \/ missed' /\ answer[p] = Opaque
    BY <2>0, <2>2 DEF Answers
  <2>4. \A s : Answer(s)' = Answer(s)
    BY <2>2 DEF Answer
  <2> DEFINE known == Answer(src[f])
  <2>5. /\ \A p \in DOMAIN src[f].expects : known[p] = ReadModule(Dir, p)
        /\ DOMAIN answer = DOMAIN src[f].expects
    BY DEF Answer, Answers
  <2>6. /\ failures' = (IF Clean(src[f], answer) THEN failures ELSE failures \cup {f})
        /\ cache' = Remember(answer) /\ (missed => missed')
    BY <2>0
  <2> HIDE DEF answer
  <2>12. \A p \in DOMAIN cache' : \/ cache'[p] = ReadModule(Dir, p)'
                                  \/ missed' /\ cache'[p] = Opaque
    <3> TAKE p \in DOMAIN cache'
    <3>1. cache'[p] = (IF p \in DOMAIN answer THEN answer[p] ELSE cache[p])
          /\ (p \in DOMAIN answer \/ p \in DOMAIN cache)
      BY <2>6 DEF Remember
    <3>2. ReadModule(Dir, p)' = ReadModule(Dir, p)
      BY <2>2
    <3>3. p \in DOMAIN cache => cache[p] = ReadModule(Dir, p) \/ (missed /\ cache[p] = Opaque)
      BY <2>1 DEF AgreeInv
    <3>4. p \in DOMAIN answer => answer[p] = ReadModule(Dir, p) \/ (missed' /\ answer[p] = Opaque)
      BY <2>3
    <3>5. missed => missed'
      BY <2>6
    <3>6. CASE p \in DOMAIN answer
      <4>1. cache'[p] = answer[p]
        BY <3>1, <3>6
      <4> QED BY <3>2, <3>4, <3>6, <4>1
    <3>7. CASE p \notin DOMAIN answer
      <4>1. cache'[p] = cache[p] /\ p \in DOMAIN cache
        BY <3>1, <3>7
      <4> QED BY <3>2, <3>3, <3>5, <4>1
    <3> QED BY <3>6, <3>7
  <2> HIDE DEF known
  <2>13. /\ Clean(src[f], known) => Clean(src[f], answer)
         /\ ~missed' /\ Clean(src[f], answer) => Clean(src[f], known)
    <3>1. \A p \in DOMAIN src[f].expects : answer[p] = known[p] \/ (missed' /\ answer[p] = Opaque)
      BY <2>3, <2>5
    <3>2. ASSUME Clean(src[f], known) PROVE Clean(src[f], answer)
      BY <3>1, <3>2, OpaqueIsClean
    <3>3. ASSUME ~missed', Clean(src[f], answer) PROVE Clean(src[f], known)
      BY <3>1, <3>3, OpaqueIsClean
    <3> QED BY <3>2, <3>3
  <2>7. \A i \in 1..(next - 1) : Sorted[i] # f
    BY <2>1, FilesAssumption, LenProperties
  <2>8. failures' \subseteq { Sorted[i] : i \in 1..next }
    BY <2>1, <2>6 DEF AgreeInv
  <2>9. f \notin failures
    BY <2>1, <2>7 DEF AgreeInv
  <2>10. \A i \in 1..next :
            IF Sorted[i] \in failures'
            THEN ~Clean(src[Sorted[i]], Answer(src[Sorted[i]]))
            ELSE missed' \/ Clean(src[Sorted[i]], Answer(src[Sorted[i]]))
    <3> TAKE i \in 1..next
    <3>1. CASE i = next
      BY <2>6, <2>9, <2>13, <3>1 DEF known
    <3>2. CASE i # next
      <4>1. i \in 1..(next - 1)
        BY <2>1, <3>2
      <4>2. Sorted[i] \in failures' <=> Sorted[i] \in failures
        BY <2>6, <2>7, <4>1
      <4> QED BY <2>1, <2>6, <4>1, <4>2 DEF AgreeInv
    <3> QED BY <3>1, <3>2
  <2>11. 1..(next' - 1) = 1..next
    BY <2>1
  <2> QED BY <2>1, <2>4, <2>8, <2>10, <2>11, <2>12 DEF AgreeInv, Clean
<1>3. CASE Decide \/ WriteTs \/ WriteMap \/ Wrote \/ ReadFails \/ WriteFails \/ Kill
  BY <1>3 DEF Decide, WriteTs, WriteMap, Wrote, ReadFails, WriteFails, Kill, AgreeInv
<1>4. CASE \E f \in File : Save(f)
  <2>1. saves' # 0
    BY <1>4 DEF Save, IInv, TypeOK
  <2> QED BY <2>1 DEF AgreeInv
<1>5. CASE UNCHANGED vars
  <2>1. UNCHANGED <<src, saves, phase, next, cache, missed, failures>>
    BY <1>5 DEF vars
  <2>2. \A p : ReadModule(Dir, p)' = ReadModule(Dir, p)
    BY <2>1 DEF ReadModule
  <2>3. \A s : Answer(s)' = Answer(s)
    BY <2>2 DEF Answer
  <2> QED BY <2>1, <2>2, <2>3 DEF AgreeInv, Clean
<1> QED BY <1>1, <1>2, <1>3, <1>4, <1>5 DEF Next, BuildStep

LEMMA SubSeqOf ==
    ASSUME NEW S, NEW q \in Seq(S), NEW m \in 1..(Len(q) + 1), NEW n \in 0..Len(q)
    PROVE  /\ SubSeq(q, m, n) \in Seq(S)
           /\ Len(SubSeq(q, m, n)) = (IF m <= n THEN n - m + 1 ELSE 0)
           /\ \A i \in 1..(n - m + 1) : SubSeq(q, m, n)[i] = q[m + i - 1]
<1>1. Len(q) \in Nat
  BY LenProperties
<1>2. \A i \in m..n : q[i] \in S
  <2> TAKE i \in m..n
  <2>1. i \in 1..Len(q)
    BY <1>1
  <2> QED BY <2>1, ElementOfSeq
<1> QED BY <1>1, <1>2, SubSeqProperties

LEMMA PrefixOf ==
    ASSUME NEW S, NEW q \in Seq(S), NEW n \in 0..Len(q)
    PROVE  /\ SubSeq(q, 1, n) \in Seq(S) /\ Len(SubSeq(q, 1, n)) = n
           /\ \A i \in 1..n : SubSeq(q, 1, n)[i] = q[i]
<1>1. Len(q) \in Nat
  BY LenProperties
<1>2. 1 \in 1..(Len(q) + 1) /\ n - 1 + 1 = n /\ (IF 1 <= n THEN n - 1 + 1 ELSE 0) = n
  BY <1>1
<1> DEFINE t == SubSeq(q, 1, n)
<1>3. /\ t \in Seq(S) /\ Len(t) = (IF 1 <= n THEN n - 1 + 1 ELSE 0)
      /\ \A i \in 1..(n - 1 + 1) : t[i] = q[1 + i - 1]
  BY <1>2, SubSeqOf
<1> HIDE DEF t
<1>4. \A i \in 1..n : 1 + i - 1 = i
  BY <1>1
<1>5. t \in Seq(S) /\ Len(t) = n /\ \A i \in 1..n : t[i] = q[i]
  BY <1>2, <1>3, <1>4
<1> QED BY <1>5 DEF t

\* The segments from the directory k levels below the root of the file system.
Given(f, k) == SubSeq(Dir \o f, k + 1, Len(Dir \o f))

Segments(f) == { Dir[i] : i \in DOMAIN Dir } \cup { f[i] : i \in DOMAIN f }

LEMMA GivenFacts ==
    ASSUME NEW f \in File, NEW k \in 0..(Len(Dir) + Len(f) - 1)
    PROVE  /\ Dir \in Seq(Segments(f)) /\ f \in Seq(Segments(f))
           /\ Len(Dir) \in Nat /\ Len(f) \in Nat \ {0}
           /\ Dir \o f \in Seq(Segments(f)) /\ Len(Dir \o f) = Len(Dir) + Len(f)
           /\ \A i \in 1..(Len(Dir) + Len(f)) :
                 (Dir \o f)[i] = IF i <= Len(Dir) THEN Dir[i] ELSE f[i - Len(Dir)]
           /\ Given(f, k) \in Seq(Segments(f)) /\ Len(Given(f, k)) = Len(Dir) + Len(f) - k
           /\ \A i \in 1..(Len(Dir) + Len(f) - k) : Given(f, k)[i] = (Dir \o f)[k + i]
<1> DEFINE S == Segments(f)
           full == Dir \o f
<1>1. Dir \in Seq(S) /\ f \in Seq(S) /\ f # <<>>
  <2>1. IsPath(Dir) /\ IsPath(f) /\ f # <<>>
    BY FilesAssumption
  <2> QED BY <2>1, SeqMonotonic DEF IsPath, Segments
<1> HIDE DEF S
<1>2. Len(Dir) \in Nat /\ Len(f) \in Nat \ {0}
  BY <1>1, LenProperties, EmptySeq
<1>3. /\ full \in Seq(S) /\ Len(full) = Len(Dir) + Len(f)
      /\ \A i \in 1..(Len(Dir) + Len(f)) :
            full[i] = IF i <= Len(Dir) THEN Dir[i] ELSE f[i - Len(Dir)]
  BY <1>1, ConcatProperties
<1> HIDE DEF full
<1>4. k + 1 \in 1..(Len(full) + 1) /\ Len(full) \in 0..Len(full)
  BY <1>2, <1>3
<1> DEFINE t == SubSeq(full, k + 1, Len(full))
<1>5. /\ t \in Seq(S) /\ Len(t) = (IF k + 1 <= Len(full) THEN Len(full) - (k + 1) + 1 ELSE 0)
      /\ \A i \in 1..(Len(full) - (k + 1) + 1) : t[i] = full[k + 1 + i - 1]
  BY <1>3, <1>4, SubSeqOf
<1> HIDE DEF t
<1>6. /\ Len(t) = Len(Dir) + Len(f) - k
      /\ \A i \in 1..(Len(Dir) + Len(f) - k) : t[i] = full[k + i]
  <2>1. Len(full) - (k + 1) + 1 = Len(Dir) + Len(f) - k /\ k + 1 <= Len(full)
    BY <1>2, <1>3
  <2>2. \A i \in 1..(Len(Dir) + Len(f) - k) : k + 1 + i - 1 = k + i
    BY <1>2
  <2> QED BY <1>5, <2>1, <2>2
<1> QED BY <1>1, <1>2, <1>3, <1>5, <1>6 DEF S, full, t, Given

\* A declaration that is the path of its file leads back to the directory, when
\* enough of the path is given.
LEMMA RootIsDir ==
    ASSUME NEW f \in File, NEW k \in 0..Len(Dir), NEW s, s.decl = f
    PROVE  { SubSeq(Dir \o f, 1, k) \o r : r \in DeriveRoot(Given(f, k), s) } = {Dir}
<1> DEFINE S == Segments(f)
           full == Dir \o f
           given == Given(f, k)
           d == Len(Dir)
           n == Len(f)
<1>0. Len(Dir) \in Nat
  <2>1. IsPath(Dir)
    BY FilesAssumption
  <2> QED BY <2>1, LenProperties DEF IsPath
<1>1. k \in 0..(Len(Dir) + Len(f) - 1)
  <2>1. Len(f) \in Nat \ {0}
    <3>1. IsPath(f) /\ f # <<>>
      BY FilesAssumption
    <3> QED BY <3>1, LenProperties, EmptySeq DEF IsPath
  <2> QED BY <1>0, <2>1
<1>2. /\ Dir \in Seq(S) /\ f \in Seq(S) /\ d \in Nat /\ n \in Nat \ {0}
      /\ full \in Seq(S) /\ Len(full) = d + n
      /\ \A i \in 1..(d + n) : full[i] = IF i <= d THEN Dir[i] ELSE f[i - d]
      /\ given \in Seq(S) /\ Len(given) = d + n - k
      /\ \A i \in 1..(d + n - k) : given[i] = full[k + i]
  BY <1>1, GivenFacts
<1> HIDE DEF S, full, given
<1>3. SubSeq(given, Len(given) - n + 1, Len(given)) = f
  <2> DEFINE t == SubSeq(given, Len(given) - n + 1, Len(given))
  <2>1. /\ Len(given) - n + 1 \in 1..(Len(given) + 1) /\ Len(given) \in 0..Len(given)
        /\ Len(given) - n + 1 <= Len(given)
        /\ Len(given) - (Len(given) - n + 1) + 1 = n
    BY <1>2
  <2>2. /\ t \in Seq(S) /\ Len(t) = n
        /\ \A i \in 1..n : t[i] = given[Len(given) - n + 1 + i - 1]
    BY <1>2, <2>1, SubSeqOf
  <2> HIDE DEF t
  <2>3. \A i \in 1..n : t[i] = f[i]
    <3> TAKE i \in 1..n
    <3>1. Len(given) - n + 1 + i - 1 = d - k + i
      BY <1>2
    <3>2. d - k + i \in 1..(d + n - k) /\ k + (d - k + i) = d + i
      BY <1>2
    <3>3. d + i \in 1..(d + n) /\ ~(d + i <= d) /\ d + i - d = i
      BY <1>2
    <3>4. t[i] = given[d - k + i]
      BY <2>2, <3>1
    <3>5. given[d - k + i] = full[k + (d - k + i)]
      BY <1>2, <3>2
    <3>6. full[d + i] = f[d + i - d]
      BY <1>2, <3>3
    <3> QED BY <3>2, <3>3, <3>4, <3>5, <3>6
  <2> QED BY <1>2, <2>2, <2>3, SeqEqual DEF t
<1> DEFINE r == SubSeq(given, 1, Len(given) - n)
           c == SubSeq(full, 1, k)
<1>4. /\ r \in Seq(S) /\ Len(r) = d - k
      /\ \A i \in 1..(d - k) : r[i] = full[k + i]
  <2>1. Len(given) - n = d - k /\ d - k \in 0..Len(given)
    BY <1>2
  <2> DEFINE p == SubSeq(given, 1, d - k)
  <2>2. /\ p \in Seq(S) /\ Len(p) = d - k
        /\ \A i \in 1..(d - k) : p[i] = given[i]
    BY <1>2, <2>1, PrefixOf
  <2>3. r = p
    BY <2>1
  <2> HIDE DEF r, p
  <2>4. \A i \in 1..(d - k) : i \in 1..(d + n - k)
    BY <1>2
  <2>5. \A i \in 1..(d - k) : given[i] = full[k + i]
    BY <1>2, <2>4
  <2> QED BY <2>2, <2>3, <2>5
<1>5. /\ c \in Seq(S) /\ Len(c) = k
      /\ \A i \in 1..k : c[i] = full[i]
  <2>1. k \in 0..Len(full)
    BY <1>2
  <2> QED BY <1>2, <2>1, PrefixOf
<1> HIDE DEF r, c
<1>6. c \o r = Dir
  <2>1. /\ c \o r \in Seq(S) /\ Len(c \o r) = d
        /\ \A i \in 1..d : (c \o r)[i] = IF i <= k THEN c[i] ELSE r[i - k]
    <3>1. k + (d - k) = d
      BY <1>2
    <3>2. /\ c \o r \in Seq(S) /\ Len(c \o r) = Len(c) + Len(r)
          /\ \A i \in 1..(Len(c) + Len(r)) :
                (c \o r)[i] = IF i <= Len(c) THEN c[i] ELSE r[i - Len(c)]
      BY <1>4, <1>5, ConcatProperties
    <3>3. Len(c) = k /\ Len(r) = d - k
      BY <1>4, <1>5
    <3> QED BY <3>1, <3>2, <3>3
  <2>2. ASSUME NEW i \in 1..d PROVE (c \o r)[i] = Dir[i]
    <3>1. full[i] = Dir[i]
      BY <1>2
    <3>2. CASE i <= k
      BY <1>5, <2>1, <3>1, <3>2
    <3>3. CASE ~(i <= k)
      <4>1. i - k \in 1..(d - k) /\ k + (i - k) = i
        BY <1>2, <3>3
      <4> QED BY <1>4, <2>1, <3>1, <3>3, <4>1
    <3> QED BY <3>2, <3>3
  <2> QED BY <1>2, <2>1, <2>2, SeqEqual
<1>7. n > 0 /\ n <= Len(given)
  BY <1>2
<1>8. DeriveRoot(given, s) = {r}
  BY <1>3, <1>7 DEF DeriveRoot, Without, r
<1>9. { SubSeq(full, 1, k) \o x : x \in {r} } = {Dir}
  BY <1>6 DEF c
<1> QED BY <1>8, <1>9 DEF given, full

\* With less of the path than the declaration has segments there is no root.
LEMMA NoRoot ==
    ASSUME NEW f \in File, NEW k \in 0..(Len(Dir) + Len(f) - 1), k > Len(Dir),
           NEW s, s.decl = f
    PROVE  DeriveRoot(Given(f, k), s) = {}
<1>1. Len(Given(f, k)) < Len(f)
  BY GivenFacts
<1> QED BY <1>1, GivenFacts DEF DeriveRoot

\* What kei check of f says, from the k-th directory.
LEMMA CheckIs ==
    ASSUME NEW f \in File, NEW k \in 0..(Len(Dir) + Len(f) - 1), src[f].decl = f
    PROVE  /\ k <= Len(Dir) => (CheckClean(f, k) <=> Clean(src[f], Answer(src[f])))
           /\ Clean(src[f], Answer(src[f])) => CheckClean(f, k)
<1> DEFINE roots == { SubSeq(Dir \o f, 1, k) \o r : r \in DeriveRoot(Given(f, k), src[f]) }
           seen == [p \in DOMAIN src[f].expects |-> ReadFrom(roots, p)]
<1>1. CheckClean(f, k) <=> Clean(src[f], seen)
  BY Zenon DEF CheckClean, Given
<1>2. ASSUME k <= Len(Dir) PROVE seen = Answer(src[f])
  <2>1. roots = {Dir}
    <3>1. k \in 0..Len(Dir)
      BY <1>2, GivenFacts
    <3> QED BY <3>1, RootIsDir
  <2> HIDE DEF roots
  <2>2. \A p : ReadFrom(roots, p) = ReadModule(Dir, p)
    <3>1. {Dir} # {} /\ (CHOOSE r \in {Dir} : TRUE) = Dir
      OBVIOUS
    <3> QED BY <2>1, <3>1, Zenon DEF ReadFrom
  <2> QED BY <2>2 DEF Answer
<1>3. ASSUME k > Len(Dir), Clean(src[f], Answer(src[f]))
      PROVE  Clean(src[f], seen)
  <2>1. roots = {}
    <3>1. DeriveRoot(Given(f, k), src[f]) = {}
      BY <1>3, NoRoot
    <3> QED BY <3>1
  <2> HIDE DEF roots
  <2>2. \A p \in DOMAIN src[f].expects : seen[p] = Opaque
    BY <2>1 DEF ReadFrom
  <2> HIDE DEF seen
  <2> QED BY <1>3, <2>2, OpaqueIsClean
<1>4. k <= Len(Dir) \/ k > Len(Dir)
  BY GivenFacts
<1> HIDE DEF roots, seen
<1> QED BY <1>1, <1>2, <1>3, <1>4

\* As long as nothing is saved, a file that stands where its declaration says and
\* fails in kei build fails in kei check, and one that is clean in a build that could
\* read its imports is clean in kei check, from whatever directory it is called
\* (kei_cli/src/resolve.rs, derive_root, and the cache of the build).
THEOREM CheckAgreesWithBuild == Spec => []CheckAgrees
<1>1. Init => AgreeInv
  BY DEF Init, AgreeInv
<1>2. ASSUME IInv, AgreeInv
      PROVE  CheckAgrees
  <2> SUFFICES ASSUME saves = 0, phase = "check", NEW i \in 1..(next - 1),
                      src[Sorted[i]].decl = Sorted[i]
               PROVE  IF Sorted[i] \in failures
                      THEN \A k \in 0..Len(Dir) : ~CheckClean(Sorted[i], k)
                      ELSE missed \/ \A k \in 0..(Len(Dir) + Len(Sorted[i]) - 1) :
                                        CheckClean(Sorted[i], k)
    BY DEF CheckAgrees
  <2> USE <1>2
  <2> DEFINE f == Sorted[i]
  <2>1. f \in File
    <3>1. Len(Sorted) \in Nat /\ next \in 1..(Len(Sorted) + 1)
      BY FilesAssumption, LenProperties DEF IInv, TypeOK
    <3>2. i \in 1..Len(Sorted)
      BY <3>1
    <3> QED BY <3>2, FilesAssumption, ElementOfSeq
  <2>2. IF f \in failures THEN ~Clean(src[f], Answer(src[f]))
        ELSE missed \/ Clean(src[f], Answer(src[f]))
    BY DEF AgreeInv
  <2> HIDE DEF f
  <2>3. src[f].decl = f
    BY DEF f
  <2>4. ASSUME NEW k \in 0..Len(Dir), f \in failures PROVE ~CheckClean(f, k)
    <3>1. k \in 0..(Len(Dir) + Len(f) - 1) /\ k <= Len(Dir)
      <4>1. IsPath(Dir) /\ IsPath(f) /\ f # <<>>
        BY <2>1, FilesAssumption
      <4>2. Len(Dir) \in Nat /\ Len(f) \in Nat \ {0}
        BY <4>1, LenProperties, EmptySeq DEF IsPath
      <4> QED BY <4>2
    <3> QED BY <2>1, <2>2, <2>3, <2>4, <3>1, CheckIs
  <2>5. ASSUME NEW k \in 0..(Len(Dir) + Len(f) - 1), f \notin failures, ~missed
        PROVE  CheckClean(f, k)
    BY <2>1, <2>2, <2>3, <2>5, CheckIs
  <2> QED BY <2>4, <2>5 DEF f
<1> QED BY InitInv, StepKeeps, <1>1, <1>2, AgreeKeeps, PTL DEF Spec
=============================================================================
