-------------------------- MODULE ModuleLoaderProof -------------------------
(***************************************************************************)
(* Proofs about the module loader for any file system, command line and    *)
(* specifiers, and any number of modules.                                  *)
(***************************************************************************)
EXTENDS ModuleLoader, TLAPS

Roots == {"/", "http:/"}

(* The registry: every key has a root that a text can give it, and the     *)
(* keys of all imports are in it.                                          *)
RegistryState ==
  /\ \A k \in DOMAIN registry : k.root \in Roots /\ registry[k] \in {"requested", "fetched", "failed"}
  /\ DOMAIN file = DOMAIN registry
  /\ \A i \in imports : i.key \in DOMAIN registry

(* Nexus::run: nothing is imported, and no status known, before it runs. *)
ProcessState ==
  /\ argv \in Invocations /\ main \in {"parse", "entry", "run", "exited", "crashed"}
  /\ fs \in FileSystems
  /\ myExitStatus \in {"none", "0", "1"}
  /\ evaluation \in {"none", "unlinked", "threw", "done"}
  /\ main \in {"parse", "entry"} =>
       myExitStatus = "none" /\ evaluation = "none" /\ imports = {} /\ DOMAIN registry = {}

(* What the evaluation and the status say of the static imports. *)
EvaluationState == evaluation # "none" => \A k \in Graph : registry[k] = "fetched"

StatusState ==
  /\ EvaluationState
  /\ main = "run" =>
       /\ myExitStatus = "0" => evaluation = "done"
       /\ myExitStatus = "1" =>
            \/ evaluation \in {"unlinked", "threw"}
            \/ evaluation = "none" /\ \E k \in Graph : registry[k] = "failed"

LoaderInv == RegistryState /\ ProcessState /\ StatusState

-----------------------------------------------------------------------------
(* Keys. *)

(* A key has the root of its importer's key, or that of a URL. *)
LEMMA KeyRoots ==
  /\ \A k, s : k.root \in Roots => ResolveStatic(k, s).root \in Roots /\ ResolveDynamic(k, s).root \in Roots
  /\ \A s : ResolveEntry(s).root \in Roots
<1>1. \A d, q : ResolvePath(d, q).root = d.root
  BY DEF ResolvePath
<1>2. \A k : DirectoryName(k).root = k.root
  BY DEF DirectoryName
<1>3. \A p : Url(p).root \in Roots /\ Local(p).root \in Roots
  BY DEF Url, Local, Roots
<1>. QED
  BY <1>1, <1>2, <1>3 DEF ResolveStatic, ResolveDynamic, ResolveEntry

-----------------------------------------------------------------------------
(* The graph of the static imports. *)

(* The graph is closed itself: it is the least closed set. *)
LEMMA GraphClosed == RegistryState => Closed(Entry, Graph) /\ Graph \subseteq DOMAIN registry
<1>. SUFFICES ASSUME RegistryState PROVE Closed(Entry, Graph) /\ Graph \subseteq DOMAIN registry
  OBVIOUS
<1>1. ASSUME NEW i \in imports, i.how = "static", i.from \in Graph \cup {Entry}
      PROVE  i.key \in Graph
  <2>1. i.key \in DOMAIN registry
    BY <1>1 DEF RegistryState
  <2>2. ASSUME NEW ks \in SUBSET DOMAIN registry, Closed(Entry, ks) PROVE i.key \in ks
    BY <1>1, <2>2 DEF Graph, Below, Closed
  <2>. QED
    BY <2>1, <2>2 DEF Graph, Below
<1>2. Graph \subseteq DOMAIN registry
  BY DEF Graph, Below
<1>. QED
  BY <1>1, <1>2 DEF Closed

(* With more imports and keys the graph does not lose a key. *)
LEMMA GraphGrows ==
  ASSUME RegistryState, imports \subseteq imports', DOMAIN registry \subseteq DOMAIN registry'
  PROVE  Graph \subseteq Graph'
<1>. SUFFICES ASSUME NEW k \in Graph PROVE k \in Graph'
  OBVIOUS
<1>1. ASSUME NEW ks \in SUBSET DOMAIN registry', Closed(Entry, ks)' PROVE k \in ks
  <2>. PICK old : old = ks \cap DOMAIN registry
    OBVIOUS
  <2>1. \A i \in imports' : i.how = "static" /\ i.from \in ks \cup {Entry} => i.key \in ks
    BY <1>1 DEF Closed, Entry
  <2>2. \A i \in imports : i.key \in DOMAIN registry
    BY DEF RegistryState
  <2>3. Closed(Entry, old)
    BY <2>1, <2>2 DEF Closed
  <2>. QED
    BY <2>3 DEF Graph, Below
<1>. QED
  BY <1>1 DEF Graph, Below

(* When what is imported anew comes from outside, it does not grow. *)
LEMMA GraphStays ==
  ASSUME RegistryState, DOMAIN registry \subseteq DOMAIN registry',
         \A i \in imports' : i \in imports \/ i.how # "static" \/ i.from \notin Graph \cup {Entry}
  PROVE  Graph' \subseteq Graph
<1>1. Closed(Entry, Graph) /\ Graph \in SUBSET DOMAIN registry
  BY GraphClosed
<1>. PICK g : g = Graph
  OBVIOUS
<1>2. Closed(Entry, g)'
  BY <1>1 DEF Closed, Entry
<1>3. g \in SUBSET DOMAIN registry'
  BY <1>1
<1>4. \A k \in Graph' : k \in g
  BY <1>2, <1>3 DEF Graph, Below
<1>. QED
  BY <1>4

-----------------------------------------------------------------------------
(* What a step of the loader does to the registry. *)

(* A key that is fetched or has failed stays so; what is imported by an    *)
(* import statement is imported by a key that was only requested.          *)
Grown ==
  /\ DOMAIN registry \subseteq DOMAIN registry' /\ imports \subseteq imports'
  /\ \A k \in DOMAIN registry : registry[k] # "requested" => registry'[k] = registry[k]
  /\ \A i \in imports' : \/ i \in imports \/ i.how # "static"
                         \/ i.from \in DOMAIN registry /\ registry[i.from] = "requested"

(* No key has the name of the entry module. *)
LEMMA NotEntry == RegistryState => Entry \notin DOMAIN registry
  BY DEF RegistryState, Entry, Roots

(* So the status stays true. *)
LEMMA StatusKept ==
  ASSUME RegistryState, StatusState, Grown, UNCHANGED <<process, evaluation, myExitStatus>>
  PROVE  StatusState'
<1>0. /\ main' = main /\ evaluation' = evaluation /\ myExitStatus' = myExitStatus
      /\ Graph \subseteq DOMAIN registry /\ Graph \subseteq Graph'
  BY GraphClosed, GraphGrows DEF process, Grown
<1>1. ASSUME evaluation # "none" PROVE \A k \in Graph' : registry'[k] = "fetched"
  <2>1. \A k \in Graph : registry[k] = "fetched"
    BY <1>1 DEF StatusState, EvaluationState
  <2>2. \A i \in imports' : i \in imports \/ i.how # "static" \/ i.from \notin Graph \cup {Entry}
    BY <2>1, NotEntry DEF Grown
  <2>3. Graph' \subseteq Graph
    BY <2>2, GraphStays DEF Grown
  <2>. QED
    BY <1>0, <2>1, <2>3 DEF Grown
<1>2. ASSUME \E k \in Graph : registry[k] = "failed" PROVE \E k \in Graph' : registry'[k] = "failed"
  BY <1>0, <1>2 DEF Grown
<1>. QED
  BY <1>0, <1>1, <1>2 DEF StatusState, EvaluationState

(* The source of a key is there. *)
LEMMA SourceKept ==
  ASSUME RegistryState, NEW k \in Requested, NEW path, NEW specs, Source(k, path, specs)
  PROVE  RegistryState' /\ Grown
<1>0. k \in DOMAIN registry /\ registry[k] = "requested"
  BY DEF Requested
<1>. PICK new : new = {[from |-> k, spec |-> s, how |-> "static", key |-> ResolveStatic(k, s)] : s \in specs}
  OBVIOUS
<1>. PICK keys : keys = {i.key : i \in new}
  OBVIOUS
<1>. PICK reg : reg = [registry EXCEPT ![k] = "fetched"]
  OBVIOUS
<1>1. /\ registry' = Request(reg, keys)
      /\ file' = [x \in DOMAIN registry' |-> IF x = k THEN path ELSE IF x \in DOMAIN file THEN file[x] ELSE <<>>]
      /\ imports' = imports \cup new
  BY DEF Source
<1>2. DOMAIN reg = DOMAIN registry /\ \A x \in DOMAIN registry : reg[x] = IF x = k THEN "fetched" ELSE registry[x]
  OBVIOUS
<1>3. /\ DOMAIN registry' = DOMAIN registry \cup keys
      /\ \A x \in DOMAIN registry : registry'[x] = reg[x]
      /\ \A x \in keys : x \notin DOMAIN registry => registry'[x] = "requested"
  <2>1. /\ DOMAIN Request(reg, keys) = DOMAIN reg \cup keys
        /\ \A x \in DOMAIN reg : Request(reg, keys)[x] = reg[x]
        /\ \A x \in keys : x \notin DOMAIN reg => Request(reg, keys)[x] = "requested"
    BY DEF Request
  <2>. QED
    BY <1>1, <1>2, <2>1
<1>4. \A i \in new : i.key \in keys /\ i.from = k /\ i.how = "static"
  OBVIOUS
<1>5. \A x \in keys : x.root \in Roots
  BY <1>0, KeyRoots DEF RegistryState
<1>6. Grown
  BY ZenonT(60), <1>0, <1>1, <1>2, <1>3, <1>4 DEF Grown
<1>7. \A x \in DOMAIN registry' : x.root \in Roots /\ registry'[x] \in {"requested", "fetched", "failed"}
  BY <1>2, <1>3, <1>5 DEF RegistryState
<1>8. DOMAIN file' = DOMAIN registry'
  BY <1>1
<1>9. \A i \in imports' : i.key \in DOMAIN registry'
  BY <1>1, <1>3, <1>4 DEF RegistryState
<1>. QED
  BY <1>6, <1>7, <1>8, <1>9 DEF RegistryState

(* A fetch fails. *)
LEMMA FailKept ==
  ASSUME RegistryState, NEW k \in Requested, FetchFails(k)
  PROVE  RegistryState' /\ Grown
<1>0. k \in DOMAIN registry /\ registry[k] = "requested"
  BY DEF Requested
<1>1. /\ DOMAIN registry' = DOMAIN registry
      /\ \A x \in DOMAIN registry : registry'[x] = IF x = k THEN "failed" ELSE registry[x]
      /\ UNCHANGED <<file, imports>>
  BY DEF FetchFails
<1>. QED
  BY <1>0, <1>1 DEF RegistryState, Grown

(* import() asks for a key, whatever the status. *)
LEMMA DynamicKept ==
  ASSUME RegistryState, NEW k \in Loaded, NEW spec, ImportDynamic(k, spec)
  PROVE  RegistryState' /\ Grown
<1>. PICK key : key = ResolveDynamic(k, spec)
  OBVIOUS
<1>1. /\ imports' = imports \cup {[from |-> k, spec |-> spec, how |-> "dynamic", key |-> key]}
      /\ registry' = Request(registry, {key})
      /\ file' = [x \in DOMAIN registry' |-> IF x \in DOMAIN file THEN file[x] ELSE <<>>]
  BY DEF ImportDynamic
<1>2. /\ DOMAIN registry' = DOMAIN registry \cup {key}
      /\ \A x \in DOMAIN registry : registry'[x] = registry[x]
      /\ key \notin DOMAIN registry => registry'[key] = "requested"
  <2>1. /\ DOMAIN Request(registry, {key}) = DOMAIN registry \cup {key}
        /\ \A x \in DOMAIN registry : Request(registry, {key})[x] = registry[x]
        /\ \A x \in {key} : x \notin DOMAIN registry => Request(registry, {key})[x] = "requested"
    BY DEF Request
  <2>. QED
    BY <1>1, <2>1
<1>3. key.root \in Roots
  BY KeyRoots DEF Loaded, RegistryState
<1>4. \A i \in imports' : i \in imports \/ (i.how = "dynamic" /\ i.key = key)
  BY <1>1
<1>5. Grown
  BY <1>1, <1>2, <1>4 DEF Grown
<1>6. \A x \in DOMAIN registry' : x.root \in Roots /\ registry'[x] \in {"requested", "fetched", "failed"}
  BY <1>2, <1>3 DEF RegistryState
<1>7. \A i \in imports' : i.key \in DOMAIN registry'
  BY <1>2, <1>4 DEF RegistryState
<1>. QED
  BY <1>1, <1>5, <1>6, <1>7 DEF RegistryState

-----------------------------------------------------------------------------
(* Every step keeps the invariant. *)
LEMMA LoaderNext == LoaderInv /\ [Next]_vars => LoaderInv'
<1>. SUFFICES ASSUME LoaderInv, [Next]_vars PROVE LoaderInv'
  OBVIOUS
<1>0. RegistryState /\ ProcessState /\ StatusState
  BY DEF LoaderInv
<1>1. ASSUME RegistryState' /\ Grown, UNCHANGED <<process, evaluation, myExitStatus>>, main \notin {"parse", "entry"}
      PROVE  LoaderInv'
  <2>1. StatusState'
    BY <1>0, <1>1, StatusKept
  <2>2. ProcessState'
    BY <1>0, <1>1 DEF ProcessState, process
  <2>. QED
    BY <1>1, <2>1, <2>2 DEF LoaderInv
<1>2. \A k \in DOMAIN registry : main \notin {"parse", "entry"}
  BY <1>0 DEF ProcessState
<1>3. ASSUME NEW k \in Requested, FetchLocal(k) \/ FetchUrl(k) PROVE LoaderInv'
  <2>1. FetchFails(k) \/ \E path, specs : Source(k, path, specs)
    BY <1>3 DEF FetchLocal, FetchUrl
  <2>2. UNCHANGED <<process, evaluation, myExitStatus>>
    BY <2>1 DEF FetchFails, Source
  <2>3. RegistryState' /\ Grown
    BY <1>0, <2>1, FailKept, SourceKept
  <2>. QED
    BY <1>1, <1>2, <2>2, <2>3 DEF Requested
<1>4. ASSUME NEW k \in Loaded, NEW s \in Specifiers, ImportDynamic(k, s) PROVE LoaderInv'
  <2>1. UNCHANGED <<process, evaluation, myExitStatus>>
    BY <1>4 DEF ImportDynamic
  <2>2. RegistryState' /\ Grown
    BY <1>0, <1>4, DynamicKept
  <2>. QED
    BY <1>1, <1>2, <2>1, <2>2 DEF Loaded
<1>5. ASSUME UNCHANGED <<registry, file, imports>> PROVE RegistryState' /\ Graph' = Graph
  BY <1>0, <1>5 DEF RegistryState, Graph, Below, Closed, Entry
<1>6. CASE ParseArguments
  <2>1. UNCHANGED <<registry, file, imports>>
    BY <1>6 DEF ParseArguments
  <2>2. ProcessState' /\ main' # "run"
    BY <1>0, <1>6 DEF ParseArguments, ProcessState
  <2>3. evaluation' = evaluation
    BY <1>6 DEF ParseArguments
  <2>. QED
    BY <1>0, <1>5, <2>1, <2>2, <2>3 DEF LoaderInv, StatusState, EvaluationState
<1>7. CASE EvaluateModule /\ argv.kind = "quoted"
  <2>1. UNCHANGED <<registry, file, imports>>
    BY <1>7 DEF EvaluateModule
  <2>2. ProcessState' /\ main' # "run"
    BY <1>0, <1>7 DEF EvaluateModule, ProcessState
  <2>3. evaluation' = evaluation
    BY <1>7 DEF EvaluateModule
  <2>. QED
    BY <1>0, <1>5, <2>1, <2>2, <2>3 DEF LoaderInv, StatusState, EvaluationState
<1>8. CASE EvaluateModule /\ argv.kind # "quoted"
  <2>. PICK specs : specs = argv.loaders \cup {Queries(Local(argv.script))}
    OBVIOUS
  <2>1. /\ imports' = {[from |-> Entry, spec |-> s, how |-> "static", key |-> ResolveEntry(s)] : s \in specs}
        /\ registry' = Request(registry, {i.key : i \in imports'})
        /\ file' = [k \in DOMAIN registry' |-> <<>>]
        /\ main' = "run" /\ UNCHANGED <<argv, fs, evaluation, myExitStatus>>
        /\ myExitStatus = "none" /\ evaluation = "none" /\ DOMAIN registry = {}
    BY <1>0, <1>8 DEF EvaluateModule, ProcessState
  <2>. PICK keys : keys = {i.key : i \in imports'}
    OBVIOUS
  <2>2. DOMAIN registry' = keys /\ \A k \in keys : registry'[k] = "requested"
    <3>1. /\ DOMAIN Request(registry, keys) = DOMAIN registry \cup keys
          /\ \A k \in keys : k \notin DOMAIN registry => Request(registry, keys)[k] = "requested"
      BY DEF Request
    <3>. QED
      BY <2>1, <3>1
  <2>3. \A k \in keys : k.root \in Roots
    BY <2>1, KeyRoots
  <2>4. RegistryState'
    BY <2>1, <2>2, <2>3 DEF RegistryState
  <2>5. ProcessState' /\ StatusState'
    BY <1>0, <2>1 DEF ProcessState, StatusState, EvaluationState
  <2>. QED
    BY <2>4, <2>5 DEF LoaderInv
<1>9. CASE Evaluate \/ Fulfil \/ Reject
  <2>1. UNCHANGED <<process, registry, file, imports>> /\ main = "run" /\ myExitStatus = "none"
    BY <1>9 DEF Evaluate, Fulfil, Reject, Pending
  <2>2. RegistryState' /\ Graph' = Graph
    BY <1>5, <2>1
  <2>3. ProcessState'
    BY <1>0, <1>9, <2>1 DEF Evaluate, Fulfil, Reject, ProcessState, process
  <2>4. StatusState'
    <3>1. CASE Evaluate
      BY <3>1, <2>1, <2>2 DEF Evaluate, StatusState, EvaluationState, process
    <3>2. CASE Fulfil
      BY <1>0, <3>2, <2>1, <2>2 DEF Fulfil, StatusState, EvaluationState, process
    <3>3. CASE Reject
      <4>1. evaluation' = evaluation /\ EvaluationState'
        BY <1>0, <3>3, <2>1, <2>2 DEF Reject, StatusState, EvaluationState
      <4>2. \/ evaluation \in {"unlinked", "threw"}
            \/ evaluation = "none" /\ \E k \in Graph : registry[k] = "failed"
        BY <1>0, <3>3 DEF Reject, StatusState, EvaluationState, ProcessState
      <4>. QED
        BY <3>3, <2>1, <2>2, <4>1, <4>2 DEF Reject, StatusState
    <3>. QED
      BY <1>9, <3>1, <3>2, <3>3
  <2>. QED
    BY <2>2, <2>3, <2>4 DEF LoaderInv
<1>10. CASE UNCHANGED vars
  <2>1. UNCHANGED <<registry, file, imports, argv, main, fs, evaluation, myExitStatus>>
    BY <1>10 DEF vars, process
  <2>2. RegistryState' /\ Graph' = Graph
    BY <1>5, <2>1
  <2>. QED
    BY <1>0, <2>1, <2>2 DEF LoaderInv, ProcessState, StatusState, EvaluationState
<1>. QED
  BY <1>3, <1>4, <1>6, <1>7, <1>8, <1>9, <1>10 DEF Next, LoaderStep

(* For a program that ran, exit status 0 means that the script and all it  *)
(* statically imports was fetched, linked and evaluated, and 1 that a      *)
(* fetch failed or that, with everything fetched, the linking or a body    *)
(* did, although imports go on after the status is known (the handlers in  *)
(* Nexus::run).                                                            *)
THEOREM ExitHonestCorrect == Spec => []ExitHonest
<1>1. Init => LoaderInv
  BY DEF Init, LoaderInv, RegistryState, ProcessState, StatusState, EvaluationState
<1>2. LoaderInv => ExitHonest
  BY DEF LoaderInv, RegistryState, ProcessState, StatusState, EvaluationState, ExitHonest, TypeOK, Roots
<1>. QED
  BY <1>1, <1>2, LoaderNext, PTL DEF Spec
=============================================================================
