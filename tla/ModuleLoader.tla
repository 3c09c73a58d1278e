---------------------------- MODULE ModuleLoader ----------------------------
(***************************************************************************)
(* The hooks of the ECMAScript module loader (src/global_object.cpp) and   *)
(* the start of the program: its arguments, its entry module and the entry *)
(* promise (src/nexus.cpp).                                                *)
(*                                                                         *)
(* The loader of JavaScriptCore, which is external, keeps a registry of    *)
(* keys.  For every import it asks moduleLoaderResolve for a key, and for  *)
(* every new key moduleLoaderFetch for the source.  When the static        *)
(* imports are there it links and evaluates them; it rejects the entry     *)
(* promise when one of these steps fails and else fulfils it.              *)
(*                                                                         *)
(* A key is a text; here it is what the text before the first separator    *)
(* and the separator make (the root) and the pieces between the            *)
(* separators after it.  "http://h/m" has the root "http:/" and the pieces *)
(* "", "h" and "m".  A piece is a stem, an extension and what follows from *)
(* a "?" or "#" on (its query).  A specifier without a protocol has no     *)
(* colon and no space, and a name on disk no query and one extension.      *)
(***************************************************************************)
EXTENDS Naturals, Sequences, FiniteSets, SequencesExt

CONSTANTS
  FileSystems,  \* file systems explored: path -> "file" "unreadable" "dir"
  Invocations,  \* command lines explored: [kind, script, loaders], a kind of
                \* "help" (or version, or no argument at all), "invalid",
                \* "quoted" (a path with a quotation mark) and "script"
  Specifiers,   \* what modules import: the pieces of a text, split at "/"
  Urls,         \* the keys a server answers for
  MaxImports,   \* bound: static imports of one module
  MaxDynamic,   \* bound: calls of import()
  MaxModules    \* bound: keys in the registry

ASSUME LoaderBounds == {MaxImports, MaxDynamic, MaxModules} \subseteq Nat

VARIABLES
  argv,         \* the command line
  main,         \* Nexus::run: "parse" "entry" "run" "exited" "crashed"
  fs,           \* the file system
  registry,     \* key -> "requested" "fetched" "failed"
  file,         \* key -> the path its source came from, <<>> when from a server
  imports,      \* the imports made: [from, spec, how, key]
  evaluation,   \* of the entry module: "none" "unlinked" "threw" "done"
  myExitStatus  \* "none" until the entry promise is settled, then 0 or 1

process == <<argv, main, fs>>
vars == <<process, registry, file, imports, evaluation, myExitStatus>>

-----------------------------------------------------------------------------
(* Names. *)

Piece(s) == [stem |-> s, ext |-> "", query |-> ""]
Empty == Piece("")
Dot == Piece(".")
DotDot == Piece("..")

Local(pieces) == [root |-> "/", pieces |-> pieces]
Url(pieces) == [root |-> "http:/", pieces |-> pieces]

(* A key has a protocol when its text begins with "http://". *)
IsUrl(k) == k.root = "http:/" /\ Len(k.pieces) > 1 /\ Head(k.pieces) = Empty

(* ModuleName: the text of a key, split at its separators. *)
Queries(k) == <<IF k.root = "/" THEN Empty ELSE Piece("http:")>> \o k.pieces

(* extractDirectoryName and the split of its query name: the empty name of *)
(* a root directory splits into one empty piece.                           *)
DirectoryName(k) ==
  [root |-> k.root, pieces |-> IF Len(k.pieces) <= 1 THEN <<Empty>> ELSE Front(k.pieces)]

(* Mutant: ".." is skipped like ".". *)
StepPieceStay(pieces, query) ==
  IF query \in {Empty, Dot, DotDot} THEN pieces ELSE Append(pieces, query)

(* Mutant: "." is kept. *)
StepPieceKeepsDot(pieces, query) ==
  IF query = DotDot THEN (IF pieces = <<>> THEN <<>> ELSE Front(pieces))
  ELSE IF query = Empty THEN pieces
  ELSE Append(pieces, query)

StepPiece(pieces, query) ==
  IF query = DotDot THEN (IF pieces = <<>> THEN <<>> ELSE Front(pieces))
  ELSE IF query \in {Empty, Dot} THEN pieces
  ELSE Append(pieces, query)

(* resolvePath: only a leading separator means the root. *)
ResolvePath(dir, queries) ==
  LET start == IF queries # <<>> /\ Head(queries) = Empty THEN <<>> ELSE dir.pieces
  IN  [root |-> dir.root, pieces |-> FoldLeft(StepPiece, start, queries)]

-----------------------------------------------------------------------------
(* moduleLoaderResolve and moduleLoaderImportModule. *)

HasProtocol(spec) == Len(spec) > 2 /\ spec[1] = Piece("http:") /\ spec[2] = Empty

(* The domain and the path that parseURL finds in a specifier without a    *)
(* protocol: the domain is the first piece, whatever it holds, and the     *)
(* path ends where a query begins.                                         *)
ParseURL(spec) ==
  LET cuts == {i \in 2..Len(spec) : spec[i].query # ""}
      cut == Min(cuts)
  IN  IF cuts = {} THEN spec
      ELSE Append(SubSeq(spec, 1, cut - 1), [spec[cut] EXCEPT !.query = ""])

(* An import statement.  A specifier with a protocol is a key as it is,    *)
(* with its query.                                                         *)
ResolveStatic(from, spec) ==
  IF HasProtocol(spec) THEN Url(Tail(spec))
  ELSE ResolvePath(DirectoryName(from), ParseURL(spec))

(* import() resolves against the module that calls it; the text is not     *)
(* parsed, so that a query stays in the key and "http://h/m" becomes a     *)
(* path below the directory.                                               *)
ResolveDynamic(from, spec) == ResolvePath(DirectoryName(from), spec)

(* The script and the loaders are imported by an entry module whose key is *)
(* a symbol: their names are resolved against the script's directory.      *)
ResolveEntry(spec) ==
  IF HasProtocol(spec) THEN Url(Tail(spec))
  ELSE ResolvePath(DirectoryName(Local(argv.script)), ParseURL(spec))

Entry == [root |-> "symbol", pieces |-> <<>>]

-----------------------------------------------------------------------------
(* fetchModuleFromLocalFileSystem. *)

(* What the operating system finds: "" and "." do not matter to it. *)
OnDisk(path) == SelectSeq(path, LAMBDA p : p \notin {Empty, Dot})
Exists(path) == OnDisk(path) \in DOMAIN fs
NotFound == <<Piece("?")>>
WithExt(path, ext) ==
  IF path # <<>> /\ Last(path).ext = "" THEN Append(Front(path), [Last(path) EXCEPT !.ext = ext]) ELSE NotFound

FindLocal(name) ==
  LET find[path \in Seq([stem : STRING, ext : STRING, query : STRING])] ==
        IF ~ Exists(path) THEN
          IF Exists(WithExt(path, ".mjs")) THEN find[WithExt(path, ".mjs")]
          ELSE IF Exists(WithExt(path, ".js")) THEN find[WithExt(path, ".js")]
          ELSE NotFound
        ELSE IF fs[OnDisk(path)] = "dir" THEN find[Append(path, Piece("index"))]
        ELSE OnDisk(path)
  IN  find[name]

(* The path of a key that is a local file; a key such as "http:/m" is the  *)
(* name of no file.                                                        *)
Found(k) == IF k.root = "/" THEN FindLocal(k.pieces) ELSE NotFound

-----------------------------------------------------------------------------
Init ==
  /\ argv \in Invocations /\ main = "parse"
  /\ fs \in FileSystems
  /\ registry = [k \in {} |-> "requested"]
  /\ file = [k \in {} |-> <<>>]
  /\ imports = {}
  /\ evaluation = "none" /\ myExitStatus = "none"

(* parseArguments: help and version end the process with status 0, and so  *)
(* does a script that is not there; what the option parser throws, or a    *)
(* command line without a script, with status 1.                           *)
ParseArguments ==
  /\ main = "parse"
  /\ \/ /\ argv.kind = "invalid"
        /\ main' = "exited" /\ myExitStatus' = "1"
     \/ /\ argv.kind = "help" \/ (argv.kind # "invalid" /\ ~ Exists(argv.script))
        /\ main' = "exited" /\ myExitStatus' = "0"
     \/ /\ argv.kind \in {"script", "quoted"} /\ Exists(argv.script)
        /\ main' = "entry" /\ UNCHANGED myExitStatus
  /\ UNCHANGED <<argv, fs, registry, file, imports, evaluation>>

Requested == {k \in DOMAIN registry : registry[k] = "requested"}
Loaded == {k \in DOMAIN registry : registry[k] = "fetched"}

(* The registry with the keys ks in it. *)
Request(reg, ks) == [k \in DOMAIN reg \cup ks |-> IF k \in DOMAIN reg THEN reg[k] ELSE "requested"]

(* evaluateModule of the entry module's text, in which the paths stand     *)
(* between quotation marks as they are: a text that is no module gives no  *)
(* promise, and the call of its then() follows a null pointer.             *)
EvaluateModule ==
  /\ main = "entry"
  /\ \/ /\ argv.kind = "quoted"
        /\ main' = "crashed"
        /\ UNCHANGED <<registry, file, imports>>
     \/ /\ argv.kind = "script"
        /\ main' = "run"
        /\ imports' = {[from |-> Entry, spec |-> s, how |-> "static", key |-> ResolveEntry(s)] :
                         s \in argv.loaders \cup {Queries(Local(argv.script))}}
        /\ registry' = Request(registry, {i.key : i \in imports'})
        /\ file' = [k \in DOMAIN registry' |-> <<>>]
  /\ UNCHANGED <<argv, fs, evaluation, myExitStatus>>

(* The source of k is there; the loader asks for the keys it imports.      *)
Source(k, path, specs) ==
  LET new == {[from |-> k, spec |-> s, how |-> "static", key |-> ResolveStatic(k, s)] : s \in specs}
      keys == {i.key : i \in new}
  IN  /\ Cardinality(specs) <= MaxImports
      /\ Cardinality(DOMAIN registry \cup keys) <= MaxModules
      /\ registry' = Request([registry EXCEPT ![k] = "fetched"], keys)
      /\ file' = [x \in DOMAIN registry' |-> IF x = k THEN path ELSE IF x \in DOMAIN file THEN file[x] ELSE <<>>]
      /\ imports' = imports \cup new
      /\ UNCHANGED <<process, evaluation, myExitStatus>>

FetchFails(k) ==
  /\ registry' = [registry EXCEPT ![k] = "failed"]
  /\ UNCHANGED <<process, file, imports, evaluation, myExitStatus>>

(* A file that is found but cannot be opened is an empty module: ifstream  *)
(* reports it with failbit, and bad() tests the other bit.  A text that is *)
(* no module is reported and resolved; the loader's parser rejects it.     *)
FetchLocal(k) ==
  LET path == Found(k)
  IN  /\ k \in Requested /\ ~ IsUrl(k)
      /\ \/ path = NotFound /\ FetchFails(k)
         \/ path # NotFound /\ fs[path] = "file" /\ FetchFails(k)
         \/ /\ path # NotFound
            /\ \E specs \in SUBSET Specifiers :
                 /\ fs[path] = "unreadable" => specs = {}
                 /\ Source(k, path, specs)

(* curl may fail for any key. *)
FetchUrl(k) ==
  /\ k \in Requested /\ IsUrl(k)
  /\ \/ FetchFails(k)
     \/ k \in Urls /\ \E specs \in SUBSET Specifiers : Source(k, <<>>, specs)

-----------------------------------------------------------------------------
(* The static imports of a module, direct and indirect: the least set of   *)
(* keys that has those of the module and of its members.                   *)
Closed(from, ks) ==
  \A i \in imports : i.how = "static" /\ i.from \in ks \cup {from} => i.key \in ks

Below(from) == {k \in DOMAIN registry : \A ks \in SUBSET DOMAIN registry : Closed(from, ks) => k \in ks}

Graph == Below(Entry)

(* The promise is pending while the program runs. *)
Pending == main = "run" /\ myExitStatus = "none"

(* Everything is there: the modules are linked, which fails when a name is *)
(* imported that is not exported, and evaluated, where a body may throw.   *)
(* That of an entry module with loaders always does: it calls              *)
(* Nexus.Module.registerResolver, which does not exist.                    *)
Evaluate ==
  /\ Pending /\ evaluation = "none"
  /\ \A k \in Graph : registry[k] = "fetched"
  /\ \/ evaluation' \in {"unlinked", "threw"}
     \/ argv.loaders = {} /\ evaluation' = "done"
  /\ UNCHANGED <<process, registry, file, imports, myExitStatus>>

(* The body of k may have run: the entry module has been evaluated, or     *)
(* a call of import() is done that asked for k or for one above it.        *)
MayRun(k) ==
  \/ k \in Graph /\ evaluation \in {"threw", "done"}
  \/ \E i \in imports : /\ i.how = "dynamic" /\ k \in {i.key} \cup Below(i.key)
                        /\ \A l \in {i.key} \cup Below(i.key) : registry[l] = "fetched"

(* A call of import() by the module k. *)
ImportDynamic(k, spec) ==
  LET key == ResolveDynamic(k, spec)
  IN  /\ k \in Loaded /\ MayRun(k)
      /\ Cardinality({i \in imports : i.how = "dynamic"}) < MaxDynamic
      /\ Cardinality(DOMAIN registry \cup {key}) <= MaxModules
      /\ imports' = imports \cup {[from |-> k, spec |-> spec, how |-> "dynamic", key |-> key]}
      /\ registry' = Request(registry, {key})
      /\ file' = [x \in DOMAIN registry' |-> IF x \in DOMAIN file THEN file[x] ELSE <<>>]
      /\ UNCHANGED <<process, evaluation, myExitStatus>>

(* Mutant: fulfilled when everything is there, before it is evaluated. *)
FulfilEarly ==
  /\ Pending /\ argv.loaders = {}
  /\ \A k \in Graph : registry[k] = "fetched"
  /\ myExitStatus' = "0"
  /\ UNCHANGED <<process, registry, file, imports, evaluation>>

(* The handlers of the entry promise. *)
Fulfil ==
  /\ Pending /\ evaluation = "done"
  /\ myExitStatus' = "0"
  /\ UNCHANGED <<process, registry, file, imports, evaluation>>

(* Mutant: rejected for the script only, not for what it imports. *)
RejectScriptOnly ==
  /\ Pending
  /\ \/ \E k \in {i.key : i \in {j \in imports : j.from = Entry}} : registry[k] = "failed"
     \/ evaluation \in {"unlinked", "threw"}
  /\ myExitStatus' = "1"
  /\ UNCHANGED <<process, registry, file, imports, evaluation>>

Reject ==
  /\ Pending
  /\ (\E k \in Graph : registry[k] = "failed") \/ evaluation \in {"unlinked", "threw"}
  /\ myExitStatus' = "1"
  /\ UNCHANGED <<process, registry, file, imports, evaluation>>

LoaderStep ==
  \/ ParseArguments \/ EvaluateModule \/ Evaluate \/ Fulfil \/ Reject
  \/ \E k \in Requested : FetchLocal(k) \/ FetchUrl(k)

Next == LoaderStep \/ \E k \in Loaded, s \in Specifiers : ImportDynamic(k, s)

Spec == Init /\ [][Next]_vars

(* The main thread runs; fetches and promise jobs are tasks of the pool,   *)
(* and a body comes to its end.                                            *)
FairSpec == Spec /\ WF_vars(LoaderStep)

-----------------------------------------------------------------------------
(* moduleLoaderCreateImportMetaProperties: import.meta.dirname is the key  *)
(* without its last piece.                                                 *)
MetaDirname(k) == IF k.pieces = <<>> THEN <<>> ELSE Front(k.pieces)

-----------------------------------------------------------------------------
TypeOK ==
  /\ argv \in Invocations /\ main \in {"parse", "entry", "run", "exited", "crashed"}
  /\ fs \in FileSystems
  /\ \A k \in DOMAIN registry : k.root \in {"/", "http:/"} /\ registry[k] \in {"requested", "fetched", "failed"}
  /\ DOMAIN file = DOMAIN registry
  /\ evaluation \in {"none", "unlinked", "threw", "done"} /\ myExitStatus \in {"none", "0", "1"}

(* The name p_i survives the walk unless some later ".." takes it back:    *)
(* unless in a stretch after it there are more ".." than names.            *)
Survives(q, i) ==
  LET Count(j, S) == Cardinality({n \in (i + 1)..j : q[n] \in S})
      isName(n) == q[n] \notin {Empty, Dot, DotDot}
  IN  /\ isName(i)
      /\ \A j \in (i + 1)..Len(q) :
           Count(j, {DotDot}) <= Cardinality({n \in (i + 1)..j : isName(n)})

(* The names on the path that one walks from import.meta.dirname of from.  *)
Walk(from, queries) ==
  LET q == IF queries # <<>> /\ Head(queries) = Empty THEN queries
           ELSE MetaDirname(from) \o queries
      idx == SelectSeq([i \in 1..Len(q) |-> i], LAMBDA i : Survives(q, i))
  IN  [i \in DOMAIN idx |-> q[idx[i]]]

(* A module imported by name is the one reached by walking the specifier   *)
(* from the directory that the importer sees in import.meta.dirname, ".."  *)
(* by "..", stopping at the root.  An import statement walks the name      *)
(* without its query, import() the whole text (parseURL,                   *)
(* extractDirectoryName, resolvePath,                                      *)
(* moduleLoaderCreateImportMetaProperties).                                *)
KeyDenotes ==
  \A i \in imports : i.from.root = "/" /\ ~ HasProtocol(i.spec) =>
    OnDisk(i.key.pieces) = Walk(i.from, IF i.how = "static" THEN ParseURL(i.spec) ELSE i.spec)

(* A path has one key, so a module is evaluated once however it is         *)
(* imported, unless a module lives in the root directory: from there the   *)
(* key of "./b" is "//b" (resolvePath of an empty directory name).         *)
InRoot(k) == k.root = "/" /\ Len(k.pieces) <= 1
OneKeyPerPath ==
  (\A k \in DOMAIN registry : ~ InRoot(k)) =>
    \A k, l \in DOMAIN registry :
      k.root = l.root /\ OnDisk(k.pieces) = OnDisk(l.pieces) => k = l

(* For a program that ran, exit status 0 means that the script and all it  *)
(* statically imports was fetched and evaluated, and 1 that some of it was *)
(* not, also while dynamic imports come and go (the handlers in            *)
(* Nexus::run).  The variables have their types.                           *)
ExitHonest ==
  /\ TypeOK
  /\ main = "run" /\ myExitStatus = "0" =>
       evaluation = "done" /\ \A k \in Graph : registry[k] = "fetched"
  /\ main = "run" /\ myExitStatus = "1" =>
       \/ evaluation \in {"unlinked", "threw"}
       \/ evaluation = "none" /\ \E k \in Graph : registry[k] = "failed"

(* The program gets its exit status, also when modules import each other:  *)
(* a key is fetched once and the entry promise settled (moduleLoaderFetch, *)
(* Nexus::run).  Only a path with a quotation mark prevents it.            *)
LoadSettles == <>(myExitStatus # "none" \/ argv.kind = "quoted")

=============================================================================
