------------------------------ MODULE WebServer -----------------------------
(***************************************************************************)
(* The web process in front of the build: server.js, the dispatcher that    *)
(* starts it (scripts/platform-entrypoint.mjs) and hooks.server.ts.         *)
(* Containers of several builds answer at once while a build rolls out, and *)
(* a visitor's browser keeps copies and asks about them again.              *)
(*                                                                         *)
(* The generated handler and sirv below it are external, as the header of   *)
(* server.js describes them.  Compressed siblings, ranges and encodings of  *)
(* a path stand for the file they belong to.                               *)
(***************************************************************************)
EXTENDS Naturals, Sequences, FiniteSets

CONSTANTS
  Container,
  Body,      \* contents of files
  Size,      \* and their sizes in bytes
  Builds,    \* what a build holds: its files with their bodies
  Path,      \* what a visitor asks for: a name in one of its shapes
  Legacy,    \* names that were moved: LEGACY_REDIRECTS
  PerRequest,\* names of the pages that are rendered for each request
  Arguments, \* the argument lists that containers are started with
  NoCopy,
  MaxSteps   \* bound of the model: deployments and starts

ASSUME WebAssumption ==
  /\ Size \in [Body -> Nat]
  /\ \A site \in Builds :
       /\ IsFiniteSet(DOMAIN site)
       /\ \A f \in DOMAIN site : site[f] \in Body /\ f.tree \in {"client", "prerendered"}
  /\ NoCopy \notin Builds /\ NoCopy \notin [strong : BOOLEAN, of : Body \union Nat]
  /\ MaxSteps \in Nat

VARIABLES
  image,  \* the build that new containers are given
  procs,  \* for each container, the process that runs in it, or its exit code
  copies, \* the visitor's copies
  shown,  \* what the last request showed the visitor
  steps   \* deployments and starts so far

webVars == <<image, procs, copies, shown, steps>>

-----------------------------------------------------------------------------
(* The dispatcher of the image.                                            *)

Role == {"web", "worker", "migrator"}

\* EXIT_USAGE, EXIT_UNAVAILABLE and EXIT_MALFORMED; and what Node exits with.
ExitUsage == 64
ExitMalformed == 70
ExitThrown == 1

\* The name of the link wins over the argument.
ResolvePlatformRole(link, args) ==
  CASE link \in Role -> [role |-> link, args |-> args]
    [] link \notin Role /\ args = <<>> -> [role |-> "none", args |-> args]
    [] OTHER -> [role |-> Head(args), args |-> Tail(args)]

Help(args) == \E i \in DOMAIN args : args[i] = "--help"

\* How a container ends up: its role runs, or it exits at once.
RunPlatformEntrypoint(link, args, loads) ==
  LET asked == ResolvePlatformRole(link, args)
      exits(code) == [runs |-> "none", code |-> code]
  IN CASE asked.role \notin Role -> exits(ExitUsage)
       [] asked.role \in Role /\ Help(asked.args) -> exits(0)
       [] asked.role = "web" /\ ~Help(asked.args) /\ ~loads -> exits(ExitThrown)
       [] asked.role \in Role \ {"web"} /\ ~Help(asked.args) /\ ~loads -> exits(ExitMalformed)
       [] OTHER -> [runs |-> asked.role]

-----------------------------------------------------------------------------
(* The index of validators, made at boot.                                  *)

\* A file is in one of the two trees; sirv answers a page with and without its
\* extension, and an index page also for its directory.
Pathnames(f) ==
  {<<f.name, shape>> : shape \in CASE f.form = "page" -> {"bare", "html"}
                                   [] f.form = "index" -> {"bare", "slash", "html"}
                                   [] OTHER -> {"file"}}

\* A name that is a hash is that of one content, in whatever build.
ASSUME HashedNames ==
  \A site, other \in Builds : \A f \in DOMAIN site, g \in DOMAIN other :
    f.form = "hashed" /\ Pathnames(f) \intersect Pathnames(g) # {} => site[f] = other[g]

\* Every page is prerendered: the client's tree holds assets only.
ASSUME ClientHasNoPages ==
  \A site \in Builds : \A f \in DOMAIN site : f.tree = "client" => f.form \notin {"page", "index"}

\* The assets whose names are hashes are left out.
Walk(site, tree) == {f \in DOMAIN site : f.tree = tree /\ f.form # "hashed"}

\* A mistaken validator, as sirv's own once the build has zeroed the times.
HashBySize(body) == [strong |-> TRUE, of |-> Size[body]]

HashFile(body) == [strong |-> TRUE, of |-> body]

\* The pages are entered in every shape, the client's files under their own path.
Entries(f) ==
  IF f.tree = "prerendered" THEN Pathnames(f)
  ELSE {<<f.name, IF f.form \in {"page", "index"} THEN "html" ELSE "file">>}

\* The prerendered tree is entered last.
EtagIndex(site) ==
  LET at(tree, p) == {f \in Walk(site, tree) : p \in Entries(f)}
      paths == UNION {Entries(f) : f \in Walk(site, "client") \union Walk(site, "prerendered")}
      file(p) == IF at("prerendered", p) # {} THEN CHOOSE f \in at("prerendered", p) : TRUE
                                              ELSE CHOOSE f \in at("client", p) : TRUE
  IN [p \in paths |-> HashFile(site[file(p)])]

-----------------------------------------------------------------------------
(* One request.                                                            *)

Response(status, body, etag, policy) ==
  [status |-> status, body |-> body, etag |-> etag, policy |-> policy]

FilesAt(site, p) == {f \in DOMAIN site : p \in Pathnames(f)}

\* The client tree answers first.
FileServed(site, p) ==
  LET client == {f \in FilesAt(site, p) : f.tree = "client"}
  IN CHOOSE f \in IF client # {} THEN client ELSE FilesAt(site, p) : TRUE

Sirv(site, p, ifNoneMatch) ==
  LET f == FileServed(site, p)
      weak == [strong |-> FALSE, of |-> Size[site[f]]]
  IN IF ifNoneMatch = weak THEN Response(304, NoCopy, NoCopy, "none")
     ELSE Response(200, site[f], weak, IF f.form = "hashed" THEN "immutable" ELSE "none")

\* hooks.server.ts: only what no tree answers comes here.
Handle(p) ==
  CASE p[1] \in Legacy -> Response(301, NoCopy, NoCopy, "none")
    [] p[1] \in PerRequest \ Legacy -> Response(200, "rendered", NoCopy, "must-revalidate")
    [] OTHER -> Response(404, NoCopy, NoCopy, "must-revalidate")

Handler(site, p, ifNoneMatch) ==
  IF FilesAt(site, p) # {} THEN Sirv(site, p, ifNoneMatch) ELSE Handle(p)

\* The wrapped writeHead: only a 200 is corrected.
Patched(response, etag) ==
  IF response.status = 200 THEN [response EXCEPT !.policy = "no-cache", !.etag = etag]
                           ELSE response

RequestListener(site, index, p, ifNoneMatch) ==
  CASE p \notin DOMAIN index -> Handler(site, p, ifNoneMatch)
    [] p \in DOMAIN index /\ ifNoneMatch = index[p] -> Response(304, NoCopy, index[p], "no-cache")
    [] OTHER -> Patched(Handler(site, p, ifNoneMatch), index[p])

-----------------------------------------------------------------------------
WebInit ==
  /\ image \in Builds
  /\ procs = [c \in Container |-> [runs |-> "none", code |-> 0]]
  /\ copies = [p \in Path |-> NoCopy]
  /\ shown = NoCopy /\ steps = 0

\* A new build; the containers that run keep theirs.
Deploy ==
  /\ steps < MaxSteps /\ steps' = steps + 1
  /\ image' \in Builds \ {image}
  /\ shown' = NoCopy
  /\ UNCHANGED <<procs, copies>>

\* A container is started by a link or by node, and GFTB_WEB_ENTRYPOINT names the
\* wrapped server or the generated one below it.
StartContainer(c) ==
  /\ procs[c].runs = "none" /\ steps < MaxSteps /\ steps' = steps + 1
  /\ \E link \in {"web", "worker", "node"}, args \in Arguments, loads \in BOOLEAN,
        server \in {"server.js", "build/index.js"} :
       LET started == RunPlatformEntrypoint(link, args, loads)
       IN procs' = [procs EXCEPT ![c] =
                      IF started.runs = "none" THEN started
                      ELSE [runs |-> started.runs, link |-> link, site |-> image, server |-> server,
                            index |-> EtagIndex(image)]]
  /\ shown' = NoCopy
  /\ UNCHANGED <<image, copies>>

\* SIGTERM, SIGINT or a crash; requests are answered in one step.
StopContainer(c) ==
  /\ procs[c].runs # "none"
  /\ procs' = [procs EXCEPT ![c] = [runs |-> "none", code |-> 0]]
  /\ shown' = NoCopy
  /\ UNCHANGED <<image, copies, steps>>

Shown(p, copy, site) ==
  [path |-> p, body |-> copy.body, from |-> copy.from, of |-> copy.of, site |-> site]

\* The visitor asks a container, with the validator of the copy that there is.  What has
\* no validator and must be revalidated is not worth a copy.
Ask(c, p) ==
  /\ procs[c].runs = "web"
  /\ LET copy == copies[p]
         site == procs[c].site
         tag == IF copy = NoCopy THEN NoCopy ELSE copy.etag
         response == IF procs[c].server = "server.js"
                     THEN RequestListener(site, procs[c].index, p, tag)
                     ELSE Handler(site, p, tag)
         kept == [body |-> response.body, etag |-> response.etag, policy |-> response.policy,
                  from |-> procs[c].server, of |-> site]
     IN CASE response.status = 200 ->
               /\ copies' = IF response.etag = NoCopy THEN copies ELSE [copies EXCEPT ![p] = kept]
               /\ shown' = Shown(p, kept, site)
          [] response.status = 304 ->
               /\ shown' = Shown(p, copy, site)
               /\ UNCHANGED copies
          [] OTHER -> UNCHANGED <<copies, shown>>
  /\ UNCHANGED <<image, procs, steps>>

\* What is immutable, or has no policy at all and so a heuristic one, is shown unasked.
ShowCopy(p) ==
  /\ copies[p] # NoCopy /\ copies[p].policy \in {"none", "immutable"}
  /\ shown' = Shown(p, copies[p], NoCopy)
  /\ UNCHANGED <<image, procs, copies, steps>>

WebNext ==
  \/ Deploy
  \/ \E c \in Container : StartContainer(c) \/ StopContainer(c)
  \/ \E c \in Container, p \in Path : Ask(c, p)
  \/ \E p \in Path : ShowCopy(p)

WebSpec == WebInit /\ [][WebNext]_webVars

-----------------------------------------------------------------------------
\* A file of either tree answers for the path: the index and sirv then differ.
TwoFiles(site, p) == Cardinality(FilesAt(site, p)) > 1

\* A visitor of the wrapped server is shown what the container that answered holds,
\* also when several builds answer in turn and the copy is another's; of its files
\* only those whose names are hashes are shown unasked; and no container that was
\* started by the link of another role answers at all.  (server.js:22-26, TIN-3959:
\* visitors must not "keep serving whatever the browser cached"; platform-entrypoint
\* .mjs:93-94.)  A copy that the generated server gave is not covered: sirv takes its
\* weak validator back, and that only tells sizes apart.
PagesAreTheContainers ==
  /\ shown # NoCopy /\ shown.from = "server.js" =>
       IF shown.site = NoCopy
       THEN \E site \in Builds : \E f \in FilesAt(site, shown.path) : f.form = "hashed"
       ELSE \/ FilesAt(shown.site, shown.path) = {}
            \/ TwoFiles(shown.site, shown.path) \/ TwoFiles(shown.of, shown.path)
            \/ shown.body = shown.site[FileServed(shown.site, shown.path)]
  /\ \A c \in Container : procs[c].runs = "web" => procs[c].link # "worker"

=============================================================================
