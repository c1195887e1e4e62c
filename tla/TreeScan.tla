------------------------------ MODULE TreeScan ------------------------------
(***************************************************************************)
(* One run of a leak gate over files that people go on changing:           *)
(* check-tracked-tree.mjs ("tree": docs, static and the like),             *)
(* leak-scan-src.mjs ("src") and check-build-output.mjs ("build").  The    *)
(* list of the files is taken first; then each is looked up on disk, and   *)
(* only when every file has a verdict is the first one read.  The runner   *)
(* reads the working tree, not the index it took the list from, and an     *)
(* editor, a rebase or a build may write to it between any two steps.      *)
(*                                                                         *)
(* Of a file's text only this is kept: that it has no protected value, one, *)
(* or one that the gate's reviewed exceptions name.  A build is one         *)
(* directory.  The order in which files are looked up and read is left open. *)
(***************************************************************************)
EXTENDS Integers, FiniteSets

CONSTANTS
  Path,
  KindOf,       \* what the extension of a path says of it
  ScanRoot,
  RootOf,       \* the configured root that a path is under
  SelfExclude,  \* the paths that a scan of tracked files leaves out
  Checkout,     \* what a run may start from: the index and the disk
  Gone,         \* on disk: there is no such file
  MaxDiskChanges \* a bound on what is changed on disk during the run

Gate == {"tree", "src", "build"}
FileKind == {"text", "opaque", "unknown"}
Written == {"nothing", "a value", "a reviewed value"}

ASSUME TreeScanAssumption ==
  /\ KindOf \in [Path -> FileKind] /\ RootOf \in [Path -> ScanRoot]
  /\ SelfExclude \subseteq Path /\ Gone \notin Written
  /\ Checkout \subseteq [tracked : SUBSET Path, disk : [Path -> Written \union {Gone}]]
  /\ MaxDiskChanges \in Nat

VARIABLES
  gate,         \* which runner it is
  tracked,      \* the index: what git ls-files prints
  disk,         \* the working tree, or the build directory
  onDiskSince,  \* history: for each path, all it has been since the list was taken
  diskChanges,
  scan          \* the run: its list, the files it will read, those not dealt with
                \* yet, those that it found a value in, and its exit code

treeScanVars == <<gate, tracked, disk, onDiskSince, diskChanges, scan>>

ScanRun ==
  [at : {"start", "classify", "read", "end"}, listed : SUBSET Path, todo : SUBSET Path,
   files : SUBSET Path, findings : SUBSET Path, code : {-1, 0, 1, 2}]

TreeScanTypeOK ==
  /\ gate \in Gate /\ tracked \subseteq Path
  /\ disk \in [Path -> Written \union {Gone}]
  /\ onDiskSince \in [Path -> SUBSET (Written \union {Gone})]
  /\ diskChanges \in 0..MaxDiskChanges
  /\ scan \in ScanRun

-----------------------------------------------------------------------------
(* The runner's rules.                                                     *)

\* A finding that a reviewed exception names does not count; only src has exceptions.
Counts(g, written) == written = "a value" \/ (written = "a reviewed value" /\ g # "src")

\* The build is walked, with nothing left out.
LeftOut(g) == IF g = "build" THEN {} ELSE SelfExclude

\* Roots that do not have a path; a build directory has no roots of its own.
EmptyRoots(g, paths) ==
  IF g = "build" THEN {} ELSE {r \in ScanRoot : \A p \in paths : RootOf[p] # r}

Listing(g) == IF g = "build" THEN {p \in Path : disk[p] # Gone} ELSE tracked

\* fail() exits with 2.  What scanBuildDirectory throws, other than for a file it has no
\* verdict on, nobody catches: Node exits with 1.
BrokenOff(g) == IF g = "build" THEN 1 ELSE 2

ExitWith(code) == scan' = [scan EXCEPT !.at = "end", !.code = code]

TreeScanInit ==
  /\ gate \in Gate
  /\ \E c \in Checkout : tracked = c.tracked /\ disk = c.disk
  /\ onDiskSince = [p \in Path |-> {}] /\ diskChanges = 0
  /\ scan = [at |-> "start", listed |-> {}, todo |-> {}, files |-> {}, findings |-> {}, code |-> -1]

-----------------------------------------------------------------------------
(* The run.                                                                *)

WorldStays == UNCHANGED <<gate, tracked, disk, diskChanges>>

List ==
  /\ scan.at = "start"
  /\ onDiskSince' = [p \in Path |-> {disk[p]}]
  /\ LET paths == Listing(gate)
     IN IF EmptyRoots(gate, paths) # {}
        THEN ExitWith(2)
        ELSE scan' = [scan EXCEPT !.at = "classify", !.listed = paths,
                                  !.todo = paths \ LeftOut(gate)]
  /\ WorldStays

\* git does not answer, or there is no build directory.
CannotList ==
  /\ scan.at = "start" /\ ExitWith(2)
  /\ UNCHANGED onDiskSince /\ WorldStays

\* statSync finds the file.  Whatever is neither text nor opaque is counted at the end.
LookUp(p) ==
  /\ scan.at = "classify" /\ p \in scan.todo /\ disk[p] # Gone
  /\ scan' = [scan EXCEPT !.todo = @ \ {p},
                          !.files = IF KindOf[p] = "text" THEN @ \union {p} ELSE @]
  /\ UNCHANGED onDiskSince /\ WorldStays

\* A mistaken runner passes over a file that is not there.
MissingSkipped(p) ==
  /\ scan.at = "classify" /\ p \in scan.todo /\ disk[p] = Gone
  /\ scan' = [scan EXCEPT !.todo = @ \ {p}]
  /\ UNCHANGED onDiskSince /\ WorldStays

Missing(p) ==
  /\ scan.at = "classify" /\ p \in scan.todo /\ disk[p] = Gone
  /\ ExitWith(BrokenOff(gate))
  /\ UNCHANGED onDiskSince /\ WorldStays

\* Every file has been looked up: those that nothing is known of end the run, and so does
\* a list without a text.
Classified ==
  /\ scan.at = "classify" /\ scan.todo = {}
  /\ IF \/ \E p \in scan.listed \ LeftOut(gate) : KindOf[p] = "unknown"
        \/ scan.files = {}
     THEN ExitWith(2)
     ELSE scan' = [scan EXCEPT !.at = "read", !.todo = scan.files]
  /\ UNCHANGED onDiskSince /\ WorldStays

ReadFile(p) ==
  /\ scan.at = "read" /\ p \in scan.todo /\ disk[p] # Gone
  /\ scan' = [scan EXCEPT !.todo = @ \ {p},
                          !.findings = IF Counts(gate, disk[p]) THEN @ \union {p} ELSE @]
  /\ UNCHANGED onDiskSince /\ WorldStays

\* readFileSync throws: the file has gone, or cannot be read.
Unreadable(p) ==
  /\ scan.at = "read" /\ p \in scan.todo
  /\ ExitWith(BrokenOff(gate))
  /\ UNCHANGED onDiskSince /\ WorldStays

Judge ==
  /\ scan.at = "read" /\ scan.todo = {}
  /\ ExitWith(IF scan.findings = {} THEN 0 ELSE 1)
  /\ UNCHANGED onDiskSince /\ WorldStays

-----------------------------------------------------------------------------
(* The people, while the gate runs: an edit, a checkout, a file moved away. *)

ChangeDisk(p) ==
  /\ diskChanges < MaxDiskChanges /\ scan.at \in {"classify", "read"}
  /\ \E c \in (Written \union {Gone}) \ {disk[p]} :
       /\ disk' = [disk EXCEPT ![p] = c]
       /\ onDiskSince' = [onDiskSince EXCEPT ![p] = @ \union {c}]
  /\ diskChanges' = diskChanges + 1
  /\ UNCHANGED <<gate, tracked, scan>>

TreeScanNext ==
  \/ List \/ CannotList \/ Classified \/ Judge
  \/ \E p \in Path : \/ LookUp(p) \/ Missing(p) \/ ReadFile(p) \/ Unreadable(p)
                     \/ ChangeDisk(p)

TreeScanSpec == TreeScanInit /\ [][TreeScanNext]_treeScanVars

-----------------------------------------------------------------------------
(* Properties.                                                             *)

\* Whatever is changed while a gate runs, its verdict is true of what it listed.  It
\* passes only if every listed file it had to look at has, since the list was taken, been
\* on disk: as a file opaque by its kind, or as a text without a value that counts.  So
\* a file that was never there, and a value that stood all the time, do not pass.  A scan
\* of tracked files exits with 1 only if a listed file did hold a value
\* (check-tracked-tree.mjs: "this script's own contract is 1 = findings, 2 = structural
\* failure"; a path can be listed and be "missing on disk mid-rebase").
VerdictsAreTrue ==
  /\ scan.code = 0 =>
       \A p \in scan.listed \ LeftOut(gate) : \E c \in onDiskSince[p] \ {Gone} :
         KindOf[p] = "opaque" \/ (KindOf[p] = "text" /\ ~Counts(gate, c))
  /\ scan.code = 1 /\ gate # "build" =>
       \E p \in scan.listed : \E c \in onDiskSince[p] : Counts(gate, c)

=============================================================================
