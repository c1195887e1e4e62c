------------------------------ MODULE MCDrafts ------------------------------
(* An instance for TLC of what decides whether a text may become public:    *)
(* Drafts, the leak scan and the gates around it, and StaticProjection.     *)
EXTENDS Drafts, LeakScan, TreeScan, StaticProjection, TLC

CONSTANTS short, name, fullName, d1, b1, b2, k1, k2

Symmetry == Permutations(Branch) \union Permutations(Key)

-----------------------------------------------------------------------------
(* LeakScan: three values that overlap, one within another, and one with a *)
(* punctuation mark; one letter in both cases.                             *)

MCLower(c) == IF c = "A" THEN "a" ELSE c
MCValue == <<<<"a", "b">>, <<"b", "c">>, <<"a">>, <<"c", ".", "c">>>>

-----------------------------------------------------------------------------
(* StaticProjection: an old and a new publication, one elsewhere under      *)
(* another key, one that miscounts, one with a kind that is not known,      *)
(* one whose hash is of something else, and two pulses.                     *)

CONSTANTS here, there, u1, u2, keyA, keyB, t1, t2

Spoke(items, count) == [schema |-> "static-spoke", kind |-> "known", items |-> items, count |-> count,
  authority |-> there, spoke |-> here, url |-> "https", names |-> "public", allowed |-> TRUE]
PulseOf(items) == [Spoke(items, 1) EXCEPT !.schema = "pulse", !.authority = here]
Hashed(content) == [content |-> content, hash |-> HashOf(content)]
Published(snapshot, url, by, at) == [snapshot |-> snapshot, url |-> url, by |-> by, keyId |-> there, created |-> at]
MCPublication == {
  Published(Hashed(Spoke({1}, 1)), u1, keyA, t1),
  Published(Hashed(Spoke({2}, 1)), u1, keyA, t2),
  Published(Hashed(Spoke({2}, 1)), u2, keyB, t2),
  Published(Hashed([Spoke({1,2}, 1) EXCEPT !.kind = "unknown"]), u1, keyA, t1),
  Published([Hashed(Spoke({1}, 1)) EXCEPT !.content.count = 2], u1, keyA, t1),
  Published(Hashed(PulseOf({1})), u1, keyA, t2),
  Published(Hashed(PulseOf({2})), u1, keyA, t1) }

MCOption ==
  [authority : {there, NoFile}, spoke : {here, NoFile}, actorId : {there, NoFile},
   keyId : {there, NoFile}, requireSignature : BOOLEAN, dryRun : BOOLEAN]

-----------------------------------------------------------------------------
(* TreeScan: a text under each of two roots, an opaque file, one of a kind *)
(* that is not known, and the scan's own rules, which hold a value and are *)
(* left out.  The second text and the unknown file may be tracked or not,  *)
(* and the first text and the unknown file may be gone from the start.     *)

CONSTANTS guide, page, photo, sheet, rules

MCKindOf == [p \in Path |-> CASE p = photo -> "opaque" [] p = sheet -> "unknown" [] OTHER -> "text"]
MCRootOf == [p \in Path |-> IF p = page THEN "static" ELSE "docs"]

MCCheckout == [
  tracked : {t \in SUBSET Path : {guide, photo, rules} \subseteq t},
  disk : {d \in [Path -> Written \union {Gone}] :
            /\ d[photo] = "nothing" /\ d[sheet] \in {"nothing", Gone}
            /\ d[rules] = "a value" /\ d[page] = "nothing"}]

-----------------------------------------------------------------------------
(* The four share no state: a behaviour is one of theirs.                  *)

VARIABLE part

allVars == <<vars, scanVars, treeScanVars, projectionVars, part>>

AllInit ==
  /\ Init /\ ScanInit /\ TreeScanInit /\ ProjectionInit
  /\ part \in {"drafts", "scan", "tree", "projection"}
  /\ \/ part = "tree"
     \/ gate = "src" /\ [tracked |-> tracked, disk |-> disk] = CHOOSE c \in Checkout : TRUE

AllNext ==
  \/ part = "drafts" /\ Next /\ UNCHANGED <<scanVars, treeScanVars, projectionVars, part>>
  \/ part = "scan" /\ Write /\ UNCHANGED <<vars, treeScanVars, projectionVars, part>>
  \/ part = "tree" /\ TreeScanNext /\ UNCHANGED <<vars, scanVars, projectionVars, part>>
  \/ part = "projection" /\ ProjectionNext /\ UNCHANGED <<vars, scanVars, treeScanVars, part>>

AllSpec == AllInit /\ [][AllNext]_allVars

=============================================================================
