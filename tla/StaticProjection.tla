-------------------------- MODULE StaticProjection --------------------------
(***************************************************************************)
(* The static projection: src/lib/projection/static-snapshot.ts, which     *)
(* says what a snapshot of another site's public content must be, and      *)
(* scripts/static-projection-snapshot.mts, which fetches one and writes it *)
(* into the tree.                                                          *)
(*                                                                         *)
(* A hash, a digest and a signature are what they were computed over.  A   *)
(* field that must merely be present is so; the names of the fields at any *)
(* depth are the worst of them.  The pages and the authority's documents   *)
(* are answers of a server: a cache between it and us may answer with the  *)
(* parts of different publications.                                        *)
(***************************************************************************)
EXTENDS Integers, FiniteSets

CONSTANTS
  Url, Signer, Instant,
  Items,        \* what a collection may hold; each is a finite set
  Named,        \* sites, actors and the names of keys
  Publication,  \* what authorities may publish, and sign
  Option,       \* command lines: options that are given, or not
  MaxPublished, \* a bound on what is published
  NoFile

VARIABLES
  published,    \* what has been published so far
  file          \* the checked-in snapshot, and what the sync that wrote it was given

projectionVars == <<published, file>>

ASSUME StaticProjectionAssumption ==
  /\ \A items \in Items : IsFiniteSet(items)
  /\ \A p \in Publication : DOMAIN p.snapshot = {"content", "hash"}

-----------------------------------------------------------------------------
(* Snapshots.                                                              *)

Schema == {"static-spoke", "pulse", "other"}

\* A projection kind whose collection is known, or another; a pulse has only items.
ProjectionKind == {"known", "unknown"}

Content == [schema : Schema, kind : ProjectionKind, items : Items, count : 0..2,
            authority : Named, spoke : Named, url : {"https", "decorated"},
            names : {"public", "private", "secret"}, allowed : BOOLEAN]

\* calculateStaticSpokeContentHash is over everything, calculatePulseContentHash over
\* the items.
HashOf(content) ==
  IF content.schema = "pulse" THEN <<"items", content.items>> ELSE <<"all", content>>

\* What is wrong with a static spoke snapshot, when these are expected.
StaticSpoke(snapshot, options) ==
  /\ options.authority # NoFile => snapshot.content.authority = options.authority
  /\ options.spoke # NoFile => snapshot.content.spoke = options.spoke
  /\ snapshot.content.url = "https"
  /\ snapshot.hash = HashOf(snapshot.content)
  /\ snapshot.content.kind = "known" => snapshot.content.count = Cardinality(snapshot.content.items)

\* A mistaken check of a pulse leaves out its hash.
PulseUnhashed(snapshot) ==
  /\ snapshot.content.count = Cardinality(snapshot.content.items)
  /\ snapshot.content.allowed
  /\ snapshot.content.names # "private"

\* Kinds of items that may be public, and no field named for a place or a private key.
Pulse(snapshot) ==
  /\ snapshot.hash = HashOf(snapshot.content)
  /\ snapshot.content.count = Cardinality(snapshot.content.items)
  /\ snapshot.content.allowed
  /\ snapshot.content.names # "private"

\* validateStaticProjectionSnapshot.
ValidSnapshot(snapshot, options) ==
  /\ snapshot.content.names # "secret"
  /\ CASE snapshot.content.schema = "static-spoke" -> StaticSpoke(snapshot, options)
       [] snapshot.content.schema = "pulse" -> Pulse(snapshot)
       [] OTHER -> FALSE

-----------------------------------------------------------------------------
(* The authority's key, and its signatures.                                *)

Actor == [id : Named, owner : Named, keyId : Named, key : Signer]

\* validateActivityPubActorKeyDocument.
ValidActor(actor, options) ==
  /\ actor.owner = actor.id
  /\ options.actorId # NoFile => actor.id = options.actorId
  /\ options.keyId # NoFile => actor.keyId = options.keyId

\* The authority signs the address, the digest and the instant, and names its key.
Signature(publication) ==
  [key |-> publication.by, keyId |-> publication.keyId,
   over |-> [url |-> publication.url, digest |-> publication.snapshot,
             created |-> publication.created]]

\* A mistaken verification does not compare the digest with the body.
SignedUncompared(answer, url, actor, keyId) ==
  /\ answer.signature.keyId = keyId
  /\ answer.signature.key = actor.key
  /\ answer.signature.over = [url |-> url, digest |-> answer.digest, created |-> answer.created]

\* validateProjectionHttpSignature.
Signed(answer, url, actor, keyId) ==
  /\ answer.digest = answer.body
  /\ answer.signature.keyId = keyId
  /\ answer.signature.key = actor.key
  /\ answer.signature.over = [url |-> url, digest |-> answer.digest, created |-> answer.created]

\* A server or a cache mixes publications: each header is of one of them, and the
\* items in the body may be those of another.
Answers ==
  [body : {[p.snapshot EXCEPT !.content.items = q.snapshot.content.items] :
             p \in published, q \in published},
   digest : {p.snapshot : p \in published},
   created : {p.created : p \in published},
   signature : {Signature(p) : p \in published}]

-----------------------------------------------------------------------------
(* The commands.  No file stands for an option that is not given, too.     *)

\* validate: the source is a file of the tree or an address, the actor may be missing.
Accepted(answer, url, actor, options) ==
  /\ ValidSnapshot(answer.body, options)
  /\ actor # NoFile => ValidActor(actor, options)
  /\ options.requireSignature =>
       /\ url # NoFile
       /\ actor # NoFile
       /\ Signed(answer, url, actor, IF options.keyId # NoFile THEN options.keyId ELSE actor.keyId)

ProjectionInit == published = {} /\ file = NoFile

Publish ==
  /\ file = NoFile /\ Cardinality(published) < MaxPublished
  /\ \E p \in Publication \ published : published' = published \union {p}
  /\ UNCHANGED file

\* sync: nothing is written before everything has been asked.
Sync ==
  /\ file = NoFile
  /\ \E options \in Option, answer \in Answers, url \in Url \union {NoFile},
        actor \in Actor \union {NoFile} :
       /\ ~options.dryRun
       /\ Accepted(answer, url, actor, options)
       /\ file' = [snapshot |-> answer.body, created |-> answer.created, url |-> url,
                   by |-> IF options.requireSignature THEN actor.key ELSE NoFile]
  /\ UNCHANGED published

ProjectionNext == Publish \/ Sync

ProjectionSpec == ProjectionInit /\ [][ProjectionNext]_projectionVars

-----------------------------------------------------------------------------
(* Properties.                                                             *)

\* Whatever mixture of publications answers a sync, the file that it writes holds
\* what a publisher hashed (a whole spoke snapshot, or the items of a pulse); and
\* one that had to be signed is, as a whole, what the holder of the actor's key
\* published under this address at the instant that the answer names.
\* (usage: a "fail-closed Tinyland HTTP Signature over the fetched snapshot body".)
SyncedWasPublished ==
  file # NoFile =>
    /\ \E p \in published : HashOf(file.snapshot.content) = p.snapshot.hash
    /\ file.by # NoFile => \E p \in published :
         /\ p.snapshot = file.snapshot
         /\ p.url = file.url /\ p.by = file.by /\ p.created = file.created

=============================================================================
