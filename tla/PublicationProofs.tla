-------------------------- MODULE PublicationProofs --------------------------
(***************************************************************************)
(* Proofs about what decides whether a text may become public: the drafts   *)
(* and their gate (Drafts), the leak scan (LeakScan), the sync of the static *)
(* projection (StaticProjection) and the public reader of the archive       *)
(* (DiscussArchive), for any tokens, keys, branches, files, publications,   *)
(* threads and bodies.                                                      *)
(***************************************************************************)
EXTENDS Drafts, LeakScan, TreeScan, StaticProjection, DiscussArchive, DataLemmas

-----------------------------------------------------------------------------
(* Drafts: the inductive invariant.                                         *)

\* Every draft of a tree has been read by a check that had the key of its list.
Cleared(tree) == \A s \in Slug : tree.drafts[s] # None => <<s, tree.drafts[s]>> \in cleared

\* So it is on the main branch, and on each branch whose check has passed: a branch
\* that was checked without a key has the main branch's drafts.
DraftsInv ==
  /\ TypeOK
  /\ blind = {} => /\ Cleared(main)
                   /\ \A b \in Branch : branch[b].checked => Cleared(branch[b].tree)

LEMMA DraftsInit == ASSUME Init PROVE DraftsInv
<1>1. PICK t \in Token \ Short : plain = {t}
  BY DEF Init
<1>2. main \in Tree /\ \A s \in Slug : main.drafts[s] = None
  BY <1>1 DEF Init, Tree
<1>3. TypeOK
  <2>1. key \in Key /\ plain \in SUBSET Token /\ edits \in 0..MaxEdits
    BY <1>1, DraftsAssumption DEF Init
  <2>2. branch \in [Branch -> [base : Tree, tree : Tree, checked : BOOLEAN]]
    BY <1>2 DEF Init
  <2> QED BY <1>2, <2>1, <2>2 DEF Init, TypeOK
<1>4. Cleared(main) /\ \A b \in Branch : ~branch[b].checked
  BY <1>2 DEF Init, Cleared
<1> QED BY <1>3, <1>4 DEF DraftsInv

\* A step that leaves the main branch alone keeps the invariant if it keeps the trees
\* that have been checked.
LEMMA EditKeeps ==
  ASSUME DraftsInv, TypeOK', UNCHANGED <<main, cleared, blind>>,
         \A b \in Branch : branch'[b].checked =>
           branch[b].checked /\ branch'[b].tree = branch[b].tree
  PROVE  DraftsInv'
BY DEF DraftsInv, Cleared

\* A branch gets a tree of some drafts and digests.
LEMMA PutKeeps ==
  ASSUME DraftsInv, NEW b \in Branch, NEW tree \in Tree, Put(b, tree),
         UNCHANGED <<main, cleared, blind>>,
         key' \in Key \union {None}, plain' \in (SUBSET Token) \union {None}, edits' \in 0..MaxEdits
  PROVE  DraftsInv'
<1>1. branch \in [Branch -> [base : Tree, tree : Tree, checked : BOOLEAN]]
  BY DEF DraftsInv, TypeOK
<1>2. branch' = [branch EXCEPT ![b] = [branch[b] EXCEPT !.tree = tree, !.checked = FALSE]]
  BY <1>1 DEF Put
<1>3. branch'[b] = [base |-> branch[b].base, tree |-> tree, checked |-> FALSE]
  BY <1>1, <1>2
<1>4. /\ branch' \in [Branch -> [base : Tree, tree : Tree, checked : BOOLEAN]]
      /\ \A c \in Branch \ {b} : branch'[c] = branch[c]
  BY <1>1, <1>2, <1>3
<1>5. TypeOK'
  BY <1>4 DEF DraftsInv, TypeOK
<1> QED BY <1>3, <1>4, <1>5, EditKeeps

LEMMA PutDraftKeeps ==
  ASSUME DraftsInv, NEW b \in Branch, NEW s \in Slug, NEW draft \in Draft \union {None},
         PutDraft(b, s, draft), Edit, UNCHANGED <<key, plain, main, cleared, blind>>
  PROVE  DraftsInv'
<1>1. branch[b].tree \in Tree
  BY DEF DraftsInv, TypeOK
<1>2. [branch[b].tree EXCEPT !.drafts[s] = draft] \in Tree
  BY <1>1 DEF Tree
<1>3. edits' \in 0..MaxEdits
  BY DraftsAssumption DEF DraftsInv, TypeOK, Edit
<1> QED BY <1>2, <1>3, PutKeeps DEF PutDraft, DraftsInv, TypeOK

\* What the operator, the tools and the hands do.
LEMMA EnrollTokenKeeps == ASSUME DraftsInv, EnrollToken PROVE DraftsInv'
<1>1. plain' \in (SUBSET Token) \union {None}
  BY DEF EnrollToken, DraftsInv, TypeOK
<1>2. TypeOK'
  BY <1>1, DraftsAssumption DEF EnrollToken, Edit, DraftsInv, TypeOK
<1> QED BY <1>2, EditKeeps DEF EnrollToken

LEMMA LoseFilesKeeps == ASSUME DraftsInv, LoseFiles PROVE DraftsInv'
<1>1. TypeOK'
  BY DraftsAssumption DEF LoseFiles, Edit, DraftsInv, TypeOK
<1> QED BY <1>1, EditKeeps DEF LoseFiles

LEMMA GenerateHashesKeeps ==
  ASSUME DraftsInv, NEW b \in Branch, GenerateHashes(b) PROVE DraftsInv'
<1> DEFINE tree == [branch[b].tree EXCEPT !.hashes = {key'} \X plain]
<1>1. key' \in Key \union {None} /\ (key' = None => key = None)
  BY DEF GenerateHashes, DraftsInv, TypeOK
<1>2. CASE UNCHANGED branch
  <2>1. TypeOK'
    BY <1>1, <1>2 DEF GenerateHashes, DraftsInv, TypeOK
  <2> QED BY <1>2, <2>1, EditKeeps DEF GenerateHashes
<1>3. CASE plain \notin {None, {}} /\ Put(b, tree)
  <2>1. key' \in Key /\ plain \subseteq Token
    BY <1>1, <1>3 DEF GenerateHashes, DraftsInv, TypeOK
  <2>2. tree \in Tree
    BY <2>1 DEF Tree, DraftsInv, TypeOK
  <2> QED BY <1>1, <1>3, <2>2, PutKeeps DEF GenerateHashes, DraftsInv, TypeOK
<1> QED BY <1>2, <1>3 DEF GenerateHashes

LEMMA StageKeeps ==
  ASSUME DraftsInv, NEW b \in Branch, NEW s \in Slug, Stage(b, s) PROVE DraftsInv'
<1>1. PICK said \in Said :
        PutDraft(b, s, [said |-> said, published |-> FALSE, archiveUrl |-> FALSE, notice |-> TRUE])
  BY DEF Stage
<1>2. [said |-> said, published |-> FALSE, archiveUrl |-> FALSE, notice |-> TRUE] \in Draft
  BY DEF Draft
<1> QED BY <1>1, <1>2, PutDraftKeeps DEF Stage

LEMMA ReconcileKeeps ==
  ASSUME DraftsInv, NEW b \in Branch, NEW s \in Slug, Reconcile(b, s) PROVE DraftsInv'
<1> DEFINE draft == branch[b].tree.drafts[s]
           after == [draft EXCEPT !.published = TRUE, !.archiveUrl = TRUE, !.notice = FALSE]
<1>1. draft \in Draft
  BY DEF Reconcile, Reconcilable, DraftsInv, TypeOK, Tree
<1>2. after \in Draft
  BY <1>1 DEF Draft
<1> QED BY <1>2, PutDraftKeeps DEF Reconcile

LEMMA EditByHandKeeps ==
  ASSUME DraftsInv, NEW b \in Branch, EditByHand(b) PROVE DraftsInv'
<1>1. ASSUME NEW s \in Slug, NEW draft \in ByHand(branch[b].tree.drafts[s]), PutDraft(b, s, draft)
      PROVE  DraftsInv'
  <2>1. branch[b].tree.drafts[s] \in Draft \union {None}
    BY DEF DraftsInv, TypeOK, Tree
  <2>2. draft \in Draft \union {None}
    <3>1. CASE branch[b].tree.drafts[s] = None
      BY <1>1, <3>1 DEF ByHand, Draft
    <3>2. CASE branch[b].tree.drafts[s] # None
      <4> DEFINE old == branch[b].tree.drafts[s]
      <4>1. old \in Draft
        BY <2>1, <3>2
      <4>2. draft \in {[old EXCEPT !.said = said] : said \in Said}
                        \union {[old EXCEPT !.published = ~@], [old EXCEPT !.archiveUrl = ~@],
                                [old EXCEPT !.notice = ~@], None}
        BY <1>1, <3>2 DEF ByHand
      <4> HIDE DEF old
      <4> QED BY <4>1, <4>2 DEF Draft
    <3> QED BY <3>1, <3>2
  <2> QED BY <1>1, <2>2, PutDraftKeeps DEF EditByHand
<1>2. ASSUME Put(b, [branch[b].tree EXCEPT !.hashes = {}]) PROVE DraftsInv'
  <2>1. [branch[b].tree EXCEPT !.hashes = {}] \in Tree
    BY DEF DraftsInv, TypeOK, Tree
  <2>2. edits' \in 0..MaxEdits
    BY DraftsAssumption DEF DraftsInv, TypeOK, EditByHand, Edit
  <2> QED BY <1>2, <2>1, <2>2, PutKeeps DEF EditByHand, DraftsInv, TypeOK
<1> QED BY <1>1, <1>2 DEF EditByHand

\* A check with the key that saw everything has read every draft and found none that
\* names a token of the list: the key made the digests, and no token was too long.
LEMMA KeyedCheckClears ==
  ASSUME TypeOK, NEW b \in Branch, NEW k \in Key, NEW p, NEW failed,
         Passes(b, k, p, TRUE, {}), k # None, Blind(b, k, failed) = {},
         NEW s \in Slug, branch[b].tree.drafts[s] # None
  PROVE  <<s, branch[b].tree.drafts[s]>> \in Clears(b)
<1> DEFINE tree == branch[b].tree
           draft == tree.drafts[s]
<1>1. draft \in Draft /\ draft.said \in Said /\ tree.hashes \subseteq Key \X Token
  BY DEF TypeOK, Tree, Draft
<1>2. Consented(draft.said, k, tree.hashes)
  BY DEF Passes, IdentityGateScope, Validated
<1>3. ASSUME NEW h \in tree.hashes, draft.said.of = h[2] PROVE FALSE
  <2>0. "a digest" \notin Blind(b, k, failed) /\ "a digest" \in Unseen
    BY DEF Unseen
  <2>1. h[1] = k /\ h[2] \notin Long /\ h = <<h[1], h[2]>> /\ h[2] \in Token
    <3>1. ~(h[1] # k \/ h[2] \in Long)
      <4> SUFFICES ASSUME h[1] # k \/ h[2] \in Long PROVE "a digest" \in Blind(b, k, failed)
        BY <2>0
      <4>1. draft # None /\ draft.said.of = h[2]
        BY <1>3
      <4> QED BY <2>0, <4>1 DEF Blind
    <3> QED BY <1>1, <3>1
  <2>2. draft.said.of \in Token \ Short
    BY <1>1, <1>3, <2>1, DraftsAssumption DEF Said
  <2> QED BY <1>2, <1>3, <2>1, <2>2 DEF Consented, ContainsProtectedIdentity
<1> QED BY <1>1, <1>3 DEF Clears

\* One without it passes only the drafts of the main branch.
LEMMA UnkeyedCheckSkips ==
  ASSUME TypeOK, NEW b \in Branch, NEW p, NEW resolved, NEW failed \in BOOLEAN,
         Passes(b, None, p, resolved, IF failed THEN {} ELSE ChangedDraftPaths(b)),
         Blind(b, None, failed) = {}, failed => resolved
  PROVE  \A s \in Slug : branch[b].tree.drafts[s] = main.drafts[s]
<1>1. (IF failed THEN {} ELSE ChangedDraftPaths(b)) = {}
  BY DEF Passes, IdentityGateScope, Validated
<1>2. ChangedDraftPaths(b) = {}
  <2>1. "the difference" \notin Blind(b, None, failed) /\ "the difference" \in Unseen
    BY DEF Unseen
  <2> QED BY <1>1, <2>1 DEF Blind
<1> QED BY <1>2 DEF ChangedDraftPaths

LEMMA CheckKeeps == ASSUME DraftsInv, NEW b \in Branch, Check(b) PROVE DraftsInv'
<1>1. PICK own \in BOOLEAN, resolved \in BOOLEAN, failed \in BOOLEAN :
        LET k == IF own THEN key ELSE None
            p == IF own THEN plain ELSE None
        IN /\ failed => k = None /\ resolved
           /\ k # None => resolved
           /\ Passes(b, k, p, resolved, IF failed THEN {} ELSE ChangedDraftPaths(b))
           /\ cleared' = IF k # None THEN cleared \union Clears(b) ELSE cleared
           /\ blind' = blind \union Blind(b, k, failed)
  BY DEF Check
<1> DEFINE k == IF own THEN key ELSE None
           p == IF own THEN plain ELSE None
<1>2. /\ branch' = [branch EXCEPT ![b].checked = TRUE]
      /\ UNCHANGED <<key, plain, main, edits>>
  BY DEF Check
<1>3. Clears(b) \subseteq Slug \X Draft /\ cleared \subseteq cleared'
  BY <1>1 DEF Clears
<1>4. TypeOK'
  <2>1. branch' \in [Branch -> [base : Tree, tree : Tree, checked : BOOLEAN]]
    BY <1>2 DEF DraftsInv, TypeOK
  <2>2. cleared' \subseteq Slug \X Draft /\ blind' \subseteq Unseen
    BY <1>1, <1>3 DEF DraftsInv, TypeOK, Blind
  <2> QED BY <1>2, <2>1, <2>2 DEF DraftsInv, TypeOK
<1>5. ASSUME blind' = {} PROVE Cleared(branch[b].tree)'
  <2>1. blind = {} /\ Blind(b, k, failed) = {} /\ Cleared(main)
    BY <1>1, <1>5 DEF DraftsInv
  <2>2. branch'[b].tree = branch[b].tree
    BY <1>2 DEF DraftsInv, TypeOK
  <2>3. CASE k # None
    <3>1. resolved /\ ~failed /\ k \in Key /\ Clears(b) \subseteq cleared'
      BY <1>1, <2>3 DEF DraftsInv, TypeOK
    <3>2. Passes(b, k, p, TRUE, {})
      BY <1>1, <2>3 DEF Passes, IdentityGateScope
    <3>3. \A s \in Slug : branch[b].tree.drafts[s] # None =>
            <<s, branch[b].tree.drafts[s]>> \in cleared'
      BY <2>1, <2>3, <3>1, <3>2, KeyedCheckClears DEF DraftsInv
    <3> QED BY <2>2, <3>3 DEF Cleared
  <2>4. CASE k = None
    <3>1. \A s \in Slug : branch[b].tree.drafts[s] = main.drafts[s]
      BY <1>1, <2>1, <2>4, UnkeyedCheckSkips DEF DraftsInv
    <3> QED BY <1>3, <2>1, <2>2, <3>1 DEF Cleared
  <2> QED BY <2>3, <2>4
<1>6. ASSUME blind' = {} PROVE Cleared(main)' /\ \A c \in Branch : branch'[c].checked => Cleared(branch[c].tree)'
  <2>1. blind = {}
    BY <1>1, <1>6
  <2>2. Cleared(main)'
    BY <1>2, <1>3, <2>1 DEF DraftsInv, Cleared
  <2>3. ASSUME NEW c \in Branch \ {b}, branch'[c].checked PROVE Cleared(branch[c].tree)'
    <3>1. branch'[c] = branch[c]
      BY <1>2 DEF DraftsInv, TypeOK
    <3> QED BY <1>3, <2>1, <2>3, <3>1 DEF DraftsInv, Cleared
  <2> QED BY <1>5, <1>6, <2>2, <2>3
<1> QED BY <1>4, <1>6 DEF DraftsInv

\* A merge takes each draft from the main branch or from a tree that was checked.
LEMMA MergeKeeps == ASSUME DraftsInv, NEW b \in Branch, Merge(b) PROVE DraftsInv'
<1> DEFINE base == branch[b].base
           tree == branch[b].tree
<1>1. /\ branch[b].checked /\ UNCHANGED <<key, plain, edits, cleared, blind>>
      /\ main' = [hashes |-> MergeOf(base.hashes, main.hashes, tree.hashes),
                  drafts |-> [s \in Slug |-> MergeOf(base.drafts[s], main.drafts[s], tree.drafts[s])]]
      /\ branch' = [branch EXCEPT ![b] = [base |-> main', tree |-> main', checked |-> FALSE]]
  BY DEF Merge
<1>2. main \in Tree /\ tree \in Tree /\ branch \in [Branch -> [base : Tree, tree : Tree, checked : BOOLEAN]]
  BY DEF DraftsInv, TypeOK
<1>3. main' \in Tree
  <2>1. main'.hashes \in SUBSET (Key \X Token)
    BY <1>1, <1>2 DEF MergeOf, Tree
  <2>2. main'.drafts \in [Slug -> Draft \union {None}]
    BY <1>1, <1>2 DEF MergeOf, Tree
  <2> QED BY <1>1, <2>1, <2>2 DEF Tree
<1>4. /\ branch' \in [Branch -> [base : Tree, tree : Tree, checked : BOOLEAN]]
      /\ ~branch'[b].checked /\ \A c \in Branch \ {b} : branch'[c] = branch[c]
  BY <1>1, <1>2, <1>3
<1>5. TypeOK'
  BY <1>1, <1>3, <1>4 DEF DraftsInv, TypeOK
<1>6. ASSUME blind' = {} PROVE Cleared(main)'
  <2>1. Cleared(main) /\ Cleared(tree)
    BY <1>1, <1>6 DEF DraftsInv
  <2>2. \A s \in Slug : main'.drafts[s] \in {main.drafts[s], tree.drafts[s]}
    BY <1>1 DEF MergeOf
  <2> QED BY <1>1, <2>1, <2>2 DEF Cleared
<1>7. ASSUME blind' = {}, NEW c \in Branch, branch'[c].checked PROVE Cleared(branch[c].tree)'
  <2>1. branch'[c] = branch[c] /\ blind = {}
    BY <1>1, <1>4, <1>7
  <2> QED BY <1>1, <1>7, <2>1 DEF DraftsInv, Cleared
<1> QED BY <1>5, <1>6, <1>7 DEF DraftsInv

LEMMA DraftsStep == ASSUME DraftsInv, [Next]_vars PROVE DraftsInv'
<1>1. CASE UNCHANGED vars
  BY <1>1 DEF vars, DraftsInv, TypeOK, Cleared
<1>2. CASE Next
  BY <1>2, EnrollTokenKeeps, LoseFilesKeeps, GenerateHashesKeeps, EditByHandKeeps, CheckKeeps,
     MergeKeeps, StageKeeps, ReconcileKeeps DEF Next
<1> QED BY <1>1, <1>2

\* What a check has passed has been read by a check with the key, or is on the main
\* branch already.
THEOREM DraftsInductive == Spec => []DraftsInv
<1> QED BY DraftsInit, DraftsStep, PTL DEF Spec

\* Every variable of the drafts and their branches keeps its type.
THEOREM DraftsTypeCorrect == Spec => []TypeOK
<1>1. DraftsInv => TypeOK
  BY DEF DraftsInv
<1> QED BY <1>1, DraftsInductive, PTL

\* What is on the main branch was cleared by a keyed check, unless one was blind.
THEOREM MergedWasCleared == Spec => []OnlyClearedDraftsAreMerged
<1>1. DraftsInv => OnlyClearedDraftsAreMerged
  BY DEF DraftsInv, Cleared, OnlyClearedDraftsAreMerged
<1> QED BY <1>1, DraftsInductive, PTL

\* Staging and reconciling put a draft in the tree that the gate has accepted.
LEMMA PutDraftIsConsented ==
  ASSUME TypeOK, NEW b \in Branch, NEW s \in Slug, NEW draft, PutDraft(b, s, draft),
         Consented(draft.said, key, branch[b].tree.hashes), WellShaped(draft),
         key # None, UNCHANGED <<key, plain>>, Passes(b, key, plain, TRUE, {})
  PROVE  /\ WellFormed(branch'[b].tree.hashes)
         /\ Verified(branch'[b].tree, key', plain')
         /\ Validated(branch'[b].tree, key', "run-full")
<1> DEFINE tree == branch[b].tree
           after == [tree EXCEPT !.drafts[s] = draft]
<1>1. tree \in Tree /\ branch \in [Branch -> [base : Tree, tree : Tree, checked : BOOLEAN]]
  BY DEF TypeOK
<1>2. branch'[b].tree = after
  BY <1>1 DEF PutDraft, Put
<1>3. /\ after.hashes = tree.hashes /\ after.drafts[s] = draft
      /\ \A u \in Slug \ {s} : after.drafts[u] = tree.drafts[u]
  BY <1>1 DEF Tree
<1>4. WellFormed(tree.hashes) /\ Verified(tree, key, plain) /\ Validated(tree, key, "run-full")
  BY DEF Passes, IdentityGateScope
<1>5. WellFormed(after.hashes) /\ Verified(after, key, plain)
  BY <1>3, <1>4 DEF Verified
<1>6. Validated(after, key, "run-full")
  BY <1>3, <1>4 DEF Validated, Consented
<1> QED BY <1>2, <1>5, <1>6

\* Neither staging a draft nor reconciling it makes a branch fail that passed.
THEOREM ToolsKeepPassing == Spec => ToolsKeepTheCheck
<1> DEFINE Keeps(b) ==
      /\ \E s \in Slug : Stage(b, s) \/ Reconcile(b, s)
      /\ Passes(b, key, plain, TRUE, {})
      => LET after == branch'[b].tree
         IN WellFormed(after.hashes) /\ Verified(after, key', plain')
              /\ Validated(after, key', "run-full")
<1>1. ASSUME TypeOK, NEW b \in Branch PROVE Keeps(b)
  <2>1. ASSUME NEW s \in Slug, Stage(b, s), Passes(b, key, plain, TRUE, {}) PROVE Keeps(b)
    <3>1. PICK said \in Said :
            /\ Consented(said, key, branch[b].tree.hashes)
            /\ PutDraft(b, s, [said |-> said, published |-> FALSE, archiveUrl |-> FALSE, notice |-> TRUE])
      BY <2>1 DEF Stage
    <3>2. WellShaped([said |-> said, published |-> FALSE, archiveUrl |-> FALSE, notice |-> TRUE])
      BY DEF WellShaped
    <3>3. key # None /\ UNCHANGED <<key, plain>>
      BY <2>1 DEF Stage
    <3> QED BY <1>1, <2>1, <3>1, <3>2, <3>3, PutDraftIsConsented
  <2>2. ASSUME NEW s \in Slug, Reconcile(b, s), Passes(b, key, plain, TRUE, {}) PROVE Keeps(b)
    <3> DEFINE draft == branch[b].tree.drafts[s]
               posted == [draft EXCEPT !.published = TRUE, !.archiveUrl = TRUE, !.notice = FALSE]
    <3>1. draft \in Draft /\ Consented(draft.said, key, branch[b].tree.hashes) /\ PutDraft(b, s, posted)
      BY <1>1, <2>2 DEF Reconcile, Reconcilable, TypeOK, Tree
    <3>2. posted.said = draft.said /\ posted.published /\ posted.archiveUrl
      BY <3>1 DEF Draft
    <3>3. WellShaped(posted)
      BY <3>2 DEF WellShaped
    <3>4. key # None /\ UNCHANGED <<key, plain>>
      BY <2>2 DEF Reconcile
    <3> QED BY <1>1, <2>2, <3>1, <3>2, <3>3, <3>4, PutDraftIsConsented
  <2> QED BY <2>1, <2>2
<1>2. TypeOK /\ [Next]_vars => [\A b \in Branch : Keeps(b)]_vars
  BY <1>1
<1> QED BY <1>2, DraftsTypeCorrect, PTL DEF Spec, ToolsKeepTheCheck

-----------------------------------------------------------------------------
(* LeakScan: what a search finds.                                           *)

ProtectedValue == Seq(Char) \ {<<>>}

\* A search for one value finds matches in what is free, and one at every place where
\* the value stands, unless another match of it takes that place.
LEMMA StartsFound ==
  ASSUME NEW txt, NEW N \in Nat, DOMAIN txt = 1..N, Len(txt) = N, NEW value \in ProtectedValue, NEW free
  PROVE  /\ \A i \in Starts(txt, value, free) :
              i \in 1..N /\ StandsAt(txt, value, i) /\ Span(i, value) \subseteq free
         /\ \A i \in 1..N : StandsAt(txt, value, i) /\ Span(i, value) \subseteq free =>
              \E k \in Starts(txt, value, free) : i \in Span(k, value)
<1> DEFINE X == SUBSET (1..N)
           Matches(starts, i) == /\ StandsAt(txt, value, i)
                                 /\ Span(i, value) \subseteq free
                                 /\ \A k \in starts : i \notin Span(k, value)
           Then(starts, i) == IF Matches(starts, i) THEN starts \union {i} ELSE starts
           step == [p \in X \X (1..N) |-> Then(p[1], p[2])]
           From(f) == f = [i \in 0..N |-> IF i = 0 THEN {} ELSE Then(f[i - 1], i)]
           upTo == CHOOSE f : From(f)
<1>1. Starts(txt, value, free) = upTo[N]
  BY DEF Starts
<1>2. \A starts \in X : \A i \in 1..N : Then(starts, i) \in X /\ step[<<starts, i>>] = Then(starts, i)
  <2> HIDE DEF Matches
  <2> QED OBVIOUS
<1> HIDE DEF Then, step
<1>3. {} \in X
  OBVIOUS
<1> HIDE DEF X
<1>4. PICK f \in [0..N -> X] : f[0] = {} /\ \A i \in 1..N : f[i] = step[<<f[i - 1], i>>]
  <2>1. \A x \in X : \A i \in 1..N : step[<<x, i>>] \in X
    BY <1>2
  <2>2. PICK f \in [0..N -> X] : Recurs(f, N, {}, step)
    BY <1>3, <2>1, RecursionExists
  <2> QED BY <2>2 DEF Recurs
<1>5. From(f)
  <2>1. \A i \in 1..N : f[i] = Then(f[i - 1], i)
    <3>1. \A i \in 1..N : f[i - 1] \in X
      OBVIOUS
    <3> QED BY <1>2, <1>4, <3>1
  <2> QED BY <1>4, <2>1
<1>6. From(upTo)
  <2> HIDE DEF From
  <2> QED BY <1>5
<1> HIDE DEF upTo
<1>7. upTo[0] = {} /\ \A i \in 1..N : upTo[i] = Then(upTo[i - 1], i)
  <2>1. \A i \in 0..N : upTo[i] = IF i = 0 THEN {} ELSE Then(upTo[i - 1], i)
    BY <1>6
  <2> HIDE DEF From
  <2>2. \A i \in 1..N : i \in 0..N /\ i # 0
    OBVIOUS
  <2> QED BY <2>1, <2>2
<1> DEFINE Found(starts, n) ==
             /\ \A i \in starts : i \in 1..N /\ StandsAt(txt, value, i) /\ Span(i, value) \subseteq free
             /\ \A i \in 1..n : StandsAt(txt, value, i) /\ Span(i, value) \subseteq free =>
                  \E k \in starts : i \in Span(k, value)
           P == {n \in Nat : n <= N => Found(upTo[n], n)}
<1>8. 0 \in P
  BY <1>7
<1>9. ASSUME NEW n \in Nat, n \in P PROVE n + 1 \in P
  <2> SUFFICES ASSUME n + 1 <= N PROVE Found(upTo[n + 1], n + 1)
    <3> HIDE DEF Found
    <3> QED OBVIOUS
  <2>1. PICK i \in 1..N : i = n + 1 /\ i - 1 = n
    OBVIOUS
  <2>2. upTo[n + 1] = Then(upTo[n], n + 1)
    BY <1>7, <2>1
  <2>3. Found(upTo[n], n)
    <3>1. n <= N
      OBVIOUS
    <3> HIDE DEF Found
    <3> QED BY <1>9, <3>1
  <2>4. n + 1 \in Span(n + 1, value)
    <3>1. Len(value) \in Nat /\ Len(value) # 0
      BY DEF ProtectedValue
    <3> QED BY <3>1 DEF Span
  <2>5. \A j \in 1..n + 1 : j \in 1..n \/ j = n + 1
    OBVIOUS
  <2> DEFINE old == upTo[n]
             new == upTo[n + 1]
  <2> HIDE DEF old, new
  <2>6. CASE Matches(old, n + 1)
    <3>1. new = old \union {n + 1}
      BY <2>2, <2>6 DEF Then, old, new
    <3>2. Found(old, n)
      BY <2>3 DEF old
    <3> HIDE DEF P
    <3>3. Found(new, n + 1)
      BY <2>1, <2>4, <2>5, <2>6, <3>1, <3>2
    <3> QED BY <3>3 DEF new
  <2>7. CASE ~Matches(old, n + 1)
    <3>1. new = old
      BY <2>2, <2>7 DEF Then, old, new
    <3>2. Found(old, n)
      BY <2>3 DEF old
    <3> HIDE DEF P
    <3>3. Found(new, n + 1)
      BY <2>5, <2>7, <3>1, <3>2
    <3> QED BY <3>3 DEF new
  <2> QED BY <2>6, <2>7
<1>10. N \in P
  <2> HIDE DEF P
  <2> QED BY <1>8, <1>9, NatInductionOfSet
<1> QED BY <1>1, <1>10

\* After a pass for a value there is no match of it that can be read as a whole, and
\* nothing is read that could not be read before.
LEMMA RedactedHides ==
  ASSUME NEW txt, NEW N \in Nat, DOMAIN txt = 1..N, Len(txt) = N, NEW value \in ProtectedValue, NEW free
  PROVE  /\ Redacted(txt, value, free) \subseteq free
         /\ \A i \in 1..N : StandsAt(txt, value, i) => ~(Span(i, value) \subseteq Redacted(txt, value, free))
<1>1. \A i \in 1..N : i \in Span(i, value)
  <2>1. Len(value) \in Nat /\ Len(value) # 0
    BY DEF ProtectedValue
  <2> QED BY <2>1 DEF Span
<1>2. \A i \in 1..N : StandsAt(txt, value, i) /\ Span(i, value) \subseteq free =>
           \E k \in Starts(txt, value, free) : i \in Span(k, value)
  BY StartsFound
<1> QED BY <1>1, <1>2 DEF Redacted

-----------------------------------------------------------------------------
(* LeakScan: occurrences that are one within the other, or apart.           *)

\* Between them the values stand where protected values do, and nowhere else.
Covers(txt, values) ==
  /\ \A n \in DOMAIN values : values[n] \in ProtectedValue
  /\ \A n \in DOMAIN values : \A i \in DOMAIN txt : StandsAt(txt, values[n], i) =>
       \E o \in Occurrences(txt) : o[1] = i /\ Len(Value[o[2]]) = Len(values[n])
  /\ \A o \in Occurrences(txt) : \E n \in DOMAIN values :
       StandsAt(txt, values[n], o[1]) /\ Len(values[n]) = Len(Value[o[2]])

LEMMA LengthsOfValues == \A value \in ProtectedValue : Len(value) \in Nat \ {0}
BY DEF ProtectedValue

LEMMA OccurrencesLie ==
  ASSUME NEW txt, NEW N \in Nat, DOMAIN txt = 1..N, Len(txt) = N, NEW o \in Occurrences(txt)
  PROVE  /\ o[1] \in 1..N /\ Len(Value[o[2]]) \in Nat \ {0} /\ o[1] + Len(Value[o[2]]) - 1 <= N
         /\ Where(o) = o[1]..o[1] + Len(Value[o[2]]) - 1
<1>1. o[1] \in 1..N /\ o[2] \in DOMAIN Value /\ StandsAt(txt, Value[o[2]], o[1])
  BY DEF Occurrences
<1>2. Value[o[2]] \in ProtectedValue
  BY <1>1, LeakScanAssumption DEF ProtectedValue
<1> QED BY <1>1, <1>2, LengthsOfValues DEF StandsAt, Where, Span

\* Of two that overlap the longer has the other within it; if they are as long, they are one.
LEMMA OccurrencesNest ==
  ASSUME NEW txt, NEW N \in Nat, DOMAIN txt = 1..N, Len(txt) = N, ~Entangled(txt),
         NEW o \in Occurrences(txt), NEW p \in Occurrences(txt), Where(o) \intersect Where(p) # {}
  PROVE  /\ Where(o) \subseteq Where(p) \/ Where(p) \subseteq Where(o)
         /\ Len(Value[o[2]]) <= Len(Value[p[2]]) => Where(o) \subseteq Where(p)
         /\ Len(Value[o[2]]) = Len(Value[p[2]]) => o[1] = p[1]
<1>1. Where(o) \subseteq Where(p) \/ Where(p) \subseteq Where(o)
  BY DEF Entangled
<1> DEFINE a == o[1]
           b == p[1]
           k == Len(Value[o[2]])
           m == Len(Value[p[2]])
<1>2. /\ a \in Nat /\ b \in Nat /\ k \in Nat \ {0} /\ m \in Nat \ {0}
      /\ Where(o) = a..a + k - 1 /\ Where(p) = b..b + m - 1
  BY OccurrencesLie
<1> HIDE DEF a, b, k, m
<1> DEFINE O == Where(o)
           Q == Where(p)
<1> HIDE DEF O, Q
<1>3. O \subseteq Q => b <= a /\ a + k <= b + m
  <2>1. O = a..a + k - 1 /\ Q = b..b + m - 1
    BY <1>2 DEF O, Q
  <2>2. a \in O /\ a + k - 1 \in O
    BY <1>2, <2>1
  <2>3. O \subseteq Q => a \in b..b + m - 1 /\ a + k - 1 \in b..b + m - 1
    BY <2>1, <2>2
  <2> QED BY <1>2, <2>3
<1>4. Q \subseteq O => a <= b /\ b + m <= a + k
  <2>1. O = a..a + k - 1 /\ Q = b..b + m - 1
    BY <1>2 DEF O, Q
  <2>2. b \in Q /\ b + m - 1 \in Q
    BY <1>2, <2>1
  <2>3. Q \subseteq O => b \in a..a + k - 1 /\ b + m - 1 \in a..a + k - 1
    BY <2>1, <2>2
  <2> QED BY <1>2, <2>3
<1>5. k <= m => Where(o) \subseteq Where(p)
  <2>1. CASE Q \subseteq O /\ k <= m
    <3>1. a = b /\ k = m
      BY <1>2, <1>4, <2>1
    <3> QED BY <1>2, <3>1
  <2>2. CASE O \subseteq Q
    BY <2>2 DEF O, Q
  <2> QED BY <1>1, <2>1, <2>2 DEF O, Q
<1>6. k = m => a = b
  <2>1. O \subseteq Q \/ Q \subseteq O
    BY <1>1 DEF O, Q
  <2> QED BY <1>2, <1>3, <1>4, <2>1
<1> QED BY <1>1, <1>5, <1>6 DEF a, b, k, m

\* A value that stands somewhere is an occurrence there, and takes the same place.
LEMMA StandsWhere ==
  ASSUME NEW txt, NEW values, Covers(txt, values), NEW n \in DOMAIN values,
         NEW i \in DOMAIN txt, StandsAt(txt, values[n], i)
  PROVE  \E o \in Occurrences(txt) :
           o[1] = i /\ Len(Value[o[2]]) = Len(values[n]) /\ Where(o) = Span(i, values[n])
BY DEF Covers, Where, Span

\* Then a search finds every match.
LEMMA StartsAreAll ==
  ASSUME NEW txt, NEW N \in Nat, DOMAIN txt = 1..N, Len(txt) = N, ~Entangled(txt),
         NEW values, Covers(txt, values), NEW n \in DOMAIN values, NEW free,
         NEW i \in 1..N, StandsAt(txt, values[n], i), Span(i, values[n]) \subseteq free
  PROVE  i \in Starts(txt, values[n], free)
<1> DEFINE value == values[n]
<1>1. value \in ProtectedValue
  BY DEF Covers
<1> HIDE DEF value
<1>2. /\ StandsAt(txt, value, i) /\ Span(i, value) \subseteq free
      /\ \A k \in Starts(txt, value, free) : k \in 1..N /\ StandsAt(txt, value, k)
  BY <1>1, StartsFound DEF value
<1>3. PICK k \in Starts(txt, value, free) : i \in Span(k, value)
  BY <1>1, <1>2, StartsFound
<1>4. PICK o \in Occurrences(txt) :
        o[1] = i /\ Len(Value[o[2]]) = Len(value) /\ Where(o) = Span(i, value)
  BY <1>2, StandsWhere DEF value
<1>5. PICK p \in Occurrences(txt) :
        p[1] = k /\ Len(Value[p[2]]) = Len(value) /\ Where(p) = Span(k, value)
  BY <1>2, StandsWhere DEF value
<1>6. i \in Where(o)
  BY <1>4, OccurrencesLie
<1>7. o[1] = p[1]
  BY <1>3, <1>4, <1>5, <1>6, OccurrencesNest
<1> QED BY <1>3, <1>4, <1>5, <1>7 DEF value

-----------------------------------------------------------------------------
(* LeakScan: the window.                                                    *)

\* A window without gaps that contains the first one, and whole every occurrence that it
\* touches and the first one did not.
Reaches(txt, first, w) ==
  /\ first \subseteq w /\ w \subseteq DOMAIN txt
  /\ \A a, b \in w : \A k \in DOMAIN txt : a <= k /\ k <= b => k \in w
  /\ \A o \in Occurrences(txt) :
       Where(o) \intersect w # {} => Where(o) \intersect first # {} \/ Where(o) \subseteq w

\* It stays one when it is opened for an occurrence.
LEMMA HullReaches ==
  ASSUME NEW txt, NEW N \in Nat, DOMAIN txt = 1..N, Len(txt) = N, ~Entangled(txt),
         NEW first, NEW w, Reaches(txt, first, w),
         NEW p \in Occurrences(txt), Where(p) \intersect w # {}
  PROVE  Reaches(txt, first, Hull(txt, w \union Where(p))) /\ Hull(txt, w \union Where(p)) = w \union Where(p)
<1> DEFINE a == p[1]
           b == p[1] + Len(Value[p[2]]) - 1
           both == w \union Where(p)
<1>1. a \in 1..N /\ b \in 1..N /\ Where(p) = a..b
  BY OccurrencesLie
<1> HIDE DEF a, b
<1>2. both \subseteq 1..N
  BY <1>1 DEF Reaches
<1>3. PICK c \in w : a <= c /\ c <= b /\ c \in 1..N
  BY <1>1 DEF Reaches
<1>4. ASSUME NEW x \in both, NEW y \in both, NEW k \in 1..N, x <= k, k <= y PROVE k \in both
  <2>1. x \in 1..N /\ y \in 1..N
    BY <1>2
  <2>2. CASE x \in w /\ k <= c
    BY <1>3, <1>4, <2>2 DEF Reaches
  <2>3. CASE y \in w /\ c <= k
    BY <1>3, <1>4, <2>3 DEF Reaches
  <2>4. CASE x \in Where(p) /\ k <= c
    BY <1>1, <1>3, <1>4, <2>1, <2>4
  <2>5. CASE y \in Where(p) /\ c <= k
    BY <1>1, <1>3, <1>4, <2>1, <2>5
  <2> QED BY <1>3, <2>2, <2>3, <2>4, <2>5
<1>5. Hull(txt, both) = both
  <2>1. \A k \in both : k \in 1..N /\ k <= k
    BY <1>2
  <2> HIDE DEF both
  <2> QED BY <1>2, <1>4, <2>1 DEF Hull
<1>6. ASSUME NEW o \in Occurrences(txt), Where(o) \intersect both # {}
      PROVE  Where(o) \intersect first # {} \/ Where(o) \subseteq both
  <2>1. CASE Where(o) \intersect w # {}
    BY <2>1 DEF Reaches
  <2>2. CASE Where(o) \intersect w = {}
    <3>1. Where(o) \intersect Where(p) # {}
      BY <1>6, <2>2
    <3>2. Where(o) \subseteq Where(p) \/ Where(p) \subseteq Where(o)
      BY <3>1, OccurrencesNest
    <3> QED BY <2>2, <3>2
  <2> QED BY <2>1, <2>2
<1>7. first \subseteq both
  BY DEF Reaches
<1> HIDE DEF both
<1>8. Reaches(txt, first, both)
  BY <1>2, <1>4, <1>6, <1>7 DEF Reaches
<1> QED BY <1>5, <1>8 DEF both

\* A value opens the window for each of its matches that it touches.
LEMMA OpenedReaches ==
  ASSUME NEW txt, NEW N \in Nat, DOMAIN txt = 1..N, Len(txt) = N, ~Entangled(txt),
         NEW values, Covers(txt, values), NEW n \in DOMAIN values,
         NEW first, NEW w, Reaches(txt, first, w)
  PROVE  /\ Reaches(txt, first, Opened(txt, values[n], w)) /\ w \subseteq Opened(txt, values[n], w)
         /\ \A i \in 1..N : StandsAt(txt, values[n], i) /\ Span(i, values[n]) \intersect w # {} =>
              Span(i, values[n]) \subseteq Opened(txt, values[n], w)
<1> DEFINE value == values[n]
           starts == Starts(txt, value, DOMAIN txt)
           X == SUBSET (1..N)
           Then(v, i) == IF i \in starts /\ Span(i, value) \intersect v # {}
                         THEN Hull(txt, v \union Span(i, value)) ELSE v
           step == [p \in X \X (1..N) |-> Then(p[1], p[2])]
           From(f) == f = [i \in 0..N |-> IF i = 0 THEN w ELSE Then(f[i - 1], i)]
           upTo == CHOOSE f : From(f)
<1>1. Opened(txt, value, w) = upTo[N]
  BY DEF Opened
<1>2. \A v \in X : \A i \in 1..N : Then(v, i) \in X /\ step[<<v, i>>] = Then(v, i)
  <2>1. \A v \in X : \A i \in 1..N : Then(v, i) \in X
    BY DEF Hull
  <2> HIDE DEF Then, X
  <2> QED BY <2>1
<1>3. w \in X
  BY DEF Reaches
<1>4. \A i \in starts : i \in 1..N /\ StandsAt(txt, value, i)
  <2>1. value \in ProtectedValue
    BY DEF Covers
  <2> QED BY <2>1, StartsFound
<1>5. \A i \in 1..N : StandsAt(txt, value, i) => Span(i, value) \subseteq 1..N /\ i \in starts
  <2> SUFFICES ASSUME NEW i \in 1..N, StandsAt(txt, value, i)
               PROVE  Span(i, value) \subseteq 1..N /\ i \in starts
    OBVIOUS
  <2>1. PICK o \in Occurrences(txt) :
          o[1] = i /\ Len(Value[o[2]]) = Len(value) /\ Where(o) = Span(i, value)
    BY StandsWhere
  <2>2. Span(i, value) \subseteq 1..N
    BY <2>1, OccurrencesLie
  <2> QED BY <2>2, StartsAreAll
<1> HIDE DEF Then, step, X
<1>6. PICK f \in [0..N -> X] : Recurs(f, N, w, step)
  <2>1. \A x \in X : \A i \in 1..N : step[<<x, i>>] \in X
    BY <1>2
  <2> QED BY <1>3, <2>1, RecursionExists
<1>7. From(f)
  <2>1. \A i \in 1..N : f[i] = Then(f[i - 1], i)
    <3>1. \A i \in 1..N : f[i - 1] \in X
      OBVIOUS
    <3> QED BY <1>2, <1>6, <3>1 DEF Recurs
  <2> QED BY <1>6, <2>1 DEF Recurs
<1>8. From(upTo)
  <2> HIDE DEF From
  <2> QED BY <1>7
<1> HIDE DEF upTo
<1>9. upTo[0] = w /\ \A i \in 1..N : upTo[i] = Then(upTo[i - 1], i)
  <2>1. \A i \in 0..N : upTo[i] = IF i = 0 THEN w ELSE Then(upTo[i - 1], i)
    BY <1>8
  <2> HIDE DEF From
  <2>2. \A i \in 1..N : i \in 0..N /\ i # 0
    OBVIOUS
  <2> QED BY <2>1, <2>2
<1> HIDE DEF starts
<1> DEFINE Open(v, m) == /\ Reaches(txt, first, v) /\ w \subseteq v
                         /\ \A i \in 1..m : StandsAt(txt, value, i) /\ Span(i, value) \intersect w # {} =>
                              Span(i, value) \subseteq v
           P == {m \in Nat : m <= N => Open(upTo[m], m)}
<1>10. 0 \in P
  BY <1>9
<1>11. ASSUME NEW m \in Nat, m \in P PROVE m + 1 \in P
  <2> SUFFICES ASSUME m + 1 <= N PROVE Open(upTo[m + 1], m + 1)
    <3> HIDE DEF Open
    <3> QED OBVIOUS
  <2> DEFINE v == upTo[m]
  <2>1. PICK i \in 1..N : i = m + 1 /\ i - 1 = m
    OBVIOUS
  <2>2. upTo[m + 1] = Then(v, i)
    BY <1>9, <2>1
  <2>3. Open(v, m)
    <3>1. m <= N
      OBVIOUS
    <3> HIDE DEF Open
    <3> QED BY <1>11, <3>1
  <2>4. \A j \in 1..m + 1 : j \in 1..m \/ j = i
    BY <2>1
  <2> HIDE DEF v, value
  <2>5. CASE i \in starts /\ Span(i, value) \intersect v # {}
    <3>1. PICK o \in Occurrences(txt) : Where(o) = Span(i, value)
      BY <1>4, <2>5, StandsWhere DEF value
    <3>2. Then(v, i) = Hull(txt, v \union Span(i, value))
      BY <2>5 DEF Then
    <3>3. Reaches(txt, first, Then(v, i)) /\ Then(v, i) = v \union Span(i, value)
      BY <2>3, <2>5, <3>1, <3>2, HullReaches
    <3> DEFINE u == Then(v, i)
    <3> HIDE DEF u
    <3>4. Open(u, m + 1)
      <4>1. Reaches(txt, first, u) /\ u = v \union Span(i, value)
        BY <3>3 DEF u
      <4> HIDE DEF P
      <4> QED BY <2>3, <2>4, <4>1
    <3> HIDE DEF Open
    <3> QED BY <2>2, <3>4 DEF u
  <2>6. CASE ~(i \in starts /\ Span(i, value) \intersect v # {})
    <3>1. Then(v, i) = v
      BY <2>6 DEF Then
    <3>2. Open(v, m + 1)
      <4>1. StandsAt(txt, value, i) => Span(i, value) \intersect w = {}
        BY <1>5, <2>3, <2>6 DEF value
      <4> HIDE DEF P
      <4> QED BY <2>3, <2>4, <4>1
    <3> HIDE DEF Open
    <3> QED BY <2>2, <3>1, <3>2
  <2> QED BY <2>5, <2>6
<1>12. N \in P
  <2> HIDE DEF P
  <2> QED BY <1>10, <1>11, NatInductionOfSet
<1>13. Open(upTo[N], N)
  <2> HIDE DEF Open
  <2> QED BY <1>12
<1> QED BY <1>1, <1>13

\* The window that is printed from has whole every occurrence that it touches.
LEMMA ExpandedReaches ==
  ASSUME NEW txt, NEW N \in Nat, DOMAIN txt = 1..N, Len(txt) = N, ~Entangled(txt),
         NEW values, NEW K \in Nat, DOMAIN values = 1..K, Len(values) = K, Covers(txt, values),
         NEW first, Reaches(txt, first, first)
  PROVE  \A o \in Occurrences(txt) :
           Where(o) \intersect Expanded(txt, values, first) # {} => Where(o) \subseteq Expanded(txt, values, first)
<1> DEFINE X == SUBSET (1..N)
           Then(w, n) == Opened(txt, values[n], w)
           Inside(w) == Reaches(txt, first, w)
           Y == {w \in X : Inside(w)}
           step == [p \in Y \X (1..K) |-> Then(p[1], p[2])]
           From(f) == f = [n \in 0..K |-> IF n = 0 THEN first ELSE Then(f[n - 1], n)]
           after == CHOOSE f : From(f)
<1>1. Expanded(txt, values, first) = after[K]
  BY DEF Expanded
<1>2. \A w \in Y : \A n \in 1..K :
        /\ Then(w, n) \in Y /\ step[<<w, n>>] = Then(w, n) /\ w \subseteq Then(w, n)
        /\ \A i \in 1..N : StandsAt(txt, values[n], i) /\ Span(i, values[n]) \intersect w # {} =>
              Span(i, values[n]) \subseteq Then(w, n)
  <2> SUFFICES ASSUME NEW w \in Y, NEW n \in 1..K
               PROVE  /\ Then(w, n) \in Y /\ w \subseteq Then(w, n)
                      /\ \A i \in 1..N : StandsAt(txt, values[n], i) /\ Span(i, values[n]) \intersect w # {} =>
                            Span(i, values[n]) \subseteq Then(w, n)
    <3> HIDE DEF Then, Y
    <3> QED OBVIOUS
  <2>1. /\ Reaches(txt, first, Then(w, n)) /\ w \subseteq Then(w, n)
        /\ \A i \in 1..N : StandsAt(txt, values[n], i) /\ Span(i, values[n]) \intersect w # {} =>
              Span(i, values[n]) \subseteq Then(w, n)
    BY OpenedReaches
  <2>2. Then(w, n) \in X
    BY <2>1 DEF Reaches
  <2> QED BY <2>1, <2>2
<1>3. first \in Y
  BY DEF Reaches
<1>4. \A w \in Y : Reaches(txt, first, w)
  OBVIOUS
<1> HIDE DEF Then, step, X, Y
<1>5. PICK f \in [0..K -> Y] : Recurs(f, K, first, step)
  <2>1. \A x \in Y : \A n \in 1..K : step[<<x, n>>] \in Y
    BY <1>2
  <2> QED BY <1>3, <2>1, RecursionExists
<1>6. From(f)
  <2>1. \A n \in 1..K : f[n] = Then(f[n - 1], n)
    <3>1. \A n \in 1..K : f[n - 1] \in Y
      OBVIOUS
    <3> QED BY <1>2, <1>5, <3>1 DEF Recurs
  <2> QED BY <1>5, <2>1 DEF Recurs
<1>7. From(after)
  <2> HIDE DEF From
  <2> QED BY <1>6
<1> HIDE DEF after
<1>8. after[0] = first /\ \A n \in 1..K : after[n] = Then(after[n - 1], n)
  <2>1. \A n \in 0..K : after[n] = IF n = 0 THEN first ELSE Then(after[n - 1], n)
    BY <1>7
  <2> HIDE DEF From
  <2>2. \A n \in 1..K : n \in 0..K /\ n # 0
    OBVIOUS
  <2> QED BY <2>1, <2>2
<1> DEFINE Open(w, m) == /\ w \in Y
                         /\ \A n \in 1..m : \A i \in 1..N :
                              StandsAt(txt, values[n], i) /\ Span(i, values[n]) \intersect first # {} =>
                                Span(i, values[n]) \subseteq w
           P == {m \in Nat : m <= K => Open(after[m], m)}
<1>9. 0 \in P
  BY <1>3, <1>8
<1>10. ASSUME NEW m \in Nat, m \in P PROVE m + 1 \in P
  <2> SUFFICES ASSUME m + 1 <= K PROVE Open(after[m + 1], m + 1)
    <3> HIDE DEF Open
    <3> QED OBVIOUS
  <2> DEFINE w == after[m]
  <2>1. PICK k \in 1..K : k = m + 1 /\ k - 1 = m
    OBVIOUS
  <2>2. after[m + 1] = Then(w, k)
    BY <1>8, <2>1
  <2>3. Open(w, m)
    <3>1. m <= K
      OBVIOUS
    <3> HIDE DEF Open
    <3> QED BY <1>10, <3>1
  <2>4. \A j \in 1..m + 1 : j \in 1..m \/ j = k
    BY <2>1
  <2> DEFINE v == Then(w, k)
  <2> HIDE DEF w
  <2>5. first \subseteq w
    BY <1>4, <2>3 DEF Reaches
  <2>6. /\ v \in Y /\ w \subseteq v
        /\ \A i \in 1..N : StandsAt(txt, values[k], i) /\ Span(i, values[k]) \intersect w # {} =>
              Span(i, values[k]) \subseteq v
    BY <1>2, <2>3
  <2> HIDE DEF v
  <2>7. Open(v, m + 1)
    <3> HIDE DEF P
    <3> QED BY <2>3, <2>4, <2>5, <2>6
  <2> HIDE DEF Open
  <2> QED BY <2>2, <2>7 DEF v
<1>11. K \in P
  <2> HIDE DEF P
  <2> QED BY <1>9, <1>10, NatInductionOfSet
<1> DEFINE E == after[K]
<1>12. Open(E, K)
  <2> HIDE DEF Open
  <2> QED BY <1>11
<1> HIDE DEF E
<1>13. ASSUME NEW o \in Occurrences(txt), Where(o) \intersect E # {} PROVE Where(o) \subseteq E
  <2>1. CASE Where(o) \subseteq E
    BY <2>1
  <2>2. CASE Where(o) \intersect first # {}
    <3>1. PICK n \in 1..K : StandsAt(txt, values[n], o[1]) /\ Len(values[n]) = Len(Value[o[2]])
      BY DEF Covers
    <3>2. Where(o) = Span(o[1], values[n]) /\ o[1] \in 1..N
      BY <3>1, OccurrencesLie DEF Span
    <3> QED BY <1>12, <2>2, <3>1, <3>2
  <2> QED BY <1>4, <1>12, <1>13, <2>1, <2>2 DEF Reaches
<1> QED BY <1>1, <1>13 DEF E

-----------------------------------------------------------------------------
(* LeakScan: what can be read after all passes.                             *)

\* The first is the longest.
Descending(values) ==
  \A m, n \in DOMAIN values : m < n => Len(values[n]) <= Len(values[m])

\* f is what can be read after each of K passes.
ReadableSteps(txt, values, K, window, f) ==
  /\ f[0] = window /\ Readable(txt, values, window) = f[K]
  /\ \A n \in 1..K : f[n] = Redacted(txt, values[n], f[n - 1])
  /\ \A n \in 0..K : f[K] \subseteq f[n]

\* The passes take away, one after the other.
LEMMA ReadablePasses ==
  ASSUME NEW txt, NEW values, NEW K \in Nat, DOMAIN values = 1..K, Len(values) = K, NEW window
  PROVE  \E f \in [0..K -> SUBSET window] : ReadableSteps(txt, values, K, window, f)
<1> DEFINE X == SUBSET window
           Then(free, n) == Redacted(txt, values[n], free)
           step == [p \in X \X (1..K) |-> Then(p[1], p[2])]
           From(f) == f = [n \in 0..K |-> IF n = 0 THEN window ELSE Then(f[n - 1], n)]
           after == CHOOSE f : From(f)
<1>1. Readable(txt, values, window) = after[K]
  BY DEF Readable
<1>2. \A free \in X : \A n \in 1..K : Then(free, n) \in X /\ step[<<free, n>>] = Then(free, n)
  BY DEF Redacted
<1>16. \A free \in X : \A n \in 1..K : Then(free, n) \subseteq free
  BY DEF Redacted
<1>3. window \in X
  OBVIOUS
<1> HIDE DEF Then, step, X
<1>4. PICK f \in [0..K -> X] : Recurs(f, K, window, step)
  <2>1. \A x \in X : \A n \in 1..K : step[<<x, n>>] \in X
    BY <1>2
  <2> QED BY <1>3, <2>1, RecursionExists
<1>5. \A n \in 1..K : f[n] = Then(f[n - 1], n)
  <2>1. \A n \in 1..K : f[n - 1] \in X
    OBVIOUS
  <2> QED BY <1>2, <1>4, <2>1 DEF Recurs
<1>6. From(f)
  BY <1>4, <1>5 DEF Recurs
<1>7. From(after)
  <2> HIDE DEF From
  <2> QED BY <1>6
<1> HIDE DEF after
<1>8. \A n \in 0..K : after[n] = IF n = 0 THEN window ELSE Then(after[n - 1], n)
  BY <1>7
<1>9. DOMAIN after = 0..K
  BY <1>7
<1> DEFINE P == {n \in Nat : n <= K => after[n] \in X /\ \A m \in 0..n : after[n] \subseteq after[m]}
<1> HIDE DEF From
<1>10. 0 \in P
  BY <1>3, <1>8
<1>11. ASSUME NEW n \in Nat, n \in P PROVE n + 1 \in P
  <2> SUFFICES ASSUME n + 1 <= K
               PROVE  after[n + 1] \in X /\ \A m \in 0..n + 1 : after[n + 1] \subseteq after[m]
    OBVIOUS
  <2>1. PICK k \in 1..K : k = n + 1 /\ k # 0 /\ k - 1 = n /\ k \in 0..K
    OBVIOUS
  <2>2. after[k] = Then(after[n], k)
    BY <1>8, <2>1
  <2>3. after[n] \in X /\ \A m \in 0..n : after[n] \subseteq after[m]
    BY <1>11, <2>1
  <2> DEFINE free == after[n]
             left == after[k]
  <2> HIDE DEF free, left, P
  <2>4. left \in X /\ left \subseteq free
    <3>1. free \in X /\ left = Then(free, k)
      BY <2>2, <2>3 DEF free, left
    <3> QED BY <1>2, <1>16, <3>1
  <2>6. after[n + 1] = left
    BY <2>1 DEF left
  <2>7. \A m \in 0..n : free \subseteq after[m]
    BY <2>3 DEF free
  <2>5. \A m \in 0..n + 1 : m \in 0..n \/ m = k
    BY <2>1
  <2>8. ASSUME NEW m \in 0..n + 1 PROVE left \subseteq after[m]
    BY <2>4, <2>5, <2>7, <2>8 DEF left
  <2> QED BY <2>4, <2>6, <2>8
<1>12. \A n \in Nat : n \in P
  <2> HIDE DEF P
  <2> QED BY <1>10, <1>11, NatInductionOfSet
<1>13. after \in [0..K -> X]
  <2>1. \A n \in 0..K : after[n] \in X
    BY <1>12
  <2>2. after = [n \in 0..K |-> after[n]]
    BY <1>7 DEF From
  <2> QED BY <2>1, <2>2
<1>14. after[0] = window /\ \A n \in 1..K : after[n] = Then(after[n - 1], n)
  <2>1. \A n \in 1..K : n \in 0..K /\ n # 0
    OBVIOUS
  <2> QED BY <1>8, <2>1
<1>15. \A n \in 0..K : after[K] \subseteq after[n]
  BY <1>12
<1> QED BY <1>1, <1>13, <1>14, <1>15 DEF ReadableSteps, Then, X

\* No occurrence can be read as a whole.
LEMMA NothingIsReadWhole ==
  ASSUME NEW txt, NEW N \in Nat, DOMAIN txt = 1..N, Len(txt) = N,
         NEW values, NEW K \in Nat, DOMAIN values = 1..K, Len(values) = K, Covers(txt, values),
         NEW window, NEW o \in Occurrences(txt)
  PROVE  ~(Where(o) \subseteq Readable(txt, values, window))
<1>1. PICK f \in [0..K -> SUBSET window] : ReadableSteps(txt, values, K, window, f)
  BY ReadablePasses
<1>11. /\ f[0] = window /\ Readable(txt, values, window) = f[K]
       /\ \A n \in 1..K : f[n] = Redacted(txt, values[n], f[n - 1])
       /\ \A n \in 0..K : f[K] \subseteq f[n]
  BY <1>1 DEF ReadableSteps
<1>2. PICK n \in 1..K : StandsAt(txt, values[n], o[1]) /\ Len(values[n]) = Len(Value[o[2]])
  BY DEF Covers
<1>3. Where(o) = Span(o[1], values[n]) /\ o[1] \in 1..N
  BY <1>2, OccurrencesLie DEF Span
<1>4. values[n] \in ProtectedValue
  BY DEF Covers
<1>5. ~(Span(o[1], values[n]) \subseteq Redacted(txt, values[n], f[n - 1]))
  BY <1>2, <1>3, <1>4, RedactedHides
<1>6. f[n] = Redacted(txt, values[n], f[n - 1]) /\ f[K] \subseteq f[n]
  BY <1>11
<1> QED BY <1>11, <1>3, <1>5, <1>6

\* A pass leaves each occurrence that is not longer than its value whole, or nothing of it.
LEMMA RedactedWhole ==
  ASSUME NEW txt, NEW N \in Nat, DOMAIN txt = 1..N, Len(txt) = N, ~Entangled(txt),
         NEW values, Covers(txt, values), NEW n \in DOMAIN values, NEW free,
         NEW o \in Occurrences(txt), Len(Value[o[2]]) <= Len(values[n]),
         Where(o) \subseteq free \/ Where(o) \intersect free = {}
  PROVE  \/ Where(o) \subseteq Redacted(txt, values[n], free)
         \/ Where(o) \intersect Redacted(txt, values[n], free) = {}
<1> DEFINE value == values[n]
           R == Redacted(txt, value, free)
           Cut(k) == Span(k, value)
<1>1. R = free \ UNION {Cut(k) : k \in Starts(txt, value, free)}
  BY DEF Redacted
<1>2. \A k \in Starts(txt, value, free) : k \in 1..N /\ StandsAt(txt, value, k)
  <2>1. value \in ProtectedValue
    BY DEF Covers
  <2> QED BY <2>1, StartsFound
<1>3. ASSUME NEW k \in Starts(txt, value, free), Where(o) \intersect Cut(k) # {}
      PROVE  Where(o) \subseteq Cut(k)
  <2>1. PICK p \in Occurrences(txt) :
          p[1] = k /\ Len(Value[p[2]]) = Len(value) /\ Where(p) = Cut(k)
    BY <1>2, StandsWhere
  <2> QED BY <1>3, <2>1, OccurrencesNest
<1> HIDE DEF R, Cut, value
<1>4. CASE \E k \in Starts(txt, value, free) : Where(o) \intersect Cut(k) # {}
  BY <1>1, <1>3, <1>4 DEF R, value
<1>5. CASE ~\E k \in Starts(txt, value, free) : Where(o) \intersect Cut(k) # {}
  BY <1>1, <1>5 DEF R, value
<1> QED BY <1>4, <1>5

\* Longest first, nothing of any occurrence can be read.
LEMMA NothingIsRead ==
  ASSUME NEW txt, NEW N \in Nat, DOMAIN txt = 1..N, Len(txt) = N, ~Entangled(txt),
         NEW values, NEW K \in Nat, DOMAIN values = 1..K, Len(values) = K, Covers(txt, values),
         Descending(values),
         NEW window,
         \A o \in Occurrences(txt) : Where(o) \intersect window # {} => Where(o) \subseteq window,
         NEW o \in Occurrences(txt)
  PROVE  Where(o) \intersect Readable(txt, values, window) = {}
<1>1. PICK f \in [0..K -> SUBSET window] : ReadableSteps(txt, values, K, window, f)
  BY ReadablePasses
<1>11. /\ f[0] = window /\ Readable(txt, values, window) = f[K]
       /\ \A n \in 1..K : f[n] = Redacted(txt, values[n], f[n - 1])
       /\ \A n \in 0..K : f[K] \subseteq f[n]
  BY <1>1 DEF ReadableSteps
<1>2. \A n \in 1..K : values[n] \in ProtectedValue /\ Len(values[n]) \in Nat
  BY LengthsOfValues DEF Covers
<1> DEFINE Whole(s, n) == \A p \in Occurrences(txt) :
             (\A m \in 1..n : Len(Value[p[2]]) <= Len(values[m])) =>
               Where(p) \subseteq s \/ Where(p) \intersect s = {}
           P == {n \in Nat : n <= K => Whole(f[n], n)}
<1>3. 0 \in P
  BY <1>11
<1>4. ASSUME NEW n \in Nat, n \in P PROVE n + 1 \in P
  <2> SUFFICES ASSUME n + 1 <= K PROVE Whole(f[n + 1], n + 1)
    <3> HIDE DEF Whole
    <3> QED OBVIOUS
  <2>1. PICK k \in 1..K : k = n + 1 /\ k - 1 = n
    OBVIOUS
  <2>2. Whole(f[n], n)
    <3>1. n <= K
      OBVIOUS
    <3> HIDE DEF Whole
    <3> QED BY <1>4, <3>1
  <2> SUFFICES ASSUME NEW p \in Occurrences(txt), \A m \in 1..n + 1 : Len(Value[p[2]]) <= Len(values[m])
               PROVE  Where(p) \subseteq f[n + 1] \/ Where(p) \intersect f[n + 1] = {}
    OBVIOUS
  <2>3. Where(p) \subseteq f[n] \/ Where(p) \intersect f[n] = {}
    <3>1. \A m \in 1..n : m \in 1..n + 1
      OBVIOUS
    <3> QED BY <2>2, <3>1
  <2>4. f[n + 1] = Redacted(txt, values[k], f[n]) /\ Len(Value[p[2]]) <= Len(values[k])
    BY <1>11, <2>1
  <2>5. \/ Where(p) \subseteq Redacted(txt, values[k], f[n])
        \/ Where(p) \intersect Redacted(txt, values[k], f[n]) = {}
    BY <2>3, <2>4, RedactedWhole
  <2> QED BY <2>4, <2>5
<1>5. \A n \in Nat : n \in P
  <2> HIDE DEF P
  <2> QED BY <1>3, <1>4, NatInductionOfSet
<1>6. PICK n \in 1..K : StandsAt(txt, values[n], o[1]) /\ Len(values[n]) = Len(Value[o[2]])
  BY DEF Covers
<1>7. Where(o) = Span(o[1], values[n]) /\ o[1] \in 1..N
  BY <1>6, OccurrencesLie DEF Span
<1>8. Where(o) \subseteq f[n] \/ Where(o) \intersect f[n] = {}
  <2>1. Whole(f[n], n)
    <3> HIDE DEF Whole
    <3> QED BY <1>5
  <2>2. \A m \in 1..n : Len(values[n]) <= Len(values[m])
    <3> SUFFICES ASSUME NEW m \in 1..n PROVE Len(values[n]) <= Len(values[m])
      OBVIOUS
    <3>1. m \in 1..K /\ (m < n \/ m = n)
      OBVIOUS
    <3>2. m < n => Len(values[n]) <= Len(values[m])
      BY <3>1 DEF Descending
    <3>3. Len(values[n]) \in Nat
      BY <1>2
    <3> QED BY <3>1, <3>2, <3>3
  <2> QED BY <1>6, <2>1, <2>2
<1>9. f[n] = Redacted(txt, values[n], f[n - 1]) /\ f[K] \subseteq f[n]
  BY <1>11
<1>10. ~(Where(o) \subseteq f[n])
  BY <1>2, <1>6, <1>7, <1>9, RedactedHides
<1> QED BY <1>11, <1>8, <1>9, <1>10

-----------------------------------------------------------------------------
(* LeakScan: the values that an excerpt is redacted for.                    *)

\* In one case they are the same: they are as long, and stand at the same places.
LEMMA SameInOneCase ==
  ASSUME NEW txt, NEW x \in ProtectedValue, NEW y \in ProtectedValue, LowerCase(x) = LowerCase(y)
  PROVE  Len(x) = Len(y) /\ \A i : StandsAt(txt, x, i) => StandsAt(txt, y, i)
<1>1. /\ DOMAIN x = 1..Len(x) /\ DOMAIN y = 1..Len(y) /\ Len(x) \in Nat /\ Len(y) \in Nat
  BY DEF ProtectedValue
<1>2. DOMAIN x = DOMAIN y
  <2>1. DOMAIN LowerCase(x) = DOMAIN x /\ DOMAIN LowerCase(y) = DOMAIN y
    BY DEF LowerCase
  <2> QED BY <2>1
<1>3. Len(x) = Len(y)
  <2>1. Len(x) \in Nat \ {0} /\ Len(y) \in Nat \ {0}
    BY LengthsOfValues
  <2>2. Len(x) \in DOMAIN x /\ Len(y) \in DOMAIN y
    BY <1>1, <2>1
  <2>3. Len(x) \in 1..Len(y) /\ Len(y) \in 1..Len(x)
    BY <1>1, <1>2, <2>2
  <2> QED BY <2>1, <2>3
<1>4. ASSUME NEW n \in DOMAIN y PROVE Lower(x[n]) = Lower(y[n])
  <2>1. LowerCase(x)[n] = Lower(x[n]) /\ LowerCase(y)[n] = Lower(y[n])
    BY <1>2 DEF LowerCase
  <2> QED BY <2>1
<1> QED BY <1>2, <1>3, <1>4 DEF StandsAt

\* A match is a spelling of the value that was looked for.
LEMMA RawSpells ==
  ASSUME NEW txt \in Seq(Char), NEW entry \in Raw(txt)
  PROVE  /\ entry.value \in ProtectedValue /\ entry.index \in 1..Len(txt)
         /\ \E v \in DOMAIN Value : LowerCase(entry.value) = LowerCase(Value[v])
<1>1. PICK v \in DOMAIN Value : \E i \in Starts(txt, Value[v], DOMAIN txt) :
        entry = [index |-> i, value |-> SubSeq(txt, i, i + Len(Value[v]) - 1)]
  BY DEF Raw
<1>2. PICK i \in Starts(txt, Value[v], DOMAIN txt) :
        entry = [index |-> i, value |-> SubSeq(txt, i, i + Len(Value[v]) - 1)]
  BY <1>1
<1>3. Value[v] \in ProtectedValue
  BY LeakScanAssumption DEF ProtectedValue
<1>4. DOMAIN txt = 1..Len(txt) /\ Len(txt) \in Nat
  OBVIOUS
<1>5. i \in 1..Len(txt) /\ StandsAt(txt, Value[v], i)
  BY <1>3, <1>4, StartsFound
<1> DEFINE k == Len(Value[v])
           s == SubSeq(txt, i, i + k - 1)
<1>6. k \in Nat \ {0} /\ DOMAIN Value[v] = 1..k
  BY <1>3 DEF ProtectedValue
<1>7. i + k - 1 <= Len(txt)
  BY <1>5 DEF StandsAt
<1> HIDE DEF k
<1>8. /\ s \in Seq(Char) /\ Len(s) = k /\ DOMAIN s = 1..k
      /\ \A n \in 1..k : s[n] = txt[i + n - 1]
  <2>1. \A j \in i..i + k - 1 : j \in 1..Len(txt)
    BY <1>5, <1>6, <1>7
  <2>2. s \in Seq(Char)
    BY <1>5, <1>6, <1>7, SubSeqProperties
  <2>3. Len(s) = k /\ \A n \in 1..k : s[n] = txt[i + n - 1]
    BY <1>4, <1>5, <1>6, <1>7, SubSeqProperties
  <2> HIDE DEF s
  <2> QED BY <2>2, <2>3
<1>9. s \in ProtectedValue
  <2> HIDE DEF s
  <2> QED BY <1>6, <1>8 DEF ProtectedValue
<1>10. entry.value = s /\ entry.index = i
  BY <1>2 DEF k
<1> HIDE DEF s
<1>11. \A n \in 1..k : Lower(s[n]) = Lower(Value[v][n])
  <2>1. \A n \in 1..k : Lower(txt[i + n - 1]) = Lower(Value[v][n])
    BY <1>5, <1>6 DEF StandsAt
  <2> QED BY <1>8, <2>1
<1>12. LowerCase(s) = LowerCase(Value[v])
  BY <1>6, <1>8, <1>11 DEF LowerCase
<1> QED BY <1>5, <1>9, <1>10, <1>12

\* Between them they stand where protected values do, and nowhere else.
LEMMA ProtectedValuesCover ==
  ASSUME NEW txt \in Seq(Char), NEW entry \in Raw(txt)
  PROVE  ProtectedValues(txt, entry) \in Seq(ProtectedValue) /\ Covers(txt, ProtectedValues(txt, entry))
<1> DEFINE values == ProtectedValues(txt, entry)
           P == {v \in DOMAIN Value : /\ Starts(txt, Value[v], DOMAIN txt) # {}
                                      /\ LowerCase(Value[v]) # LowerCase(entry.value)}
           others == Selected(Value, P)
           M == Len(Value)
<1>1. DOMAIN txt = 1..Len(txt) /\ Len(txt) \in Nat
  OBVIOUS
<1>2. M \in Nat /\ DOMAIN Value = 1..M /\ \A v \in 1..M : Value[v] \in ProtectedValue
  BY LeakScanAssumption DEF ProtectedValue
<1>3. /\ entry.value \in ProtectedValue
      /\ \E v \in DOMAIN Value : LowerCase(entry.value) = LowerCase(Value[v])
  BY RawSpells
<1> HIDE DEF M
<1>4. P \in SUBSET (1..M)
  BY <1>2
<1>5. values = <<entry.value>> \o others
  BY DEF ProtectedValues
<1>6. \A v \in DOMAIN Value : v \in P <=> /\ Starts(txt, Value[v], DOMAIN txt) # {}
                                         /\ LowerCase(Value[v]) # LowerCase(entry.value)
  OBVIOUS
<1> HIDE DEF P, values, others
<1>7. PICK k \in Nat : \E order \in [1..k -> P] :
        ListsOnce(order, k, P) /\ Selected(Value, P) = [n \in 1..k |-> Value[order[n]]]
  BY <1>2, <1>4, SelectedLists
<1>8. PICK order \in [1..k -> P] :
        ListsOnce(order, k, P) /\ Selected(Value, P) = [n \in 1..k |-> Value[order[n]]]
  BY <1>7
<1>9. others \in Seq(ProtectedValue) /\ Len(others) = k /\ \A n \in 1..k : others[n] = Value[order[n]]
  <2>1. others = [n \in 1..k |-> Value[order[n]]]
    BY <1>8 DEF others
  <2>2. \A n \in 1..k : Value[order[n]] \in ProtectedValue
    BY <1>2, <1>4, <1>8
  <2> QED BY <2>1, <2>2
<1>10. /\ values \in Seq(ProtectedValue) /\ DOMAIN values = 1..k + 1
       /\ values[1] = entry.value /\ \A n \in 2..k + 1 : values[n] = Value[order[n - 1]]
  <2>1. <<entry.value>> \in Seq(ProtectedValue) /\ Len(<<entry.value>>) = 1 /\ <<entry.value>>[1] = entry.value
    BY <1>3
  <2> DEFINE e == <<entry.value>>
  <2> HIDE DEF e
  <2>2. /\ e \o others \in Seq(ProtectedValue) /\ Len(e \o others) = 1 + k
        /\ (e \o others)[1] = e[1]
        /\ \A n \in 2..k + 1 : (e \o others)[n] = others[n - 1]
    BY <1>9, <2>1 DEF e
  <2>3. \A n \in 2..k + 1 : n - 1 \in 1..k
    OBVIOUS
  <2> QED BY <1>5, <1>9, <2>1, <2>2, <2>3 DEF e
<1>11. \A n \in DOMAIN values : values[n] \in ProtectedValue
  BY <1>10
<1>12. ASSUME NEW n \in DOMAIN values, NEW i \in DOMAIN txt, StandsAt(txt, values[n], i)
       PROVE  \E o \in Occurrences(txt) : o[1] = i /\ Len(Value[o[2]]) = Len(values[n])
  <2>1. \E v \in DOMAIN Value : StandsAt(txt, Value[v], i) /\ Len(Value[v]) = Len(values[n])
    <3>1. CASE n = 1
      <4>1. PICK v \in DOMAIN Value : LowerCase(entry.value) = LowerCase(Value[v])
        BY <1>3
      <4>2. Len(entry.value) = Len(Value[v]) /\ StandsAt(txt, Value[v], i)
        BY <1>2, <1>3, <1>10, <1>12, <3>1, <4>1, SameInOneCase
      <4> QED BY <1>10, <3>1, <4>2
    <3>2. CASE n \in 2..k + 1
      <4>1. values[n] = Value[order[n - 1]] /\ order[n - 1] \in P
        BY <1>10, <3>2
      <4> QED BY <1>2, <1>4, <1>12, <4>1
    <3>3. n = 1 \/ n \in 2..k + 1
      BY <1>10
    <3> QED BY <3>1, <3>2, <3>3
  <2>2. PICK v \in DOMAIN Value : StandsAt(txt, Value[v], i) /\ Len(Value[v]) = Len(values[n])
    BY <2>1
  <2>3. <<i, v>> \in Occurrences(txt)
    BY <2>2 DEF Occurrences
  <2> QED BY <2>2, <2>3
<1>13. ASSUME NEW o \in Occurrences(txt)
       PROVE  \E n \in DOMAIN values : StandsAt(txt, values[n], o[1]) /\ Len(values[n]) = Len(Value[o[2]])
  <2> DEFINE u == o[2]
  <2>1. u \in DOMAIN Value /\ StandsAt(txt, Value[u], o[1]) /\ Value[u] \in ProtectedValue
    BY <1>2 DEF Occurrences
  <2>2. CASE LowerCase(Value[u]) = LowerCase(entry.value)
    <3>1. Len(Value[u]) = Len(entry.value) /\ StandsAt(txt, entry.value, o[1])
      BY <1>3, <2>1, <2>2, SameInOneCase
    <3>2. 1 \in DOMAIN values
      BY <1>10
    <3> QED BY <1>10, <3>1, <3>2
  <2>3. CASE LowerCase(Value[u]) # LowerCase(entry.value)
    <3>1. o[1] \in 1..Len(txt) /\ Where(o) \subseteq 1..Len(txt)
      <4> DEFINE m == Len(Value[o[2]])
      <4>1. /\ o[1] \in 1..Len(txt) /\ m \in Nat \ {0} /\ o[1] + m - 1 <= Len(txt)
            /\ Where(o) = o[1]..o[1] + m - 1
        BY <1>1, OccurrencesLie
      <4> HIDE DEF m
      <4> QED BY <1>1, <4>1
    <3>2. Span(o[1], Value[u]) \subseteq DOMAIN txt
      BY <1>1, <3>1 DEF Where
    <3>3. Starts(txt, Value[u], DOMAIN txt) # {}
      <4>1. \A i \in 1..Len(txt) : StandsAt(txt, Value[u], i) /\ Span(i, Value[u]) \subseteq DOMAIN txt =>
              \E n \in Starts(txt, Value[u], DOMAIN txt) : i \in Span(n, Value[u])
        <5> DEFINE x == Value[u]
                   free == DOMAIN txt
                   N == Len(txt)
        <5>1. N \in Nat /\ DOMAIN txt = 1..N /\ Len(txt) = N /\ x \in ProtectedValue
          BY <1>1, <2>1
        <5> HIDE DEF x, free, N
        <5>2. \A i \in 1..N : StandsAt(txt, x, i) /\ Span(i, x) \subseteq free =>
                \E n \in Starts(txt, x, free) : i \in Span(n, x)
          BY <5>1, StartsFound
        <5> QED BY <5>2 DEF x, free, N
      <4> QED BY <2>1, <3>1, <3>2, <4>1
    <3>4. u \in P
      BY <1>6, <2>1, <2>3, <3>3
    <3>5. PICK m \in 1..k : order[m] = u
      BY <1>8, <3>4 DEF ListsOnce
    <3>6. m + 1 \in DOMAIN values /\ values[m + 1] = Value[u]
      <4>1. m + 1 \in 2..k + 1 /\ (m + 1) - 1 = m
        OBVIOUS
      <4>2. values[m + 1] = Value[order[(m + 1) - 1]]
        BY <1>10, <4>1
      <4> QED BY <1>10, <3>5, <4>1, <4>2
    <3> QED BY <2>1, <3>6
  <2> QED BY <2>2, <2>3
<1>14. Covers(txt, values)
  BY <1>11, <1>12, <1>13 DEF Covers
<1> QED BY <1>10, <1>14 DEF values

\* They are the same values, the longest first.
LEMMA LongestFirstCovers ==
  ASSUME NEW txt, NEW values \in Seq(ProtectedValue), Covers(txt, values)
  PROVE  /\ LongestFirst(values) \in Seq(ProtectedValue)
         /\ Covers(txt, LongestFirst(values)) /\ Descending(LongestFirst(values))
<1> DEFINE K == Len(values)
           before(m, n) == \/ Len(values[m]) > Len(values[n])
                           \/ Len(values[m]) = Len(values[n]) /\ m < n
           R == Pairs(DOMAIN values, before)
           first == LongestFirst(values)
<1>1. K \in Nat /\ DOMAIN values = 1..K /\ \A n \in 1..K : values[n] \in ProtectedValue
  OBVIOUS
<1>2. \A n \in 1..K : Len(values[n]) \in Nat
  BY <1>1, LengthsOfValues
<1>3. first = Arranged(values, R)
  BY DEF LongestFirst
<1>4. \A m, n \in 1..K : <<m, n>> \in R <=> before(m, n)
  BY <1>1 DEF Pairs
<1> HIDE DEF K
<1>5. \A n \in 1..K : ~before(n, n)
  BY <1>2
<1>6. \A m, n \in 1..K : m # n => before(m, n) \/ before(n, m)
  BY <1>1, <1>2
<1>7. \A l, m, n \in 1..K : before(l, m) /\ before(m, n) => before(l, n)
  BY <1>1, <1>2
<1>8. \A m, n \in 1..K : before(m, n) => Len(values[n]) <= Len(values[m])
  BY <1>2
<1> HIDE DEF R, before, first
<1>9. Orders(R, 1..K)
  BY <1>4, <1>5, <1>6, <1>7 DEF Orders
<1>10. PICK order \in [1..K -> 1..K] :
         /\ Arranged(values, R) = [n \in 1..K |-> values[order[n]]]
         /\ \A i \in 1..K : \E n \in 1..K : order[n] = i
         /\ \A m, n \in 1..K : m < n => <<order[m], order[n]>> \in R
  BY <1>1, <1>9, ArrangedLists
<1>11. first = [n \in 1..K |-> values[order[n]]]
  BY <1>3, <1>10
<1>12. first \in Seq(ProtectedValue)
  BY <1>1, <1>10, <1>11
<1>13. DOMAIN first = 1..K /\ \A n \in 1..K : first[n] = values[order[n]] /\ order[n] \in 1..K
  BY <1>10, <1>11
<1>14. Descending(first)
  <2> SUFFICES ASSUME NEW m \in 1..K, NEW n \in 1..K, m < n PROVE Len(first[n]) <= Len(first[m])
    BY <1>13 DEF Descending
  <2>1. before(order[m], order[n])
    BY <1>4, <1>10, <1>13
  <2> QED BY <1>8, <1>13, <2>1
<1>15. Covers(txt, first)
  <2>1. \A o \in Occurrences(txt) : \E n \in 1..K :
          StandsAt(txt, first[n], o[1]) /\ Len(first[n]) = Len(Value[o[2]])
    <3> SUFFICES ASSUME NEW o \in Occurrences(txt)
                 PROVE  \E n \in 1..K : StandsAt(txt, first[n], o[1]) /\ Len(first[n]) = Len(Value[o[2]])
      OBVIOUS
    <3>1. PICK i \in 1..K : StandsAt(txt, values[i], o[1]) /\ Len(values[i]) = Len(Value[o[2]])
      BY <1>1 DEF Covers
    <3>2. PICK n \in 1..K : order[n] = i
      BY <1>10
    <3> QED BY <1>13, <3>1, <3>2
  <2>2. \A n \in 1..K : first[n] \in ProtectedValue
    BY <1>1, <1>13
  <2>3. \A n \in 1..K : \A i \in DOMAIN txt : StandsAt(txt, first[n], i) =>
          \E o \in Occurrences(txt) : o[1] = i /\ Len(Value[o[2]]) = Len(first[n])
    <3> SUFFICES ASSUME NEW n \in 1..K, NEW i \in DOMAIN txt, StandsAt(txt, first[n], i)
                 PROVE  \E o \in Occurrences(txt) : o[1] = i /\ Len(Value[o[2]]) = Len(first[n])
      OBVIOUS
    <3>1. first[n] = values[order[n]] /\ order[n] \in DOMAIN values
      BY <1>1, <1>13
    <3> QED BY <3>1 DEF Covers
  <2> QED BY <1>13, <2>1, <2>2, <2>3 DEF Covers
<1> QED BY <1>12, <1>14, <1>15 DEF first

\* The first window has no gaps.
LEMMA NaiveWindowReaches ==
  ASSUME NEW txt \in Seq(Char), NEW entry \in Raw(txt)
  PROVE  Reaches(txt, NaiveWindow(txt, entry), NaiveWindow(txt, entry))
<1> DEFINE w == NaiveWindow(txt, entry)
           low == entry.index - Radius
           high == entry.index + Len(entry.value) - 1 + Radius
<1>1. low \in Int /\ high \in Int
  BY RawSpells, LengthsOfValues, LeakScanAssumption
<1>2. w = {i \in DOMAIN txt : i >= low /\ i <= high}
  BY DEF NaiveWindow
<1>3. DOMAIN txt \subseteq Int
  OBVIOUS
<1> HIDE DEF w, low, high
<1>4. \A a, b \in w : \A k \in DOMAIN txt : a <= k /\ k <= b => k \in w
  BY <1>1, <1>2, <1>3
<1>5. w \subseteq DOMAIN txt
  BY <1>2
<1>6. Reaches(txt, w, w)
  BY <1>4, <1>5 DEF Reaches
<1> QED BY <1>6 DEF w

\* Of every text, and of every match in it.
LEMMA ExcerptHides ==
  ASSUME NEW txt \in Seq(Char), NEW entry \in Raw(txt), NEW o \in Occurrences(txt)
  PROVE  /\ ~(Where(o) \subseteq ExcerptAt(txt, entry))
         /\ ~Entangled(txt) => Where(o) \intersect ExcerptAt(txt, entry) = {}
<1> DEFINE N == Len(txt)
           values == ProtectedValues(txt, entry)
           first == LongestFirst(values)
           w == NaiveWindow(txt, entry)
           window == Expanded(txt, values, w)
<1>1. N \in Nat /\ DOMAIN txt = 1..N
  OBVIOUS
<1>2. values \in Seq(ProtectedValue) /\ Covers(txt, values)
  BY ProtectedValuesCover
<1>3. ExcerptAt(txt, entry) = Readable(txt, first, window)
  BY DEF ExcerptAt
<1>4. Reaches(txt, w, w)
  BY NaiveWindowReaches
<1> HIDE DEF N, values, w, window
<1>5. first \in Seq(ProtectedValue) /\ Covers(txt, first) /\ Descending(first)
  BY <1>2, LongestFirstCovers
<1> HIDE DEF first
<1>6. /\ Len(values) \in Nat /\ DOMAIN values = 1..Len(values)
      /\ Len(first) \in Nat /\ DOMAIN first = 1..Len(first)
  BY <1>2, <1>5
<1>7. ~(Where(o) \subseteq Readable(txt, first, window))
  <2>1. Len(txt) = N
    BY DEF N
  <2> QED BY <1>1, <1>5, <1>6, <2>1, NothingIsReadWhole
<1>8. ASSUME ~Entangled(txt) PROVE Where(o) \intersect Readable(txt, first, window) = {}
  <2>1. Len(txt) = N
    BY DEF N
  <2>2. \A p \in Occurrences(txt) : Where(p) \intersect window # {} => Where(p) \subseteq window
    <3>1. \A p \in Occurrences(txt) : Where(p) \intersect Expanded(txt, values, w) # {} =>
            Where(p) \subseteq Expanded(txt, values, w)
      BY <1>1, <1>2, <1>4, <1>6, <1>8, <2>1, ExpandedReaches
    <3> QED BY <3>1 DEF window
  <2> QED BY <1>1, <1>5, <1>6, <1>8, <2>1, <2>2, NothingIsRead
<1> QED BY <1>3, <1>7, <1>8

\* What is printed of a text shows no protected value of it (ExcerptsHideValues), whatever
\* the values are, however many of them are in the text and wherever they stand.
THEOREM ExcerptsShowNoValue == ScanSpec => []ExcerptsHideValues
<1> DEFINE Inv == text \in Seq(Char)
<1>1. ScanInit => Inv
  BY DEF ScanInit
<1>2. Inv /\ [Write]_scanVars => Inv'
  BY DEF Write, scanVars
<1>3. Inv => ExcerptsHideValues
  BY ExcerptHides DEF ExcerptsHideValues
<1> QED BY <1>1, <1>2, <1>3, PTL DEF ScanSpec

-----------------------------------------------------------------------------
(* TreeScan.                                                                *)

\* A file that the list names, and that is not left out, has been on disk since as the
\* verdict says; until it has been dealt with, nothing is claimed of it.
SeenOnDisk(p) == onDiskSince[p] \ {Gone} # {}
SeenHarmless(p) == \E c \in onDiskSince[p] \ {Gone} : ~Counts(gate, c)

ScanSets ==
  /\ scan.todo \subseteq scan.listed \ LeftOut(gate)
  /\ scan.files \subseteq scan.listed \ LeftOut(gate)
  /\ scan.at = "start" => scan.listed = {} /\ scan.findings = {}
  /\ scan.at # "end" => scan.code = -1
HistoryIsKept ==
  scan.at \in {"classify", "read"} => \A p \in Path : disk[p] \in onDiskSince[p]
LookedUp ==
  scan.at = "classify" => \A p \in (scan.listed \ LeftOut(gate)) \ scan.todo :
    SeenOnDisk(p) /\ (KindOf[p] = "text" => p \in scan.files)
ReadOrLeft ==
  scan.at = "read" => \A p \in scan.listed \ LeftOut(gate) :
    /\ SeenOnDisk(p) /\ KindOf[p] \in {"text", "opaque"}
    /\ KindOf[p] = "text" => p \in scan.todo \union scan.findings \/ SeenHarmless(p)
FindingsAreFound ==
  \A p \in scan.findings : p \in scan.listed /\ \E c \in onDiskSince[p] : Counts(gate, c)

TreeScanInv ==
  /\ TreeScanTypeOK /\ ScanSets /\ HistoryIsKept /\ LookedUp /\ ReadOrLeft
  /\ FindingsAreFound /\ VerdictsAreTrue

\* A run begins with nothing listed and nothing found.
LEMMA TreeScanInitInv == ASSUME TreeScanInit PROVE TreeScanInv
<1>1. scan \in ScanRun /\ scan.at = "start" /\ scan.code = -1 /\ scan.listed = {}
      /\ scan.todo = {} /\ scan.files = {} /\ scan.findings = {}
  BY DEF TreeScanInit, ScanRun
<1>2. tracked \subseteq Path /\ disk \in [Path -> Written \union {Gone}]
  BY TreeScanAssumption DEF TreeScanInit
<1>3. TreeScanTypeOK
  BY <1>1, <1>2, TreeScanAssumption DEF TreeScanInit, TreeScanTypeOK
<1> QED BY <1>1, <1>3 DEF TreeScanInv, VerdictsAreTrue, ScanSets, HistoryIsKept, LookedUp,
            ReadOrLeft, FindingsAreFound

\* The list is taken, and each file's history begins with what is on disk then.
LEMMA ListKeeps == ASSUME TreeScanInv, List PROVE TreeScanInv'
<1>1. /\ gate' = gate /\ disk' = disk /\ tracked' = tracked /\ diskChanges' = diskChanges
      /\ onDiskSince' = [p \in Path |-> {disk[p]}]
      /\ scan.listed = {} /\ scan.findings = {} /\ scan.code = -1
      /\ scan.todo = {} /\ scan.files = {}
  BY DEF TreeScanInv, ScanSets, List, WorldStays
<1>2. onDiskSince' \in [Path -> SUBSET (Written \union {Gone})]
      /\ \A p \in Path : disk'[p] \in onDiskSince'[p]
  BY <1>1 DEF TreeScanInv, TreeScanTypeOK
<1>3. Listing(gate) \subseteq Path
  BY DEF TreeScanInv, TreeScanTypeOK, Listing
<1>4. CASE ExitWith(2)
  <2>1. scan' \in ScanRun
    BY <1>4 DEF TreeScanInv, TreeScanTypeOK, ExitWith, ScanRun
  <2>2. /\ scan'.at = "end" /\ scan'.code = 2
        /\ scan'.listed = {} /\ scan'.todo = {} /\ scan'.files = {} /\ scan'.findings = {}
    BY <1>1, <1>4 DEF TreeScanInv, TreeScanTypeOK, ExitWith, ScanRun
  <2>3. TreeScanTypeOK'
    BY <1>1, <1>2, <2>1 DEF TreeScanInv, TreeScanTypeOK
  <2> QED BY <2>2, <2>3 DEF TreeScanInv, VerdictsAreTrue, ScanSets, HistoryIsKept, LookedUp,
              ReadOrLeft, FindingsAreFound
<1>5. CASE scan' = [scan EXCEPT !.at = "classify", !.listed = Listing(gate),
                                !.todo = Listing(gate) \ LeftOut(gate)]
  <2>1. scan' \in ScanRun
    BY <1>3, <1>5 DEF TreeScanInv, TreeScanTypeOK, ScanRun
  <2>2. /\ scan'.at = "classify" /\ scan'.code = -1
        /\ scan'.listed = Listing(gate) /\ scan'.todo = Listing(gate) \ LeftOut(gate)
        /\ scan'.files = {} /\ scan'.findings = {}
    BY <1>1, <1>5 DEF TreeScanInv, TreeScanTypeOK, ScanRun
  <2>3. TreeScanTypeOK'
    BY <1>1, <1>2, <2>1 DEF TreeScanInv, TreeScanTypeOK
  <2>4. ScanSets' /\ HistoryIsKept' /\ LookedUp'
    BY <1>1, <1>2, <2>2 DEF ScanSets, HistoryIsKept, LookedUp
  <2> QED BY <2>2, <2>3, <2>4 DEF TreeScanInv, VerdictsAreTrue, ReadOrLeft, FindingsAreFound
<1> QED BY <1>4, <1>5 DEF List

\* A run that ends with 2, or a broken build scan with 1, claims nothing.
LEMMA EndKeeps ==
  ASSUME TreeScanInv, NEW code \in {1, 2}, code = 1 => gate = "build",
         scan.at # "end", ExitWith(code), UNCHANGED onDiskSince, WorldStays
  PROVE  TreeScanInv'
<1>1. /\ gate' = gate /\ disk' = disk /\ tracked' = tracked /\ diskChanges' = diskChanges
      /\ onDiskSince' = onDiskSince
  BY DEF WorldStays
<1>2. scan' \in ScanRun
  BY DEF TreeScanInv, TreeScanTypeOK, ExitWith, ScanRun
<1>3. /\ scan'.at = "end" /\ scan'.code = code /\ scan'.listed = scan.listed
      /\ scan'.todo = scan.todo /\ scan'.files = scan.files /\ scan'.findings = scan.findings
  BY DEF TreeScanInv, TreeScanTypeOK, ExitWith, ScanRun
<1>4. TreeScanTypeOK'
  BY <1>1, <1>2 DEF TreeScanInv, TreeScanTypeOK
<1>5. ScanSets' /\ FindingsAreFound'
  BY <1>1, <1>3 DEF TreeScanInv, ScanSets, FindingsAreFound
<1>6. VerdictsAreTrue'
  BY <1>1, <1>3 DEF VerdictsAreTrue
<1> QED BY <1>3, <1>4, <1>5, <1>6 DEF TreeScanInv, HistoryIsKept, LookedUp, ReadOrLeft

\* A file that is looked up is there.
LEMMA LookUpKeeps == ASSUME TreeScanInv, NEW p \in Path, LookUp(p) PROVE TreeScanInv'
<1>1. /\ gate' = gate /\ disk' = disk /\ tracked' = tracked /\ diskChanges' = diskChanges
      /\ onDiskSince' = onDiskSince
  BY DEF LookUp, WorldStays
<1>2. /\ scan' \in ScanRun
      /\ scan'.at = "classify" /\ scan'.code = scan.code /\ scan'.listed = scan.listed
      /\ scan'.todo = scan.todo \ {p} /\ scan'.findings = scan.findings
      /\ scan'.files = IF KindOf[p] = "text" THEN scan.files \union {p} ELSE scan.files
  BY DEF TreeScanInv, TreeScanTypeOK, LookUp, ScanRun
<1>3. scan.at = "classify" /\ p \in scan.todo /\ disk[p] # Gone
  BY DEF LookUp
<1>4. TreeScanTypeOK'
  BY <1>1, <1>2 DEF TreeScanInv, TreeScanTypeOK
<1>5. ScanSets' /\ FindingsAreFound' /\ HistoryIsKept'
  BY <1>1, <1>2, <1>3 DEF TreeScanInv, ScanSets, FindingsAreFound, HistoryIsKept
<1>6. SeenOnDisk(p)
  BY <1>3 DEF TreeScanInv, HistoryIsKept, SeenOnDisk
<1>7. LookedUp'
  BY <1>1, <1>2, <1>3, <1>6 DEF TreeScanInv, LookedUp, SeenOnDisk
<1>8. VerdictsAreTrue'
  BY <1>2, <1>3 DEF TreeScanInv, ScanSets, VerdictsAreTrue
<1> QED BY <1>2, <1>4, <1>5, <1>7, <1>8 DEF TreeScanInv, ReadOrLeft

\* Once all have been looked up, each is a text or opaque, or the run ends.
LEMMA ClassifiedKeeps == ASSUME TreeScanInv, Classified PROVE TreeScanInv'
<1>1. CASE ExitWith(2)
  BY <1>1, EndKeeps DEF Classified
<1>2. CASE /\ \A p \in scan.listed \ LeftOut(gate) : KindOf[p] # "unknown"
           /\ scan' = [scan EXCEPT !.at = "read", !.todo = scan.files]
  <2>1. /\ gate' = gate /\ disk' = disk /\ tracked' = tracked /\ diskChanges' = diskChanges
        /\ onDiskSince' = onDiskSince /\ scan.at = "classify" /\ scan.todo = {}
    BY DEF Classified, WorldStays
  <2>2. /\ scan' \in ScanRun
        /\ scan'.at = "read" /\ scan'.code = scan.code /\ scan'.listed = scan.listed
        /\ scan'.todo = scan.files /\ scan'.findings = scan.findings /\ scan'.files = scan.files
    BY <1>2 DEF TreeScanInv, TreeScanTypeOK, ScanRun
  <2>3. TreeScanTypeOK'
    BY <2>1, <2>2 DEF TreeScanInv, TreeScanTypeOK
  <2>4. ScanSets' /\ FindingsAreFound' /\ HistoryIsKept'
    BY <2>1, <2>2 DEF TreeScanInv, ScanSets, FindingsAreFound, HistoryIsKept
  <2>5. \A p \in scan.listed : KindOf[p] \in FileKind
    BY TreeScanAssumption DEF TreeScanInv, TreeScanTypeOK, ScanRun
  <2>6. ReadOrLeft'
    BY <1>2, <2>1, <2>2, <2>5 DEF TreeScanInv, ReadOrLeft, LookedUp, SeenOnDisk, FileKind
  <2>7. VerdictsAreTrue'
    BY <2>1, <2>2 DEF TreeScanInv, ScanSets, VerdictsAreTrue
  <2> QED BY <2>2, <2>3, <2>4, <2>6, <2>7 DEF TreeScanInv, LookedUp
<1> QED BY <1>1, <1>2 DEF Classified

\* What is read is on disk at that moment: it is a finding, or harmless.
LEMMA ReadFileKeeps == ASSUME TreeScanInv, NEW p \in Path, ReadFile(p) PROVE TreeScanInv'
<1>1. /\ gate' = gate /\ disk' = disk /\ tracked' = tracked /\ diskChanges' = diskChanges
      /\ onDiskSince' = onDiskSince
  BY DEF ReadFile, WorldStays
<1>2. scan.at = "read" /\ p \in scan.todo /\ disk[p] # Gone
  BY DEF ReadFile
<1>3. /\ scan' \in ScanRun
      /\ scan'.at = "read" /\ scan'.code = scan.code /\ scan'.listed = scan.listed
      /\ scan'.todo = scan.todo \ {p} /\ scan'.files = scan.files
      /\ scan'.findings = IF Counts(gate, disk[p]) THEN scan.findings \union {p} ELSE scan.findings
  BY <1>2 DEF TreeScanInv, TreeScanTypeOK, ReadFile, ScanRun
<1>4. TreeScanTypeOK'
  BY <1>1, <1>3 DEF TreeScanInv, TreeScanTypeOK
<1>5. ScanSets' /\ HistoryIsKept'
  BY <1>1, <1>2, <1>3 DEF TreeScanInv, ScanSets, HistoryIsKept
<1>6. disk[p] \in onDiskSince[p] \ {Gone} /\ p \in scan.listed
  BY <1>2 DEF TreeScanInv, HistoryIsKept, ScanSets
<1>7. FindingsAreFound'
  BY <1>1, <1>3, <1>6 DEF TreeScanInv, FindingsAreFound
<1>8. Counts(gate, disk[p]) \/ SeenHarmless(p)
  BY <1>6 DEF SeenHarmless
<1>9. \A q : (SeenHarmless(q)' <=> SeenHarmless(q)) /\ (SeenOnDisk(q)' <=> SeenOnDisk(q))
  BY <1>1 DEF SeenHarmless, SeenOnDisk
<1>10. ReadOrLeft'
  BY <1>1, <1>2, <1>3, <1>8, <1>9 DEF TreeScanInv, ReadOrLeft
<1>11. VerdictsAreTrue'
  BY <1>2, <1>3 DEF TreeScanInv, ScanSets, VerdictsAreTrue
<1> QED BY <1>3, <1>4, <1>5, <1>7, <1>10, <1>11 DEF TreeScanInv, LookedUp

\* With nothing left to read, every text has been a finding or harmless.
LEMMA JudgeKeeps == ASSUME TreeScanInv, Judge PROVE TreeScanInv'
<1>1. /\ gate' = gate /\ disk' = disk /\ tracked' = tracked /\ diskChanges' = diskChanges
      /\ onDiskSince' = onDiskSince /\ scan.at = "read" /\ scan.todo = {}
  BY DEF Judge, WorldStays
<1>2. /\ scan' \in ScanRun
      /\ scan'.at = "end" /\ scan'.code = (IF scan.findings = {} THEN 0 ELSE 1)
      /\ scan'.listed = scan.listed /\ scan'.todo = scan.todo /\ scan'.files = scan.files
      /\ scan'.findings = scan.findings
  BY DEF TreeScanInv, TreeScanTypeOK, Judge, ExitWith, ScanRun
<1>3. TreeScanTypeOK'
  BY <1>1, <1>2 DEF TreeScanInv, TreeScanTypeOK
<1>4. ScanSets' /\ FindingsAreFound'
  BY <1>1, <1>2 DEF TreeScanInv, ScanSets, FindingsAreFound
<1>5. ASSUME scan.findings = {}, NEW p \in scan.listed \ LeftOut(gate)
      PROVE  \E c \in onDiskSince[p] \ {Gone} :
               KindOf[p] = "opaque" \/ (KindOf[p] = "text" /\ ~Counts(gate, c))
  BY <1>1, <1>5 DEF TreeScanInv, ReadOrLeft, SeenOnDisk, SeenHarmless
<1>6. VerdictsAreTrue'
  BY <1>1, <1>2, <1>4, <1>5 DEF VerdictsAreTrue, FindingsAreFound
<1> QED BY <1>2, <1>3, <1>4, <1>6 DEF TreeScanInv, HistoryIsKept, LookedUp, ReadOrLeft

\* What a file has been stays in its history.
LEMMA ChangeDiskKeeps == ASSUME TreeScanInv, NEW p \in Path, ChangeDisk(p) PROVE TreeScanInv'
<1>1. gate' = gate /\ tracked' = tracked /\ scan' = scan /\ scan.at \in {"classify", "read"}
  BY DEF ChangeDisk
<1>2. PICK c \in (Written \union {Gone}) \ {disk[p]} :
        /\ disk' = [disk EXCEPT ![p] = c]
        /\ onDiskSince' = [onDiskSince EXCEPT ![p] = @ \union {c}]
  BY DEF ChangeDisk
<1>3. TreeScanTypeOK'
  <2>1. diskChanges' \in 0..MaxDiskChanges
    BY TreeScanAssumption DEF TreeScanInv, TreeScanTypeOK, ChangeDisk
  <2>2. /\ disk' \in [Path -> Written \union {Gone}]
        /\ onDiskSince' \in [Path -> SUBSET (Written \union {Gone})]
    BY <1>2 DEF TreeScanInv, TreeScanTypeOK
  <2> QED BY <1>1, <2>1, <2>2 DEF TreeScanInv, TreeScanTypeOK
<1>4. \A q \in Path : onDiskSince[q] \subseteq onDiskSince'[q] /\ disk'[q] \in onDiskSince'[q]
  BY <1>1, <1>2 DEF TreeScanInv, TreeScanTypeOK, HistoryIsKept
<1>5. \A q \in Path : /\ SeenOnDisk(q) => SeenOnDisk(q)'
                      /\ SeenHarmless(q) => SeenHarmless(q)'
  BY <1>1, <1>4 DEF SeenOnDisk, SeenHarmless
<1>6. scan.listed \subseteq Path
  BY DEF TreeScanInv, TreeScanTypeOK, ScanRun
<1>7. ScanSets' /\ HistoryIsKept' /\ VerdictsAreTrue'
  BY <1>1, <1>4 DEF TreeScanInv, ScanSets, HistoryIsKept, VerdictsAreTrue
<1>8. LookedUp' /\ ReadOrLeft'
  BY <1>1, <1>5, <1>6 DEF TreeScanInv, LookedUp, ReadOrLeft
<1>9. FindingsAreFound'
  BY <1>1, <1>4, <1>6 DEF TreeScanInv, FindingsAreFound
<1> QED BY <1>3, <1>7, <1>8, <1>9 DEF TreeScanInv

\* A gate that passes has seen every file that it had to look at, and one that counts
\* findings has one (VerdictsAreTrue), whatever is changed on disk while it runs.
THEOREM GatesTellTheTruth == TreeScanSpec => []VerdictsAreTrue
<1>1. TreeScanInit => TreeScanInv
  BY TreeScanInitInv
<1>2. TreeScanInv /\ [TreeScanNext]_treeScanVars => TreeScanInv'
  <2> SUFFICES ASSUME TreeScanInv, [TreeScanNext]_treeScanVars PROVE TreeScanInv'
    OBVIOUS
  <2>1. CASE List
    BY <2>1, ListKeeps
  <2>2. CASE CannotList
    BY <2>2, EndKeeps DEF CannotList
  <2>3. CASE Classified
    BY <2>3, ClassifiedKeeps
  <2>4. CASE Judge
    BY <2>4, JudgeKeeps
  <2>5. ASSUME NEW p \in Path, LookUp(p) PROVE TreeScanInv'
    BY <2>5, LookUpKeeps
  <2>6. ASSUME NEW p \in Path, Missing(p) \/ Unreadable(p) PROVE TreeScanInv'
    BY <2>6, EndKeeps DEF Missing, Unreadable, BrokenOff
  <2>7. ASSUME NEW p \in Path, ReadFile(p) PROVE TreeScanInv'
    BY <2>7, ReadFileKeeps
  <2>8. ASSUME NEW p \in Path, ChangeDisk(p) PROVE TreeScanInv'
    BY <2>8, ChangeDiskKeeps
  <2>9. CASE UNCHANGED treeScanVars
    <3>1. /\ gate' = gate /\ tracked' = tracked /\ disk' = disk /\ onDiskSince' = onDiskSince
          /\ diskChanges' = diskChanges /\ scan' = scan
      BY <2>9 DEF treeScanVars
    <3> QED BY <3>1 DEF TreeScanInv, TreeScanTypeOK, VerdictsAreTrue, SeenOnDisk, SeenHarmless,
                ScanSets, HistoryIsKept, LookedUp, ReadOrLeft, FindingsAreFound
  <2> QED BY <2>1, <2>2, <2>3, <2>4, <2>5, <2>6, <2>7, <2>8, <2>9 DEF TreeScanNext
<1>3. TreeScanInv => VerdictsAreTrue
  BY DEF TreeScanInv
<1> QED BY <1>1, <1>2, <1>3, PTL DEF TreeScanSpec

-----------------------------------------------------------------------------
(* StaticProjection.                                                        *)

\* What is accepted holds what was hashed, and, if it had to be signed, is the whole
\* of one publication.
LEMMA AcceptedWasPublished ==
  ASSUME published \subseteq Publication, NEW options \in Option, NEW answer \in Answers,
         NEW url \in Url \union {NoFile}, NEW actor \in Actor \union {NoFile},
         Accepted(answer, url, actor, options)
  PROVE  /\ \E p \in published : HashOf(answer.body.content) = p.snapshot.hash
         /\ options.requireSignature => \E p \in published :
              /\ p.snapshot = answer.body
              /\ p.url = url /\ p.by = actor.key /\ p.created = answer.created
<1>1. PICK p \in published, q \in published :
        answer.body = [p.snapshot EXCEPT !.content.items = q.snapshot.content.items]
  BY DEF Answers
<1>2. answer.body.hash = p.snapshot.hash
  BY <1>1, StaticProjectionAssumption
<1>3. answer.body.hash = HashOf(answer.body.content)
  BY DEF Accepted, ValidSnapshot, StaticSpoke, Pulse
<1>4. ASSUME options.requireSignature
      PROVE  \E s \in published : /\ s.snapshot = answer.body
                                  /\ s.url = url /\ s.by = actor.key /\ s.created = answer.created
  <2>1. PICK s \in published : answer.signature = Signature(s)
    BY DEF Answers
  <2>2. /\ answer.digest = answer.body /\ answer.signature.key = actor.key
        /\ answer.signature.over = [url |-> url, digest |-> answer.digest, created |-> answer.created]
    BY <1>4 DEF Accepted, Signed
  <2> QED BY <2>1, <2>2 DEF Signature
<1> QED BY <1>2, <1>3, <1>4

\* Everything published so far is a publication.
ProjectionInv == published \subseteq Publication /\ SyncedWasPublished

LEMMA ProjectionStep ==
  ASSUME ProjectionInv, [ProjectionNext]_projectionVars
  PROVE  ProjectionInv'
<1> USE DEF ProjectionInv
<1>1. CASE UNCHANGED projectionVars
  BY <1>1 DEF projectionVars, SyncedWasPublished
<1>2. CASE Publish
  BY <1>2 DEF Publish, SyncedWasPublished
<1>3. CASE Sync
  <2>1. PICK options \in Option, answer \in Answers, url \in Url \union {NoFile},
            actor \in Actor \union {NoFile} :
        /\ Accepted(answer, url, actor, options)
        /\ file' = [snapshot |-> answer.body, created |-> answer.created, url |-> url,
                    by |-> IF options.requireSignature THEN actor.key ELSE NoFile]
    BY <1>3 DEF Sync
  <2>2. UNCHANGED published
    BY <1>3 DEF Sync
  <2> QED BY <2>1, <2>2, AcceptedWasPublished DEF SyncedWasPublished
<1> QED BY <1>1, <1>2, <1>3 DEF ProjectionNext

\* What a sync writes was published: hashed as it is, and signed as a whole if it had
\* to be, whatever parts of publications the answer was made of.
THEOREM SyncWritesPublications == ProjectionSpec => []SyncedWasPublished
<1>1. ProjectionInit => ProjectionInv
  BY DEF ProjectionInit, ProjectionInv, SyncedWasPublished
<1>2. ProjectionInv /\ [ProjectionNext]_projectionVars => ProjectionInv'
  BY ProjectionStep
<1>3. ProjectionInv => SyncedWasPublished
  BY DEF ProjectionInv
<1> QED BY <1>1, <1>2, <1>3, PTL DEF ProjectionSpec

-----------------------------------------------------------------------------
(* DiscussArchive: the order of a page.                                     *)

\* Threads are put in a total order by their activity, their ids and, last, their places.
LEMMA ThreadsAreOrdered ==
  ASSUME NEW threads, NEW len \in Nat, DOMAIN threads = 1..len,
         \A i \in 1..len : threads[i].active \in Int /\ threads[i].thread \in Int
  PROVE  \E order \in [1..len -> 1..len] :
           /\ SortThreads(threads) = [n \in 1..len |-> threads[order[n]]]
           /\ \A i \in 1..len : \E n \in 1..len : order[n] = i
           /\ \A m, n \in 1..len : m < n =>
                order[m] # order[n] /\ threads[order[m]].active >= threads[order[n]].active
<1> DEFINE before(i, j) == \/ MoreActive(threads[i], threads[j])
                           \/ ~MoreActive(threads[j], threads[i]) /\ i < j
           R == Pairs(DOMAIN threads, before)
<1>1. \A i, j \in 1..len : <<i, j>> \in R <=> before(i, j)
  BY DEF Pairs
<1>2. \A i \in 1..len : ~before(i, i)
  BY DEF MoreActive
<1>3. \A i, j \in 1..len : i # j => before(i, j) \/ before(j, i)
  BY DEF MoreActive
<1>4. \A i, j, k \in 1..len : before(i, j) /\ before(j, k) => before(i, k)
  BY DEF MoreActive
<1>5. \A i, j \in 1..len : before(i, j) => threads[i].active >= threads[j].active
  BY DEF MoreActive
<1>6. SortThreads(threads) = Arranged(threads, R)
  BY DEF SortThreads
<1> HIDE DEF R, before
<1>7. Orders(R, 1..len)
  BY <1>1, <1>2, <1>3, <1>4 DEF Orders
<1>8. PICK order \in [1..len -> 1..len] :
        /\ Arranged(threads, R) = [n \in 1..len |-> threads[order[n]]]
        /\ \A i \in 1..len : \E n \in 1..len : order[n] = i
        /\ \A m, n \in 1..len : m < n => <<order[m], order[n]>> \in R
  BY <1>7, ArrangedLists
<1>9. ASSUME NEW m \in 1..len, NEW n \in 1..len, m < n
      PROVE  order[m] # order[n] /\ threads[order[m]].active >= threads[order[n]].active
  <2>1. before(order[m], order[n])
    BY <1>1, <1>8, <1>9
  <2> QED BY <1>2, <1>5, <2>1
<1> QED BY <1>6, <1>8, <1>9

\* Messages are put in order by their dates, their ids and, last, their places.
LEMMA MessagesAreOrdered ==
  ASSUME NEW messages, NEW len \in Nat, DOMAIN messages = 1..len,
         \A i \in 1..len : messages[i].date \in Int /\ messages[i].id \in Int
  PROVE  \E order \in [1..len -> 1..len] :
           /\ SortMessages(messages) = [n \in 1..len |-> messages[order[n]]]
           /\ \A i \in 1..len : \E n \in 1..len : order[n] = i
           /\ \A m, n \in 1..len : m < n => messages[order[m]].date <= messages[order[n]].date
<1> DEFINE before(i, j) == \/ Earlier(messages[i], messages[j])
                           \/ ~Earlier(messages[j], messages[i]) /\ i < j
           R == Pairs(DOMAIN messages, before)
<1>1. \A i, j \in 1..len : <<i, j>> \in R <=> before(i, j)
  BY DEF Pairs
<1>2. \A i \in 1..len : ~before(i, i)
  BY DEF Earlier
<1>3. \A i, j \in 1..len : i # j => before(i, j) \/ before(j, i)
  BY DEF Earlier
<1>4. \A i, j, k \in 1..len : before(i, j) /\ before(j, k) => before(i, k)
  BY DEF Earlier
<1>5. \A i, j \in 1..len : before(i, j) => messages[i].date <= messages[j].date
  BY DEF Earlier
<1>6. SortMessages(messages) = Arranged(messages, R)
  BY DEF SortMessages
<1> HIDE DEF R, before
<1>7. Orders(R, 1..len)
  BY <1>1, <1>2, <1>3, <1>4 DEF Orders
<1>8. PICK order \in [1..len -> 1..len] :
        /\ Arranged(messages, R) = [n \in 1..len |-> messages[order[n]]]
        /\ \A i \in 1..len : \E n \in 1..len : order[n] = i
        /\ \A m, n \in 1..len : m < n => <<order[m], order[n]>> \in R
  BY <1>7, ArrangedLists
<1>9. \A m, n \in 1..len : m < n => messages[order[m]].date <= messages[order[n]].date
  BY <1>1, <1>5, <1>8
<1> QED BY <1>6, <1>8, <1>9

-----------------------------------------------------------------------------
(* DiscussArchive: what a page is made of while it is read.                 *)

\* The reads of the index: different threads, and of each what it said of itself.
Hydrated(items, got) ==
  /\ \E len \in Nat : DOMAIN items = 1..len /\ DOMAIN got = 1..len
  /\ \A i, j \in DOMAIN items : i # j => items[i] # items[j]
  /\ \A i \in DOMAIN items :
       /\ items[i] \in Int /\ got[i].is \in {"waiting", "detail", "thread", "dropped"}
       /\ got[i].is \in {"detail", "thread"} => got[i].of.thread = items[i] /\ got[i].of.active \in Int

\* The reads of a thread: of each message the archive's own.
Bodies(got) ==
  /\ \E len \in Nat : DOMAIN got = 1..len
  /\ \A i \in DOMAIN got : got[i].is \in {"waiting", "email"} /\ (got[i].is = "email" => got[i].of \in Message)

ArchiveInv ==
  /\ IsFiniteSet(DOMAIN archive) /\ DOMAIN archive \subseteq Thread
  /\ archive \in [DOMAIN archive -> StoredThread]
  /\ changes \in Int

PageInv ==
  /\ page.pc \in {"off", "listing", "hydrating", "thread", "emails", "bodies", "answered"}
  /\ page.pc = "hydrating" =>
       page = [pc |-> page.pc, items |-> page.items, got |-> page.got] /\ Hydrated(page.items, page.got)
  /\ page.pc = "bodies" =>
       /\ page = [pc |-> page.pc, id |-> page.id, detail |-> page.detail, items |-> page.items, got |-> page.got]
       /\ Bodies(page.got)

PagesInv == ArchiveInv /\ PageInv /\ ServedIsPublic /\ PagesAreWhole

\* The k reads of got that are kept, in their order.
KeptAt(got, kept, k, order) ==
  /\ order \in [1..k -> kept] /\ ListsOnce(order, k, kept)
  /\ Selected(got, kept) = [n \in 1..k |-> got[order[n]]]

\* Whatever is kept of the reads is what was at its places.
LEMMA KeptLists ==
  ASSUME NEW got, NEW len \in Nat, DOMAIN got = 1..len, NEW kept \in SUBSET (1..len)
  PROVE  \E k \in Nat : \E order : KeptAt(got, kept, k, order)
BY SelectedLists DEF KeptAt

\* What is built of the reads has every thread that was read, in order, or is refused.
LEMMA BuildServes ==
  ASSUME NEW items, NEW got, Hydrated(items, got),
         \A i \in DOMAIN got : got[i].is \in {"thread", "dropped"},
         page' = Build(items, got)
  PROVE  ServedIsPublic' /\ PagesAreWhole'
<1> DEFINE kept == {i \in DOMAIN got : got[i].is = "thread"}
           read == Selected(got, kept)
           unsorted == [n \in DOMAIN read |-> read[n].of]
           threads == SortThreads(unsorted)
           subjects == {read[i].of.subject : i \in DOMAIN read}
           words == UNION {WordsOfThread(read[i].of) : i \in DOMAIN read}
           ok == (got # <<>> => read # <<>>) /\ Acceptable(subjects, words)
           index == [pc |-> "answered", is |-> "index", items |-> items, got |-> got, threads |-> threads]
           empty == [pc |-> "answered", is |-> "empty", items |-> items, got |-> got]
<1>1. PICK len \in Nat : DOMAIN items = 1..len /\ DOMAIN got = 1..len
  BY DEF Hydrated
<1>2. page' = IF ok THEN index ELSE empty
  BY DEF Build
<1>3. PICK k \in Nat : \E order : KeptAt(got, kept, k, order)
  <2>1. kept \in SUBSET (1..len)
    BY <1>1
  <2> HIDE DEF kept
  <2> QED BY <1>1, <2>1, KeptLists
<1>4. PICK order \in [1..k -> kept] :
        /\ read = [n \in 1..k |-> got[order[n]]]
        /\ \A i \in kept : \E n \in 1..k : order[n] = i
        /\ \A m, n \in 1..k : m < n => order[m] < order[n]
  <2> HIDE DEF kept
  <2> QED BY <1>3 DEF KeptAt, ListsOnce
<1>5. \A i \in kept : i \in 1..len /\ got[i].is = "thread"
                      /\ got[i].of.thread = items[i] /\ items[i] \in Int /\ got[i].of.active \in Int
  BY <1>1 DEF Hydrated
<1>6. \A i, j \in kept : i # j => items[i] # items[j]
  BY <1>1 DEF Hydrated
<1> HIDE DEF kept, read
<1>7. /\ DOMAIN read = 1..k /\ DOMAIN unsorted = 1..k
      /\ \A n \in 1..k : order[n] \in kept /\ read[n] = got[order[n]] /\ unsorted[n] = got[order[n]].of
  BY <1>4
<1>8. \A m, n \in 1..k : m # n => unsorted[m].thread # unsorted[n].thread
  <2>1. ASSUME NEW m \in 1..k, NEW n \in 1..k, m # n PROVE order[m] # order[n]
    <3>1. m < n \/ n < m
      BY <2>1
    <3>2. order[m] \in Int /\ order[n] \in Int
      BY <1>4, <1>5
    <3>3. order[m] < order[n] \/ order[n] < order[m]
      BY <1>4, <3>1
    <3> QED BY <3>2, <3>3
  <2> QED BY <1>5, <1>6, <1>7, <2>1
<1> HIDE DEF unsorted
<1>9. PICK place \in [1..k -> 1..k] :
        /\ threads = [n \in 1..k |-> unsorted[place[n]]]
        /\ \A i \in 1..k : \E n \in 1..k : place[n] = i
        /\ \A m, n \in 1..k : m < n =>
             place[m] # place[n] /\ unsorted[place[m]].active >= unsorted[place[n]].active
  <2>1. \A n \in 1..k : unsorted[n].active \in Int /\ unsorted[n].thread \in Int
    BY <1>5, <1>7
  <2> QED BY <1>4, <1>7, <2>1, ThreadsAreOrdered
<1> HIDE DEF threads
<1>10. DOMAIN threads = 1..k /\ \A n \in 1..k : place[n] \in 1..k /\ threads[n] = unsorted[place[n]]
  BY <1>9
<1>11. CASE ok
  <2>1. page' = index
    BY <1>2, <1>11
  <2> HIDE DEF ok
  <2>2. page'.pc = "answered" /\ page'.is = "index" /\ page'.got = got /\ page'.threads = threads
    BY <2>1
  <2>3. ServedIsPublic'
    <3>1. WordsOfPage' = UNION {WordsOfThread(threads[n]) : n \in 1..k}
      BY <1>10, <2>2 DEF WordsOfPage
    <3>2. \A n \in 1..k : place[n] \in DOMAIN read /\ WordsOfThread(threads[n]) = WordsOfThread(read[place[n]].of)
      BY <1>7, <1>10
    <3>3. UNION {WordsOfThread(threads[n]) : n \in 1..k} \subseteq words
      BY <3>2
    <3>4. PublicSafe(words)
      BY <1>11 DEF ok, Acceptable
    <3> HIDE DEF words
    <3> QED BY <3>1, <3>3, <3>4 DEF ServedIsPublic, PublicSafe
  <2>4. Range(threads) = {got[i].of : i \in {j \in DOMAIN got : got[j].is = "thread"}}
    <3>1. ASSUME NEW n \in 1..k PROVE \E i \in kept : threads[n] = got[i].of
      <4>1. place[n] \in 1..k /\ threads[n] = unsorted[place[n]]
        BY <1>10
      <4>2. order[place[n]] \in kept /\ unsorted[place[n]] = got[order[place[n]]].of
        BY <1>7, <4>1
      <4> QED BY <4>1, <4>2
    <3>2. ASSUME NEW i \in kept PROVE \E n \in 1..k : threads[n] = got[i].of
      <4>1. PICK m \in 1..k : order[m] = i
        BY <1>4
      <4>2. PICK n \in 1..k : place[n] = m
        BY <1>9
      <4>3. threads[n] = unsorted[m] /\ unsorted[m] = got[i].of
        BY <1>7, <1>10, <4>1, <4>2
      <4> QED BY <4>3
    <3>3. Range(threads) = {threads[n] : n \in 1..k}
      BY <1>10 DEF Range
    <3>4. {threads[n] : n \in 1..k} \subseteq {got[i].of : i \in kept}
      <4> SUFFICES ASSUME NEW n \in 1..k PROVE threads[n] \in {got[i].of : i \in kept}
        OBVIOUS
      <4>1. PICK i \in kept : threads[n] = got[i].of
        BY <3>1
      <4> QED BY <4>1
    <3>5. {got[i].of : i \in kept} \subseteq {threads[n] : n \in 1..k}
      BY <3>2
    <3>6. Range(threads) = {got[i].of : i \in kept}
      BY <3>3, <3>4, <3>5
    <3> QED BY <3>6 DEF kept
  <2>5. \A m, n \in DOMAIN threads : m < n => /\ threads[m].active >= threads[n].active
                                              /\ threads[m].thread # threads[n].thread
    <3> SUFFICES ASSUME NEW m \in 1..k, NEW n \in 1..k, m < n
                 PROVE  threads[m].active >= threads[n].active /\ threads[m].thread # threads[n].thread
      BY <1>10
    <3>1. place[m] # place[n] /\ unsorted[place[m]].active >= unsorted[place[n]].active
      BY <1>9
    <3>2. /\ threads[m] = unsorted[place[m]] /\ threads[n] = unsorted[place[n]]
          /\ place[m] \in 1..k /\ place[n] \in 1..k
      BY <1>10
    <3>3. unsorted[place[m]].thread # unsorted[place[n]].thread
      BY <1>8, <3>1, <3>2
    <3> QED BY <3>1, <3>2, <3>3
  <2> QED BY <2>2, <2>3, <2>4, <2>5 DEF PagesAreWhole
<1>12. CASE ~ok
  <2>1. page' = empty
    BY <1>2, <1>12
  <2>2. page'.pc = "answered" /\ page'.is = "empty" /\ page'.got = got
    BY <2>1
  <2>3. CASE got # <<>> /\ read = <<>>
    <3>1. kept = {}
      <4>1. 1..k = {}
        BY <1>7, <2>3
      <4> QED BY <1>4, <4>1
    <3>2. \A i \in DOMAIN got : got[i].is = "dropped"
      BY <3>1 DEF kept
    <3> QED BY <2>2, <3>2 DEF ServedIsPublic, Served, PagesAreWhole
  <2>4. CASE ~Acceptable(subjects, words)
    <3>1. PICK n \in 1..k : Unsafe(read[n].of.subject, WordsOfThread(read[n].of))
      <4>1. CASE Blank \in subjects
        BY <1>7, <4>1 DEF Unsafe
      <4>2. CASE ~PublicSafe(words)
        <5>1. PICK w \in words : ~PublicSafe({w})
          <6> HIDE DEF words
          <6> QED BY <4>2 DEF PublicSafe
        <5>2. PICK n \in 1..k : w \in WordsOfThread(read[n].of)
          BY <1>7
        <5> QED BY <5>1, <5>2 DEF PublicSafe, Unsafe
      <4> QED BY <2>4, <4>1, <4>2 DEF Acceptable
    <3>2. order[n] \in DOMAIN got /\ got[order[n]].is = "thread"
      BY <1>7 DEF kept
    <3>3. Unsafe(got[order[n]].of.subject, WordsOfThread(got[order[n]].of))
      BY <1>7, <3>1
    <3>4. \E i \in DOMAIN got : got[i].is = "thread" /\ Unsafe(got[i].of.subject, WordsOfThread(got[i].of))
      BY <3>2, <3>3
    <3> QED BY <2>2, <3>4 DEF ServedIsPublic, Served, PagesAreWhole
  <2> QED BY <1>12, <2>3, <2>4
<1> QED BY <1>11, <1>12

\* A thread is served with every message that was read, oldest first, or not at all.
LEMMA MapThreadDetailServes ==
  ASSUME NEW detail, NEW emails, NEW len \in Nat, DOMAIN emails = 1..len,
         \A i \in 1..len : emails[i] \in Message,
         page' = MapThreadDetail(detail, emails)
  PROVE  ServedIsPublic' /\ PagesAreWhole'
<1> DEFINE mapped == [i \in DOMAIN emails |-> MapMessage(emails[i])]
           messages == SortMessages(mapped)
           subject == Neutral(detail.subject)
           words == {subject} \union UNION {WordsOfMessage(messages[i]) : i \in DOMAIN messages}
           ok == messages # <<>> /\ Acceptable({subject}, words)
<1>1. page' = IF ok THEN [pc |-> "answered", is |-> "thread", id |-> detail.thread, subject |-> subject,
                          messages |-> messages, emails |-> emails]
              ELSE [pc |-> "answered", is |-> "unavailable", id |-> detail.thread]
  BY DEF MapThreadDetail
<1>2. \A i \in 1..len : /\ mapped[i].id = emails[i].id /\ mapped[i].date = emails[i].date
                        /\ mapped[i].id \in Int /\ mapped[i].date \in Int
  BY DEF MapMessage, Message
<1>3. DOMAIN mapped = 1..len
  OBVIOUS
<1> HIDE DEF mapped
<1>4. PICK order \in [1..len -> 1..len] :
        /\ messages = [n \in 1..len |-> mapped[order[n]]]
        /\ \A i \in 1..len : \E n \in 1..len : order[n] = i
        /\ \A m, n \in 1..len : m < n => mapped[order[m]].date <= mapped[order[n]].date
  BY <1>2, <1>3, MessagesAreOrdered
<1> HIDE DEF messages
<1>5. DOMAIN messages = 1..len /\ \A n \in 1..len : order[n] \in 1..len /\ messages[n] = mapped[order[n]]
  BY <1>4
<1>6. CASE ok
  <2>1. /\ page'.pc = "answered" /\ page'.is = "thread" /\ page'.subject = subject
        /\ page'.messages = messages /\ page'.emails = emails
    BY <1>1, <1>6
  <2>2. ServedIsPublic'
    <3>1. WordsOfPage' = words
      BY <2>1 DEF WordsOfPage
    <3>2. PublicSafe(words)
      BY <1>6 DEF Acceptable
    <3> HIDE DEF words
    <3> QED BY <3>1, <3>2 DEF ServedIsPublic, PublicSafe
  <2>3. {m.id : m \in Range(messages)} = {m.id : m \in Range(emails)}
    <3>1. \A n \in 1..len : \E i \in 1..len : messages[n].id = emails[i].id
      BY <1>2, <1>5
    <3>2. ASSUME NEW i \in 1..len PROVE \E n \in 1..len : messages[n].id = emails[i].id
      <4>1. PICK n \in 1..len : order[n] = i
        BY <1>4
      <4> QED BY <1>2, <1>5, <4>1
    <3>3. Range(messages) = {messages[n] : n \in 1..len} /\ Range(emails) = {emails[i] : i \in 1..len}
      BY <1>5 DEF Range
    <3>4. ASSUME NEW n \in 1..len PROVE messages[n].id \in {m.id : m \in Range(emails)}
      BY <3>1, <3>3
    <3>5. ASSUME NEW i \in 1..len PROVE emails[i].id \in {m.id : m \in Range(messages)}
      BY <3>2, <3>3
    <3>6. \A m \in Range(messages) : m.id \in {e.id : e \in Range(emails)}
      BY <3>3, <3>4
    <3>7. \A e \in Range(emails) : e.id \in {m.id : m \in Range(messages)}
      BY <3>3, <3>5
    <3> QED BY <3>6, <3>7
  <2>4. \A m, n \in DOMAIN messages : m < n => messages[m].date <= messages[n].date
    BY <1>4, <1>5
  <2> QED BY <2>1, <2>2, <2>3, <2>4 DEF PagesAreWhole
<1>7. CASE ~ok
  <2>1. page'.pc = "answered" /\ page'.is = "unavailable"
    BY <1>1, <1>7
  <2> QED BY <2>1 DEF ServedIsPublic, Served, PagesAreWhole
<1> QED BY <1>6, <1>7

-----------------------------------------------------------------------------
(* DiscussArchive: every page that is served.                               *)

LEMMA ArchiveStarts == ArchiveInit => PagesInv
<1> SUFFICES ASSUME ArchiveInit PROVE PagesInv
  OBVIOUS
<1> USE ArchivesAssumption DEF ArchiveInit
<1>1. ArchiveInv
  BY DEF ArchiveInv
<1>2. PageInv /\ ServedIsPublic /\ PagesAreWhole
  BY DEF PageInv, ServedIsPublic, Served, PagesAreWhole
<1> QED BY <1>1, <1>2 DEF PagesInv

\* What changes the archive: a thread that is not there is not there afterwards.
LEMMA ArchiveChanges ==
  ASSUME PagesInv, NEW t \in DOMAIN archive, Post(t) \/ RemoveThread(t) \/ RemoveMessage(t)
  PROVE  PagesInv'
<1> USE DEF PagesInv
<1>1. /\ IsFiniteSet(DOMAIN archive) /\ DOMAIN archive \subseteq Thread /\ changes \in Int
      /\ archive \in [DOMAIN archive -> StoredThread]
  BY DEF ArchiveInv
<1>2. archive[t] \in StoredThread
  BY <1>1
<1>3. changes' = changes + 1 /\ page' = page
  BY DEF Post, RemoveThread, RemoveMessage, Change
<1>4. ArchiveInv' /\ DOMAIN archive' \subseteq DOMAIN archive
  <2>1. CASE Post(t)
    <3>1. PICK m \in Messages, date \in {-1, changes + 1} :
            archive' = [archive EXCEPT ![t].active = changes + 1,
                                       ![t].messages = Append(@, [id |-> changes + 1, date |-> date,
                                                                  sender |-> m.sender, body |-> m.body])]
      BY <2>1 DEF Post
    <3> DEFINE posted == [id |-> changes + 1, date |-> date, sender |-> m.sender, body |-> m.body]
               longer == [archive[t] EXCEPT !.active = changes + 1, !.messages = Append(@, posted)]
    <3>2. posted \in Message
      BY <1>1, ArchivesAssumption DEF Message
    <3> HIDE DEF posted
    <3>3. Append(archive[t].messages, posted) \in Seq(Message) \ {<<>>}
      BY <1>2, <3>2 DEF StoredThread
    <3>4. longer \in StoredThread
      <4> DEFINE messages == Append(archive[t].messages, posted)
      <4>1. longer = [archive[t] EXCEPT !.active = changes + 1, !.messages = messages]
        OBVIOUS
      <4> HIDE DEF longer, messages
      <4>2. longer = [active |-> changes + 1, subject |-> archive[t].subject, messages |-> messages]
        BY <1>2, <4>1 DEF StoredThread
      <4> QED BY <1>1, <1>2, <3>3, <4>2 DEF StoredThread, messages
    <3>5. archive' = [archive EXCEPT ![t] = longer]
      BY <3>1 DEF posted
    <3> HIDE DEF longer
    <3> QED BY <1>1, <1>3, <3>4, <3>5 DEF ArchiveInv
  <2>2. CASE RemoveThread(t)
    <3>1. archive' = [u \in DOMAIN archive \ {t} |-> archive[u]]
      BY <2>2 DEF RemoveThread
    <3>2. IsFiniteSet(DOMAIN archive \ {t})
      BY <1>1, FS_Subset
    <3> QED BY <1>1, <1>3, <3>1, <3>2 DEF ArchiveInv
  <2>3. CASE RemoveMessage(t)
    <3>1. Len(archive[t].messages) > 1
      BY <2>3 DEF RemoveMessage
    <3>2. PICK i \in DOMAIN archive[t].messages :
            archive' = [archive EXCEPT ![t].messages = RemoveAt(@, i)]
      BY <2>3 DEF RemoveMessage
    <3> DEFINE left == RemoveAt(archive[t].messages, i)
               shorter == [archive[t] EXCEPT !.messages = left]
    <3>3. left \in Seq(Message) \ {<<>>}
      <4> DEFINE s == archive[t].messages
      <4>1. s \in Seq(Message) /\ i \in 1..Len(s) /\ Len(s) \in Nat
        BY <1>2 DEF StoredThread
      <4> HIDE DEF s
      <4>2. left = SubSeq(s, 1, i - 1) \o SubSeq(s, i + 1, Len(s))
        BY DEF s, RemoveAt
      <4>3. /\ SubSeq(s, 1, i - 1) \in Seq(Message) /\ Len(SubSeq(s, 1, i - 1)) = i - 1
            /\ SubSeq(s, i + 1, Len(s)) \in Seq(Message) /\ Len(SubSeq(s, i + 1, Len(s))) = Len(s) - i
        BY <4>1
      <4> DEFINE p == SubSeq(s, 1, i - 1)
                 q == SubSeq(s, i + 1, Len(s))
      <4> HIDE DEF left, p, q
      <4>4. left = p \o q /\ p \in Seq(Message) /\ q \in Seq(Message) /\ Len(p) = i - 1 /\ Len(q) = Len(s) - i
        BY <4>2, <4>3 DEF p, q
      <4>5. left \in Seq(Message) /\ Len(left) = Len(s) - 1
        BY <4>1, <4>4
      <4> QED BY <3>1, <4>1, <4>5 DEF s
    <3> HIDE DEF left
    <3>4. shorter \in StoredThread
      BY <1>2, <3>3 DEF StoredThread
    <3>5. archive' = [archive EXCEPT ![t] = shorter]
      BY <3>2 DEF left
    <3> HIDE DEF shorter
    <3> QED BY <1>1, <1>3, <3>4, <3>5 DEF ArchiveInv
  <2> QED BY <2>1, <2>2, <2>3
<1>5. PageInv'
  BY <1>3 DEF PageInv
<1>6. ServedIsPublic'
  BY <1>3 DEF ServedIsPublic, Served, WordsOfPage
<1>7. PagesAreWhole'
  BY <1>3, <1>4 DEF PagesAreWhole
<1> QED BY <1>4, <1>5, <1>6, <1>7

\* A page that is not answered yet is neither public nor whole.
LEMMA NotAnswered == page.pc # "answered" => ServedIsPublic /\ PagesAreWhole
BY DEF ServedIsPublic, Served, PagesAreWhole

\* The list of the threads: each of them once.
LEMMA ListIsRead == ASSUME PagesInv, ReadList PROVE PagesInv'
<1> DEFINE before(a, b) == \/ archive[a].active > archive[b].active
                           \/ archive[a].active = archive[b].active /\ a < b
           T == DOMAIN archive
           R == Pairs(T, before)
           newest == InOrder(T, R)
           N == Cardinality(T)
           len == IF Len(newest) > MaxThreads THEN MaxThreads ELSE Len(newest)
           items == SubSeq(newest, 1, len)
           got == [i \in DOMAIN items |-> [is |-> "waiting"]]
<1>1. page' = [pc |-> "hydrating", items |-> items, got |-> got] /\ archive' = archive /\ changes' = changes
  BY DEF ReadList
<1>2. /\ IsFiniteSet(T) /\ T \subseteq Int /\ ArchiveInv
      /\ \A a \in T : archive[a].active \in Int
  BY DiscussAssumption DEF PagesInv, ArchiveInv, StoredThread
<1>3. \A a, b \in T : <<a, b>> \in R <=> before(a, b)
  BY DEF Pairs
<1> HIDE DEF T, R
<1>4. Orders(R, T)
  BY <1>2, <1>3 DEF Orders
<1>5. /\ N \in Nat /\ newest \in [1..N -> T]
      /\ \A m, n \in 1..N : m < n => <<newest[m], newest[n]>> \in R
  BY <1>2, <1>4, InOrderLists
<1> HIDE DEF newest, N
<1>6. newest \in Seq(T) /\ Len(newest) = N /\ len \in 0..N
  BY <1>5, DiscussAssumption
<1> HIDE DEF len
<1>7. items = [i \in 1..len |-> newest[i]] /\ len \in Nat
  BY <1>5, <1>6
<1>8. ASSUME NEW i \in 1..len, NEW j \in 1..len, i # j PROVE newest[i] # newest[j]
  <2>1. i \in 1..N /\ j \in 1..N /\ newest[i] \in T /\ newest[j] \in T
    BY <1>5, <1>6
  <2>2. \A a \in T : <<a, a>> \notin R
    BY <1>4 DEF Orders
  <2>3. i < j \/ j < i
    BY <1>8
  <2> QED BY <1>5, <2>1, <2>2, <2>3
<1> HIDE DEF before, items
<1>9. DOMAIN items = 1..len /\ \A i \in 1..len : items[i] = newest[i] /\ items[i] \in Int
  <2>1. DOMAIN items = 1..len /\ \A i \in 1..len : items[i] = newest[i]
    BY <1>7
  <2>2. \A i \in 1..len : i \in 1..N
    BY <1>5, <1>6
  <2>3. \A i \in 1..N : newest[i] \in Int
    BY <1>2, <1>5
  <2> QED BY <2>1, <2>2, <2>3
<1>10. Hydrated(items, got)
  BY <1>7, <1>8, <1>9 DEF Hydrated
<1>11. /\ page'.pc = "hydrating" /\ page'.items = items /\ page'.got = got
       /\ page' = [pc |-> page'.pc, items |-> page'.items, got |-> page'.got]
  BY <1>1
<1> HIDE DEF got
<1>12. PageInv'
  BY <1>10, <1>11 DEF PageInv
<1>13. ServedIsPublic' /\ PagesAreWhole'
  BY <1>11 DEF ServedIsPublic, Served, PagesAreWhole
<1>14. ArchiveInv'
  BY <1>1, <1>2 DEF ArchiveInv
<1> QED BY <1>12, <1>13, <1>14 DEF PagesInv

\* What a read of the index brings belongs to the thread it was for.
LEMMA IndexIsRead ==
  ASSUME PagesInv, page.pc = "hydrating", NEW i \in DOMAIN page.got,
         ReadDetail(i) \/ ReadStarter(i) \/ DropThread(i)
  PROVE  PagesInv'
<1> DEFINE items == page.items
           got == page.got
<1>1. /\ page = [pc |-> "hydrating", items |-> items, got |-> got]
      /\ Hydrated(items, got) /\ ArchiveInv
  BY DEF PagesInv, PageInv
<1>2. i \in DOMAIN items
  BY <1>1 DEF Hydrated
<1>3. PICK what : Got(i, what) /\ what.is \in {"detail", "thread", "dropped"}
                  /\ (what.is # "dropped" => what.of.thread = items[i] /\ what.of.active \in Int)
  <2>1. CASE ReadDetail(i)
    <3>1. items[i] \in DOMAIN archive /\ archive[items[i]].active \in Int
      BY <1>1, <2>1 DEF ReadDetail, ArchiveInv, StoredThread
    <3>2. Got(i, [is |-> "detail", of |-> Detail(items[i])])
      BY <2>1 DEF ReadDetail
    <3>3. Detail(items[i]).thread = items[i] /\ Detail(items[i]).active = archive[items[i]].active
      BY DEF Detail
    <3> QED BY <3>1, <3>2, <3>3
  <2>2. CASE ReadStarter(i)
    <3>1. got[i].is = "detail"
      BY <2>2 DEF ReadStarter
    <3>2. PICK starter : Got(i, [is |-> "thread", of |-> MapThread(got[i].of, starter)])
      BY <2>2 DEF ReadStarter
    <3>3. got[i].of.thread = items[i] /\ got[i].of.active \in Int
      BY <1>1, <1>2, <3>1 DEF Hydrated
    <3>4. /\ MapThread(got[i].of, starter).thread = got[i].of.thread
          /\ MapThread(got[i].of, starter).active = got[i].of.active
      BY DEF MapThread
    <3> QED BY <3>2, <3>3, <3>4
  <2>3. CASE DropThread(i)
    BY <2>3 DEF DropThread
  <2> QED BY <2>1, <2>2, <2>3
<1> DEFINE read == [got EXCEPT ![i] = what]
<1>4. page' = [page EXCEPT !.got = read] /\ archive' = archive /\ changes' = changes
  BY <1>3 DEF Got
<1> HIDE DEF items, got
<1>5. Hydrated(items, read)
  BY <1>1, <1>2, <1>3 DEF Hydrated
<1> HIDE DEF read
<1>6. page' = [pc |-> "hydrating", items |-> items, got |-> read]
  BY <1>1, <1>4
<1>7. PageInv'
  BY <1>5, <1>6 DEF PageInv
<1>8. ServedIsPublic' /\ PagesAreWhole'
  BY <1>6 DEF ServedIsPublic, Served, PagesAreWhole
<1>9. ArchiveInv'
  BY <1>1, <1>4 DEF ArchiveInv
<1> QED BY <1>7, <1>8, <1>9 DEF PagesInv

\* What a read of a thread brings is a message of the archive's.
LEMMA ThreadIsRead ==
  ASSUME PagesInv, page.pc = "bodies", NEW i \in DOMAIN page.got, ReadEmail(i)
  PROVE  PagesInv'
<1> DEFINE got == page.got
<1>1. /\ page = [pc |-> "bodies", id |-> page.id, detail |-> page.detail, items |-> page.items, got |-> got]
      /\ Bodies(got) /\ ArchiveInv
  BY DEF PagesInv, PageInv
<1>2. archive' = archive /\ changes' = changes
  BY DEF ReadEmail, Got, Answer
<1>3. ArchiveInv'
  BY <1>1, <1>2 DEF ArchiveInv
<1>4. CASE \E m \in Stored(page.items[i]) : Got(i, [is |-> "email", of |-> m])
  <2>1. PICK m \in Stored(page.items[i]) : Got(i, [is |-> "email", of |-> m])
    BY <1>4
  <2>2. m \in Message
    <3>1. PICK t \in DOMAIN archive : m \in Range(archive[t].messages)
      BY DEF Stored
    <3>2. archive[t].messages \in Seq(Message)
      BY <1>1 DEF ArchiveInv, StoredThread
    <3> QED BY <3>1, <3>2 DEF Range
  <2> DEFINE read == [got EXCEPT ![i] = [is |-> "email", of |-> m]]
  <2>3. page' = [page EXCEPT !.got = read]
    BY <2>1 DEF Got
  <2> HIDE DEF got
  <2>4. Bodies(read)
    BY <1>1, <2>2 DEF Bodies, got
  <2> HIDE DEF read
  <2>5. page' = [pc |-> "bodies", id |-> page.id, detail |-> page.detail, items |-> page.items, got |-> read]
    BY <1>1, <2>3
  <2>6. PageInv'
    BY <2>4, <2>5 DEF PageInv
  <2>7. ServedIsPublic' /\ PagesAreWhole'
    BY <2>5 DEF ServedIsPublic, Served, PagesAreWhole
  <2> QED BY <1>3, <2>6, <2>7 DEF PagesInv
<1>5. CASE Answer(MissingPart)
  <2>1. page'.pc = "answered" /\ page'.is = "unavailable"
    BY <1>5 DEF Answer, MissingPart
  <2> QED BY <1>3, <2>1 DEF PagesInv, PageInv, ServedIsPublic, Served, PagesAreWhole
<1> QED BY <1>4, <1>5 DEF ReadEmail

\* The other steps of a page.
LEMMA PageGoesOn ==
  ASSUME PagesInv, ListFails \/ RequestIndex \/ RequestThread \/ ReadThread \/ ReadEmails \/ ThreadFails
  PROVE  PagesInv'
<1>1. archive' = archive /\ changes' = changes
  BY DEF ListFails, RequestIndex, RequestThread, ReadThread, ReadEmails, ThreadFails, Answer
<1>2. ArchiveInv /\ ArchiveInv'
  BY <1>1 DEF PagesInv, ArchiveInv
<1>3. CASE ListFails
  <2>1. page' = [pc |-> "answered", is |-> "empty", items |-> <<>>, got |-> <<>>]
    BY <1>3 DEF ListFails
  <2>2. page'.pc = "answered" /\ page'.is = "empty" /\ DOMAIN page'.got = {}
    BY <2>1
  <2> QED BY <1>2, <2>2 DEF PagesInv, PageInv, ServedIsPublic, Served, PagesAreWhole
<1>4. CASE RequestIndex \/ RequestThread
  <2>1. page'.pc \in {"listing", "thread"}
    BY <1>4 DEF RequestIndex, RequestThread
  <2> QED BY <1>2, <2>1 DEF PagesInv, PageInv, ServedIsPublic, Served, PagesAreWhole
<1>5. CASE ReadThread
  <2>1. \/ page'.pc = "emails"
        \/ page'.pc = "answered" /\ page'.is = "notFound" /\ page'.id = page.id /\ page.id \notin DOMAIN archive
    BY <1>5 DEF ReadThread, Answer
  <2> QED BY <1>1, <1>2, <2>1 DEF PagesInv, PageInv, ServedIsPublic, Served, PagesAreWhole
<1>6. CASE ReadEmails
  <2>1. CASE page.id \in DOMAIN archive
    <3> DEFINE messages == archive[page.id].messages
               items == [n \in DOMAIN messages |-> messages[n].id]
               got == [n \in DOMAIN messages |-> [is |-> "waiting"]]
    <3>1. page' = [pc |-> "bodies", id |-> page.id, detail |-> page.detail, items |-> items, got |-> got]
      BY <1>6, <2>1 DEF ReadEmails
    <3>2. messages \in Seq(Message)
      BY <1>2, <2>1 DEF ArchiveInv, StoredThread
    <3> HIDE DEF messages
    <3>3. Bodies(got)
      BY <3>2 DEF Bodies
    <3> HIDE DEF items, got
    <3> QED BY <1>2, <3>1, <3>3 DEF PagesInv, PageInv, ServedIsPublic, Served, PagesAreWhole
  <2>2. CASE page.id \notin DOMAIN archive
    <3>1. page'.pc = "answered" /\ page'.is = "unavailable"
      BY <1>6, <2>2 DEF ReadEmails, Answer, MissingPart
    <3> QED BY <1>2, <3>1 DEF PagesInv, PageInv, ServedIsPublic, Served, PagesAreWhole
  <2> QED BY <2>1, <2>2
<1>7. CASE ThreadFails
  <2>1. page'.pc = "answered" /\ page'.is = "unavailable"
    BY <1>7 DEF ThreadFails, Answer
  <2> QED BY <1>2, <2>1 DEF PagesInv, PageInv, ServedIsPublic, Served, PagesAreWhole
<1> QED BY <1>3, <1>4, <1>5, <1>6, <1>7

LEMMA PageIsServed == ASSUME PagesInv, ServeIndex \/ ServeThread PROVE PagesInv'
<1>1. archive' = archive /\ changes' = changes /\ ArchiveInv
  BY DEF ServeIndex, ServeThread, PagesInv
<1>2. ArchiveInv'
  BY <1>1 DEF ArchiveInv
<1>3. CASE ServeIndex
  <2>1. page' = Build(page.items, page.got) /\ page.pc = "hydrating" /\ \A i \in DOMAIN page.got : Ended(i)
    BY <1>3 DEF ServeIndex
  <2>2. Hydrated(page.items, page.got)
    BY <2>1 DEF PagesInv, PageInv
  <2>3. \A i \in DOMAIN page.got : page.got[i].is \in {"thread", "dropped"}
    BY <2>1, <2>2 DEF Hydrated, Ended
  <2>4. page'.pc = "answered"
    BY <2>1 DEF Build
  <2> QED BY <1>2, <2>1, <2>2, <2>3, <2>4, BuildServes DEF PagesInv, PageInv
<1>4. CASE ServeThread
  <2> DEFINE emails == [i \in DOMAIN page.got |-> page.got[i].of]
  <2>1. /\ page' = MapThreadDetail(page.detail, emails) /\ page.pc = "bodies"
        /\ \A i \in DOMAIN page.got : Ended(i)
    BY <1>4 DEF ServeThread
  <2>2. Bodies(page.got)
    BY <2>1 DEF PagesInv, PageInv
  <2>3. PICK len \in Nat : DOMAIN page.got = 1..len
    BY <2>2 DEF Bodies
  <2>4. DOMAIN emails = 1..len /\ \A i \in 1..len : emails[i] \in Message
    BY <2>1, <2>2, <2>3 DEF Bodies, Ended
  <2>5. page'.pc = "answered"
    BY <2>1 DEF MapThreadDetail
  <2> HIDE DEF emails
  <2> QED BY <1>2, <2>1, <2>4, <2>5, MapThreadDetailServes DEF PagesInv, PageInv
<1> QED BY <1>3, <1>4

THEOREM ArchiveInductive == ArchiveSpec => []PagesInv
<1>1. ASSUME PagesInv, [ArchiveNext]_archiveVars PROVE PagesInv'
  <2>1. CASE \E t \in DOMAIN archive : Post(t) \/ RemoveThread(t) \/ RemoveMessage(t)
    BY <1>1, <2>1, ArchiveChanges
  <2>2. CASE RequestIndex \/ RequestThread
    BY <1>1, <2>2, PageGoesOn
  <2>3. CASE Read
    <3>1. CASE ReadList
      BY <1>1, <3>1, ListIsRead
    <3>2. CASE ListFails \/ ReadThread \/ ReadEmails \/ ThreadFails
      BY <1>1, <3>2, PageGoesOn
    <3>3. CASE ServeIndex \/ ServeThread
      BY <1>1, <3>3, PageIsServed
    <3>4. CASE page.pc = "hydrating" /\ \E i \in DOMAIN page.got : ReadDetail(i) \/ ReadStarter(i) \/ DropThread(i)
      BY <1>1, <3>4, IndexIsRead
    <3>5. CASE page.pc = "bodies" /\ \E i \in DOMAIN page.got : ReadEmail(i)
      BY <1>1, <3>5, ThreadIsRead
    <3> QED BY <2>3, <3>1, <3>2, <3>3, <3>4, <3>5 DEF Read
  <2>4. CASE UNCHANGED archiveVars
    <3>1. archive' = archive /\ changes' = changes /\ page' = page
      BY <2>4 DEF archiveVars
    <3>2. ArchiveInv'
      BY <1>1, <3>1 DEF PagesInv, ArchiveInv
    <3>3. PageInv'
      BY <1>1, <3>1 DEF PagesInv, PageInv
    <3>4. ServedIsPublic'
      BY <1>1, <3>1 DEF PagesInv, ServedIsPublic, Served, WordsOfPage
    <3>5. PagesAreWhole'
      BY <1>1, <3>1 DEF PagesInv, PagesAreWhole
    <3> QED BY <3>2, <3>3, <3>4, <3>5 DEF PagesInv
  <2> QED BY <1>1, <2>1, <2>2, <2>3, <2>4 DEF ArchiveNext
<1> QED BY <1>1, ArchiveStarts, PTL DEF ArchiveSpec

\* No page that is served has a word by which someone could be reached.
THEOREM PagesArePublic == ArchiveSpec => []ServedIsPublic
BY ArchiveInductive, PTL DEF PagesInv

\* A page has all that was read, in order, or says truly why not.
THEOREM PagesAreServedWhole == ArchiveSpec => []PagesAreWhole
BY ArchiveInductive, PTL DEF PagesInv

-----------------------------------------------------------------------------
(* DiscussArchive: who says what in a body.                                 *)

\* Some words, each with the level at which it is quoted.
Levels(quote, words) == [i \in DOMAIN words |-> <<quote, Neutral(words[i])>>]

\* What a grouping has to show so far, the paragraph that is being gathered included.
Shown(acc) == Leveled(acc.blocks) \o Levels(acc.level, acc.buffer)

Blocks == [quoteLevel : Int, text : Seq(Word)]
Gathered == [blocks : Seq(Blocks), buffer : Seq(Word), level : Int]

\* What a sequence of lines says.
Spoken(lines) == FlattenSeq([k \in DOMAIN lines |-> Levels(lines[k].quote, lines[k].says)])

LEMMA LevelsOfWords ==
  ASSUME NEW quote \in Int, NEW words \in Seq(Word)
  PROVE  /\ Levels(quote, words) \in Seq(Int \X Word)
         /\ NeutralizeInlineAddresses(words) \in Seq(Word)
         /\ \A more \in Seq(Word) :
              Levels(quote, words \o more) = Levels(quote, words) \o Levels(quote, more)
<1>1. \A w \in Word : Neutral(w) \in Word
  BY DEF Neutral, Word
<1> HIDE DEF Word
<1>2. Levels(quote, words) \in Seq(Int \X Word) /\ NeutralizeInlineAddresses(words) \in Seq(Word)
  <2>1. /\ DOMAIN words = 1..Len(words) /\ Len(words) \in Nat
        /\ \A i \in 1..Len(words) : Neutral(words[i]) \in Word
    BY <1>1
  <2>2. Levels(quote, words) = [i \in 1..Len(words) |-> <<quote, Neutral(words[i])>>]
    BY <2>1 DEF Levels
  <2>3. NeutralizeInlineAddresses(words) = [i \in 1..Len(words) |-> Neutral(words[i])]
    BY <2>1 DEF NeutralizeInlineAddresses
  <2> QED BY <2>1, <2>2, <2>3
<1>3. ASSUME NEW more \in Seq(Word)
      PROVE  Levels(quote, words \o more) = Levels(quote, words) \o Levels(quote, more)
  <2> DEFINE L(w) == <<quote, Neutral(w)>>
             p == [i \in DOMAIN words |-> L(words[i])]
             q == [i \in DOMAIN more |-> L(more[i])]
             both == [i \in DOMAIN (words \o more) |-> L((words \o more)[i])]
             m == Len(words)
             n == Len(more)
  <2>1. Levels(quote, words) = p /\ Levels(quote, more) = q /\ Levels(quote, words \o more) = both
    BY DEF Levels
  <2> HIDE DEF L
  <2>2. m \in Nat /\ n \in Nat /\ DOMAIN words = 1..m /\ DOMAIN more = 1..n
    OBVIOUS
  <2>3. both = [i \in 1..m + n |-> IF i <= m THEN L(words[i]) ELSE L(more[i - m])]
    <3>1. DOMAIN (words \o more) = 1..m + n
      OBVIOUS
    <3>2. \A i \in 1..m + n : (words \o more)[i] = IF i <= m THEN words[i] ELSE more[i - m]
      OBVIOUS
    <3> HIDE DEF m, n
    <3> QED BY <3>1, <3>2
  <2>4. p \o q = [i \in 1..m + n |-> IF i <= m THEN p[i] ELSE q[i - m]]
    <3>1. p \in Seq({L(w) : w \in Word}) /\ q \in Seq({L(w) : w \in Word}) /\ Len(p) = m /\ Len(q) = n
      BY <2>2
    <3> HIDE DEF p, q, m, n
    <3>2. /\ p \o q \in Seq({L(w) : w \in Word}) /\ Len(p \o q) = m + n
          /\ \A i \in 1..m + n : (p \o q)[i] = IF i <= m THEN p[i] ELSE q[i - m]
      BY <3>1, ConcatProperties
    <3>3. p \o q \in [1..m + n -> {L(w) : w \in Word}]
      BY <3>2, LenProperties
    <3> QED BY <3>2, <3>3
  <2>5. \A i \in 1..m + n : /\ i <= m => p[i] = L(words[i])
                            /\ ~(i <= m) => q[i - m] = L(more[i - m])
    BY <2>2
  <2> HIDE DEF p, q, m, n
  <2> QED BY <2>1, <2>3, <2>4, <2>5
<1> QED BY <1>2, <1>3

\* One more block shows its words after those of the others.
LEMMA LeveledAppend ==
  ASSUME NEW blocks \in Seq(Blocks), NEW block \in Blocks
  PROVE  /\ Leveled(blocks) \in Seq(Int \X Word)
         /\ Leveled(Append(blocks, block))
              = Leveled(blocks) \o [i \in DOMAIN block.text |-> <<block.quoteLevel, block.text[i]>>]
<1> DEFINE Words(b) == [i \in DOMAIN b.text |-> <<b.quoteLevel, b.text[i]>>]
           T == Int \X Word
           s == [n \in DOMAIN blocks |-> Words(blocks[n])]
           t == [n \in DOMAIN Append(blocks, block) |-> Words(Append(blocks, block)[n])]
<1>1. ASSUME NEW b \in Blocks PROVE Words(b) \in Seq(T)
  <2>1. b.text \in Seq(Word) /\ b.quoteLevel \in Int
    BY DEF Blocks
  <2> HIDE DEF Word
  <2>2. DOMAIN b.text = 1..Len(b.text) /\ Len(b.text) \in Nat /\ \A i \in 1..Len(b.text) : b.text[i] \in Word
    BY <2>1
  <2> QED BY <2>1, <2>2
<1>2. Leveled(blocks) = FlattenSeq(s) /\ Leveled(Append(blocks, block)) = FlattenSeq(t)
  BY DEF Leveled
<1> HIDE DEF Words, T
<1>3. s \in Seq(Seq(T)) /\ t = Append(s, Words(block))
  <2> DEFINE n == Len(blocks)
  <2>1. n \in Nat /\ DOMAIN blocks = 1..n /\ \A i \in 1..n : blocks[i] \in Blocks
    OBVIOUS
  <2>2. DOMAIN Append(blocks, block) = 1..n + 1 /\ Append(blocks, block)[n + 1] = block
        /\ \A i \in 1..n : Append(blocks, block)[i] = blocks[i]
    OBVIOUS
  <2>3. s = [i \in 1..n |-> Words(blocks[i])] /\ \A i \in 1..n : Words(blocks[i]) \in Seq(T)
    BY <1>1, <2>1
  <2>4. s \in Seq(Seq(T)) /\ Len(s) = n
    <3> HIDE DEF n, s
    <3> QED BY <2>1, <2>3
  <2>5. t = [i \in 1..n + 1 |-> IF i <= n THEN Words(blocks[i]) ELSE Words(block)]
    <3>1. \A i \in 1..n + 1 : i \in 1..n \/ i = n + 1
      BY <2>1
    <3> HIDE DEF n
    <3> QED BY <2>1, <2>2, <3>1
  <2>6. Append(s, Words(block)) = [i \in 1..n + 1 |-> IF i <= n THEN s[i] ELSE Words(block)]
    <3> DEFINE w == Words(block)
    <3>1. w \in Seq(T)
      BY <1>1
    <3> HIDE DEF n, s, w
    <3>2. /\ Append(s, w) \in Seq(Seq(T)) /\ Len(Append(s, w)) = n + 1
          /\ \A i \in 1..n : Append(s, w)[i] = s[i]
          /\ Append(s, w)[n + 1] = w
      BY <2>4, <3>1, AppendProperties
    <3>3. DOMAIN Append(s, w) = 1..n + 1 /\ \A i \in 1..n + 1 : IF i <= n THEN i \in 1..n ELSE i = n + 1
      BY <2>1, <3>2
    <3>4. \A i \in 1..n + 1 : Append(s, w)[i] = IF i <= n THEN s[i] ELSE w
      BY <3>2, <3>3
    <3>5. Append(s, w) = [i \in 1..n + 1 |-> Append(s, w)[i]]
      <4>1. Append(s, w) \in [1..n + 1 -> Seq(T)]
        BY <3>2, LenProperties
      <4> QED BY <4>1
    <3> QED BY <3>4, <3>5 DEF w
  <2> HIDE DEF n, s, t
  <2> QED BY <2>1, <2>3, <2>4, <2>5, <2>6
<1> HIDE DEF s, t
<1>4. FlattenSeq(s) \in Seq(T) /\ FlattenSeq(t) = FlattenSeq(s) \o Words(block)
  BY <1>1, <1>3, FlattenAppend
<1> QED BY <1>2, <1>4 DEF Words, T

LEMMA LeveledEmpty == Leveled(<<>>) = <<>>
BY FlattenEmpty DEF Leveled

\* A paragraph that becomes a block shows what it showed.
LEMMA FlushShows ==
  ASSUME NEW acc \in Gathered
  PROVE  /\ Flush(acc) \in Gathered /\ Flush(acc).buffer = <<>> /\ Flush(acc).level = acc.level
         /\ Shown(Flush(acc)) = Shown(acc) /\ Shown(acc) \in Seq(Int \X Word)
         /\ Shown(Flush(acc)) = Leveled(Flush(acc).blocks)
<1> DEFINE block == [quoteLevel |-> acc.level, text |-> NeutralizeInlineAddresses(acc.buffer)]
           T == Int \X Word
<1>1. acc.blocks \in Seq(Blocks) /\ acc.buffer \in Seq(Word) /\ acc.level \in Int
  BY DEF Gathered
<1>2. /\ Levels(acc.level, acc.buffer) \in Seq(T)
      /\ NeutralizeInlineAddresses(acc.buffer) \in Seq(Word)
  BY <1>1, LevelsOfWords
<1>3. block \in Blocks
  BY <1>1, <1>2 DEF Blocks
<1>4. /\ Leveled(acc.blocks) \in Seq(T)
      /\ Leveled(Append(acc.blocks, block))
           = Leveled(acc.blocks) \o [i \in DOMAIN block.text |-> <<block.quoteLevel, block.text[i]>>]
  BY <1>1, <1>3, LeveledAppend
<1>5. [i \in DOMAIN block.text |-> <<block.quoteLevel, block.text[i]>>] = Levels(acc.level, acc.buffer)
  BY DEF Levels, NeutralizeInlineAddresses
<1>6. Shown(acc) \in Seq(T)
  BY <1>2, <1>4 DEF Shown
<1>7. \A quote \in Int : Levels(quote, <<>>) = <<>>
  BY DEF Levels
<1>8. Append(acc.blocks, block) \in Seq(Blocks)
  BY <1>1, <1>3
<1> HIDE DEF T
<1>9. CASE acc.buffer = <<>>
  <2>1. Flush(acc) = acc
    BY <1>9 DEF Flush
  <2>2. Shown(acc) = Leveled(acc.blocks) \o <<>>
    BY <1>1, <1>7, <1>9 DEF Shown
  <2> QED BY <1>4, <1>6, <1>9, <2>1, <2>2 DEF T
<1>10. CASE acc.buffer # <<>>
  <2> DEFINE blocks == Append(acc.blocks, block)
  <2>1. Flush(acc) = [acc EXCEPT !.blocks = blocks, !.buffer = <<>>]
    BY <1>10 DEF Flush
  <2> HIDE DEF blocks, block
  <2>2. Flush(acc) = [blocks |-> blocks, buffer |-> <<>>, level |-> acc.level]
    BY <2>1 DEF Gathered
  <2>3. Flush(acc) \in Gathered
    BY <1>1, <1>8, <2>2 DEF Gathered, blocks
  <2>4. Leveled(blocks) = Shown(acc)
    BY <1>4, <1>5 DEF Shown, blocks
  <2>5. Shown(Flush(acc)) = Leveled(blocks) \o <<>>
    <3>1. Flush(acc).blocks = blocks /\ Flush(acc).buffer = <<>> /\ Flush(acc).level = acc.level
      BY <2>2
    <3>2. Levels(acc.level, <<>>) = <<>>
      BY <1>1, <1>7
    <3> QED BY <3>1, <3>2 DEF Shown
  <2> QED BY <1>6, <2>2, <2>3, <2>4, <2>5 DEF T
<1> QED BY <1>9, <1>10 DEF T

\* A line shows what it says, at its own level, after what was there.
LEMMA TakeShows ==
  ASSUME NEW acc \in Gathered, NEW line \in Line, line.is = "blank" => line.says = <<>>
  PROVE  /\ Take(acc, line) \in Gathered
         /\ Shown(Take(acc, line)) = Shown(acc) \o Levels(line.quote, line.says)
<1> DEFINE T == Int \X Word
<1>1. line.quote \in Int /\ line.says \in Seq(Word) /\ Levels(line.quote, line.says) \in Seq(T)
  BY LevelsOfWords DEF Line
<1>2. /\ Flush(acc) \in Gathered /\ Flush(acc).buffer = <<>>
      /\ Shown(Flush(acc)) = Shown(acc) /\ Shown(acc) \in Seq(T)
  BY FlushShows
<1> HIDE DEF T
<1>3. CASE line.is = "blank"
  <2>1. Levels(line.quote, line.says) = <<>>
    BY <1>3 DEF Levels
  <2>2. Take(acc, line) = Flush(acc)
    BY <1>3 DEF Take
  <2> QED BY <1>2, <2>1, <2>2
<1>4. CASE line.is # "blank"
  <2> DEFINE ended == IF line.quote # acc.level THEN Flush(acc) ELSE acc
             buffer == ended.buffer \o line.says
  <2>1. /\ ended \in Gathered /\ Shown(ended) = Shown(acc)
        /\ ended.buffer # <<>> => ended.level = line.quote
    BY <1>2
  <2>2. Take(acc, line) = [ended EXCEPT !.level = line.quote, !.buffer = buffer]
    BY <1>4 DEF Take
  <2> HIDE DEF ended
  <2>3. ended.blocks \in Seq(Blocks) /\ ended.buffer \in Seq(Word) /\ ended.level \in Int
    BY <2>1 DEF Gathered
  <2>4. buffer \in Seq(Word)
    BY <1>1, <2>3
  <2>5. Levels(line.quote, buffer) = Levels(line.quote, ended.buffer) \o Levels(line.quote, line.says)
    BY <1>1, <2>3, LevelsOfWords
  <2>6. Levels(line.quote, ended.buffer) = Levels(ended.level, ended.buffer)
    <3>1. CASE ended.buffer = <<>>
      BY <3>1 DEF Levels
    <3>2. CASE ended.buffer # <<>>
      BY <2>1, <3>2
    <3> QED BY <3>1, <3>2
  <2> HIDE DEF buffer
  <2>7. Take(acc, line) = [blocks |-> ended.blocks, buffer |-> buffer, level |-> line.quote]
    BY <2>1, <2>2 DEF Gathered
  <2>8. Take(acc, line) \in Gathered
    BY <1>1, <2>3, <2>4, <2>7 DEF Gathered
  <2>9. Shown(Take(acc, line))
          = Leveled(ended.blocks) \o (Levels(ended.level, ended.buffer) \o Levels(line.quote, line.says))
    <3>1. /\ Take(acc, line).blocks = ended.blocks /\ Take(acc, line).buffer = buffer
          /\ Take(acc, line).level = line.quote
      BY <2>7
    <3> QED BY <2>5, <2>6, <3>1 DEF Shown
  <2>10. Leveled(ended.blocks) \in Seq(T)
    <3>1. <<>> \in Seq(Word)
      OBVIOUS
    <3>2. [quoteLevel |-> 0, text |-> <<>>] \in Blocks
      BY <3>1 DEF Blocks
    <3> QED BY <2>3, <3>2, LeveledAppend DEF T
  <2>11. Levels(ended.level, ended.buffer) \in Seq(T)
    BY <2>3, LevelsOfWords DEF T
  <2>12. Shown(ended) = Leveled(ended.blocks) \o Levels(ended.level, ended.buffer)
    BY DEF Shown
  <2>13. \A p, q, r \in Seq(T) : p \o (q \o r) = (p \o q) \o r
    OBVIOUS
  <2>14. Shown(Take(acc, line)) = Shown(ended) \o Levels(line.quote, line.says)
    <3> DEFINE a == Leveled(ended.blocks)
               b == Levels(ended.level, ended.buffer)
               c == Levels(line.quote, line.says)
    <3>1. Shown(Take(acc, line)) = a \o (b \o c) /\ Shown(ended) = a \o b
      BY <2>9, <2>12
    <3>2. a \in Seq(T) /\ b \in Seq(T) /\ c \in Seq(T)
      BY <1>1, <2>10, <2>11
    <3> HIDE DEF a, b, c
    <3>3. a \o (b \o c) = (a \o b) \o c
      BY <2>13, <3>2
    <3>4. Shown(Take(acc, line)) = Shown(ended) \o c
      BY <3>1, <3>3, Zenon
    <3> QED BY <3>4 DEF c
  <2> QED BY <2>1, <2>8, <2>14, Zenon
<1> QED BY <1>3, <1>4

\* A body ends where its signature begins.
LEMMA ReadLines ==
  ASSUME NEW lines \in Seq(Lines)
  PROVE  UpToSignature(lines) \in Seq(Lines)
<1> DEFINE Ends(n) == n < Len(lines) => lines[n + 1].is = "signature" /\ lines[n + 1].quote = 0
           Before(n) == \A k \in 1..n : lines[k].is # "signature" \/ lines[k].quote > 0
           T == {n \in 0..Len(lines) : Ends(n)}
<1>1. Len(lines) \in Nat /\ \A k \in 1..Len(lines) : lines[k] \in Lines /\ lines[k].quote \in 0..2
  BY ArchivesAssumption DEF Line
<1>2. T \in SUBSET Nat /\ Len(lines) \in T
  BY <1>1
<1>3. PICK n \in T : \A m \in T : n <= m
  <2> HIDE DEF T
  <2> QED BY <1>2, LeastOfNaturals
<1>4. ASSUME NEW k \in 1..n PROVE lines[k].is # "signature" \/ lines[k].quote > 0
  <2>1. PICK m \in 0..Len(lines) : m = k - 1 /\ m < n /\ m + 1 = k /\ m < Len(lines) /\ k \in 1..Len(lines)
    BY <1>1
  <2>2. m \notin T
    <3>1. n \in Nat
      OBVIOUS
    <3> HIDE DEF T
    <3> QED BY <1>3, <2>1, <3>1
  <2>3. ~(lines[k].is = "signature" /\ lines[k].quote = 0)
    BY <2>1, <2>2
  <2> QED BY <1>1, <2>1, <2>3
<1>5. n \in 0..Len(lines) /\ Before(n) /\ Ends(n)
  BY <1>4
<1> DEFINE last == CHOOSE m \in 0..Len(lines) : Before(m) /\ Ends(m)
<1>6. UpToSignature(lines) = SubSeq(lines, 1, last)
  BY DEF UpToSignature
<1> HIDE DEF Before, Ends
<1>7. last \in 0..Len(lines)
  BY <1>5
<1> HIDE DEF last
<1> QED BY <1>1, <1>6, <1>7

\* What is gathered of some lines shows what they say.
LEMMA GatheredShows ==
  ASSUME NEW lines \in Seq(Lines), NEW after,
         DOMAIN after = 0..Len(lines), after[0] = [blocks |-> <<>>, buffer |-> <<>>, level |-> -1],
         \A n \in 1..Len(lines) : after[n] = Take(after[n - 1], lines[n])
  PROVE  after[Len(lines)] \in Gathered /\ Shown(after[Len(lines)]) = Spoken(lines)
<1> DEFINE N == Len(lines)
           T == Int \X Word
           said(n) == [k \in 1..n |-> Levels(lines[k].quote, lines[k].says)]
           P == {n \in Nat : n <= N => after[n] \in Gathered /\ Shown(after[n]) = FlattenSeq(said(n))}
<1>1. N \in Nat /\ DOMAIN lines = 1..N
  OBVIOUS
<1>2. \A n \in 1..N : /\ lines[n] \in Line /\ (lines[n].is = "blank" => lines[n].says = <<>>)
                      /\ Levels(lines[n].quote, lines[n].says) \in Seq(T)
  <2> SUFFICES ASSUME NEW n \in 1..N
               PROVE  /\ lines[n] \in Line /\ (lines[n].is = "blank" => lines[n].says = <<>>)
                      /\ Levels(lines[n].quote, lines[n].says) \in Seq(T)
    OBVIOUS
  <2>1. lines[n] \in Line /\ (lines[n].is = "blank" => lines[n].says = <<>>)
    BY ArchivesAssumption
  <2>2. lines[n].quote \in Int /\ lines[n].says \in Seq(Word)
    BY <2>1 DEF Line
  <2> QED BY <2>1, <2>2, LevelsOfWords
<1> HIDE DEF T
<1>3. 0 \in P
  <2>1. after[0] \in Gathered
    BY DEF Gathered
  <2>2. Shown(after[0]) = <<>>
    BY LeveledEmpty DEF Shown, Levels
  <2>3. said(0) = <<>>
    OBVIOUS
  <2> HIDE DEF said
  <2> QED BY <2>1, <2>2, <2>3, FlattenEmpty
<1>4. ASSUME NEW n \in Nat, n \in P PROVE n + 1 \in P
  <2> SUFFICES ASSUME n + 1 <= N
               PROVE  after[n + 1] \in Gathered /\ Shown(after[n + 1]) = FlattenSeq(said(n + 1))
    <3> HIDE DEF said
    <3> QED OBVIOUS
  <2> DEFINE x == Levels(lines[n + 1].quote, lines[n + 1].says)
  <2>1. PICK m \in 1..N : m = n + 1 /\ m - 1 = n /\ n <= N
    BY <1>1
  <2>2. after[n + 1] = Take(after[n], lines[n + 1])
    BY <2>1
  <2>3. after[n] \in Gathered /\ Shown(after[n]) = FlattenSeq(said(n))
    <3> HIDE DEF said
    <3> QED BY <1>4, <2>1
  <2>4. after[n + 1] \in Gathered /\ Shown(after[n + 1]) = Shown(after[n]) \o x
    BY <1>2, <2>1, <2>2, <2>3, TakeShows
  <2>5. said(n) \in Seq(Seq(T)) /\ x \in Seq(T)
    <3>1. \A k \in 1..n : k \in 1..N
      BY <2>1
    <3>2. \A k \in 1..n : Levels(lines[k].quote, lines[k].says) \in Seq(T)
      BY <1>2, <3>1
    <3> DEFINE L(k) == Levels(lines[k].quote, lines[k].says)
    <3>3. x \in Seq(T)
      BY <1>2, <2>1
    <3>4. said(n) = [k \in 1..n |-> L(k)] /\ \A k \in 1..n : L(k) \in Seq(T)
      BY <3>2
    <3> DEFINE S == Seq(T)
    <3> HIDE DEF L, said, S
    <3>5. \A k \in 1..n : L(k) \in S
      BY <3>4 DEF S
    <3>6. [k \in 1..n |-> L(k)] \in Seq(S)
      BY <3>5
    <3> QED BY <3>3, <3>4, <3>6 DEF S
  <2>6. said(n + 1) = Append(said(n), x)
    <3> DEFINE L(k) == Levels(lines[k].quote, lines[k].says)
    <3>1. said(n) = [k \in 1..n |-> L(k)] /\ said(n + 1) = [k \in 1..n + 1 |-> L(k)] /\ x = L(n + 1)
      OBVIOUS
    <3> HIDE DEF L, said, x
    <3> QED BY <3>1
  <2> HIDE DEF said, x
  <2> QED BY <2>3, <2>4, <2>5, <2>6, FlattenAppend
<1>5. N \in P
  <2> HIDE DEF P
  <2> QED BY <1>1, <1>3, <1>4, NatInductionOfSet
<1>6. Spoken(lines) = FlattenSeq(said(N))
  BY <1>1 DEF Spoken
<1> HIDE DEF said
<1> QED BY <1>1, <1>5, <1>6

\* SanitizeBody gathers the lines, and ends the last paragraph.
LEMMA BodyGathers ==
  ASSUME NEW lines \in Seq(Lines), Unclosed(lines) = {}
  PROVE  Leveled(SanitizeBody(lines)) = Spoken(UpToSignature(lines))
<1> DEFINE read == UpToSignature(lines)
           N == Len(read)
           start == [blocks |-> <<>>, buffer |-> <<>>, level |-> -1]
           From(f, k) == f = [n \in 0..k |-> IF n = 0 THEN start ELSE Take(f[n - 1], read[n])]
           P == {k \in Nat : \E f : From(f, k)}
           after == CHOOSE f : From(f, N)
<1>1. read \in Seq(Lines) /\ N \in Nat
  BY ReadLines
<1>2. SanitizeBody(lines) = Flush(after[N]).blocks
  BY DEF SanitizeBody, StripTags
<1> HIDE DEF read
<1>3. 0 \in P
  <2>1. From([n \in 0..0 |-> start], 0)
    OBVIOUS
  <2> HIDE DEF From
  <2> QED BY <2>1
<1>4. ASSUME NEW k \in Nat, k \in P PROVE k + 1 \in P
  <2>1. PICK f : From(f, k)
    BY <1>4
  <2> DEFINE g == [n \in 0..k + 1 |-> IF n <= k THEN f[n] ELSE Take(f[k], read[n])]
  <2>2. \A n \in 0..k : f[n] = IF n = 0 THEN start ELSE Take(f[n - 1], read[n])
    BY <2>1
  <2> HIDE DEF start
  <2>3. ASSUME NEW n \in 0..k + 1 PROVE g[n] = IF n = 0 THEN start ELSE Take(g[n - 1], read[n])
    <3>1. CASE n = 0
      BY <2>2, <3>1
    <3>2. CASE n # 0 /\ n <= k
      <4>1. n - 1 \in 0..k /\ g[n - 1] = f[n - 1] /\ g[n] = f[n]
        BY <3>2
      <4> HIDE DEF g
      <4> QED BY <2>2, <3>2, <4>1
    <3>3. CASE n # 0 /\ ~(n <= k)
      <4>1. n - 1 = k /\ g[k] = f[k] /\ g[n] = Take(f[k], read[n])
        BY <3>3
      <4> HIDE DEF g
      <4> QED BY <3>3, <4>1
    <3> QED BY <3>1, <3>2, <3>3
  <2>4. From(g, k + 1)
    <3>1. g = [n \in 0..k + 1 |-> g[n]]
      OBVIOUS
    <3> HIDE DEF g
    <3> QED BY <2>3, <3>1
  <2> HIDE DEF From, g
  <2>5. k + 1 \in Nat
    OBVIOUS
  <2> QED BY <2>4, <2>5
<1>5. N \in P
  <2> HIDE DEF P
  <2> QED BY <1>1, <1>3, <1>4, NatInductionOfSet
<1>6. From(after, N)
  <2> HIDE DEF From
  <2> QED BY <1>5
<1> HIDE DEF after
<1>7. /\ DOMAIN after = 0..N /\ after[0] = start
      /\ \A n \in 1..N : after[n] = Take(after[n - 1], read[n])
  <2>1. DOMAIN after = 0..N /\ \A n \in 0..N : after[n] = IF n = 0 THEN start ELSE Take(after[n - 1], read[n])
    BY <1>6
  <2> HIDE DEF From, start
  <2> QED BY <1>1, <2>1
<1>8. after[N] \in Gathered /\ Shown(after[N]) = Spoken(read)
  BY <1>1, <1>7, GatheredShows
<1>9. Leveled(Flush(after[N]).blocks) = Shown(after[N])
  BY <1>8, FlushShows
<1> QED BY <1>2, <1>8, <1>9 DEF read

\* The reader shows each word of a body at the level of the one who wrote it.
THEOREM BodiesKeepTheirWriters == BodySpec => []WordsKeepTheirWriter
<1>1. BodyInit => body \in Seq(Lines)
  BY DEF BodyInit
<1>2. body \in Seq(Lines) /\ [BodyNext]_body => (body \in Seq(Lines))'
  BY DEF BodyNext
<1>3. body \in Seq(Lines) => WordsKeepTheirWriter
  BY BodyGathers DEF WordsKeepTheirWriter, Spoken, Levels
<1> QED BY <1>1, <1>2, <1>3, PTL DEF BodySpec

=============================================================================
