------------------------------- MODULE Drafts -------------------------------
(***************************************************************************)
(* The drafts of posts for the public list, and the gate that keeps        *)
(* protected names out of them: src/lib/naming-consent.ts, the scripts     *)
(* that hash the protected tokens, stage a draft, reconcile it with its    *)
(* post and validate the tree, and discuss-drafts-ci-scope.ts, which says  *)
(* what a machine without the key may skip.                                *)
(*                                                                         *)
(* The operator's machine holds a key and the tokens in plain text; the    *)
(* repository holds digests of the tokens under a key, and drafts.  A      *)
(* digest is the pair of its key and its token.  What a draft says is one  *)
(* thing: nothing of note, an address or a phone number, or a token, in    *)
(* its text or in its file name.  Any other machine, CI's too, has neither *)
(* key nor tokens.  A branch is merged after a check of it has passed, and *)
(* every edit asks for another check.                                      *)
(***************************************************************************)
EXTENDS Integers, FiniteSets

CONSTANTS
  Token,      \* what somebody may be called by
  Short,      \* tokens below MIN_TOKEN_LENGTH
  Long,       \* and beyond MAX_TOKEN_LENGTH
  Slug,       \* paths of drafts
  Branch,     \* working copies
  Key,        \* keys that may be generated
  None,
  MaxEdits    \* a bound on the edits of people

ASSUME DraftsAssumption ==
  /\ Short \subseteq Token /\ Long \subseteq Token /\ Short \intersect Long = {}
  /\ None \notin Token
  /\ MaxEdits \in Nat

VARIABLES
  key,       \* ~/.gftb/naming-consent.key of the operator's machine, if it exists
  plain,     \* ~/.gftb/naming-consent.plain, if it exists
  main,      \* the tree of the main branch
  branch,    \* each working copy: its base, its tree, and whether a check has passed
  edits,
  cleared,   \* history: drafts that a keyed check has passed, and rightly
  blind      \* history: why checks that passed could not see

vars == <<key, plain, main, branch, edits, cleared, blind>>

\* What a draft says that the gates tell apart, and where; initials, which no gate
\* looks for, are nothing of note.
Said == [in : {"nowhere", "contact"}, of : {None}]
          \union [in : {"text", "file"}, of : Token \ Short]
Draft == [said : Said, published : BOOLEAN, archiveUrl : BOOLEAN, notice : BOOLEAN]
Tree == [hashes : SUBSET (Key \X Token), drafts : [Slug -> Draft \union {None}]]

Init ==
  /\ key \in Key
  /\ \E t \in Token \ Short : plain = {t}
  /\ main = [hashes |-> {key} \X plain, drafts |-> [s \in Slug |-> None]]
  /\ branch = [b \in Branch |-> [base |-> main, tree |-> main, checked |-> FALSE]]
  /\ edits = 0
  /\ cleared = {}
  /\ blind = {}

-----------------------------------------------------------------------------
(* The gates.                                                              *)

\* validateHashList: an empty or malformed list is an error.
WellFormed(hashes) == hashes # {}

\* Every window whose length is within the bounds is looked up, under one's own key.
ContainsProtectedIdentity(said, k, hashes) ==
  /\ said.of \in Token \ (Short \union Long)
  /\ <<k, said.of>> \in hashes

\* A mistaken gate reads the text of a draft and not its name.
ConsentedByText(said, k, hashes) ==
  said.in # "contact" /\ (said.in = "text" => ~ContainsProtectedIdentity(said, k, hashes))

\* assertNamingConsent of text and name, assertNoBareEmailAddress, assertNoBarePhoneNumber.
Consented(said, k, hashes) ==
  said.in # "contact" /\ ~ContainsProtectedIdentity(said, k, hashes)

\* The frontmatter and the notice that belongs to a draft which is not published.
WellShaped(draft) ==
  IF draft.published THEN draft.archiveUrl ELSE draft.notice

-----------------------------------------------------------------------------
(* The operator's files.                                                   *)

Edit == edits < MaxEdits /\ edits' = edits + 1

\* The operator adds a token, or takes one away.
EnrollToken ==
  /\ Edit
  /\ \E t \in Token : plain' \in IF plain = None THEN {{t}} ELSE {plain \union {t}, plain \ {t}}
  /\ UNCHANGED <<key, main, branch, cleared, blind>>

\* Another machine, or a lost directory.
LoseFiles ==
  /\ Edit
  /\ plain' = None
  /\ key' \in {key, None}
  /\ UNCHANGED <<main, branch, cleared, blind>>

\* A changed tree has not been checked.
Put(b, tree) == branch' = [branch EXCEPT ![b].tree = tree, ![b].checked = FALSE]
PutDraft(b, s, draft) == Put(b, [branch[b].tree EXCEPT !.drafts[s] = draft])

KeysInUse ==
  {h[1] : h \in main.hashes \union UNION {branch[b].tree.hashes : b \in Branch}} \union {key}

\* generate-naming-consent-hashes: the key is made before the tokens are looked for.
GenerateHashes(b) ==
  /\ key' \in IF key = None THEN Key \ KeysInUse ELSE {key}
  /\ IF plain \in {None, {}} \/ plain \intersect Short # {}
     THEN UNCHANGED branch
     ELSE Put(b, [branch[b].tree EXCEPT !.hashes = {key'} \X plain])
  /\ UNCHANGED <<plain, main, edits, cleared, blind>>

-----------------------------------------------------------------------------
(* The tools and the hands that change a branch.                           *)

\* A mistaken tool does not ask whether a contact is given.
StageUnasked(b, s) ==
  /\ key # None
  /\ WellFormed(branch[b].tree.hashes)
  /\ \E said \in Said :
       /\ ~ContainsProtectedIdentity(said, key, branch[b].tree.hashes)
       /\ PutDraft(b, s, [said |-> said, published |-> FALSE, archiveUrl |-> FALSE, notice |-> TRUE])
  /\ Edit
  /\ UNCHANGED <<key, plain, main, cleared, blind>>

\* discuss-to-svx: buildDraft, and then the file, over a standing one if forced.
Stage(b, s) ==
  /\ key # None
  /\ WellFormed(branch[b].tree.hashes)
  /\ \E said \in Said :
       /\ Consented(said, key, branch[b].tree.hashes)
       /\ PutDraft(b, s, [said |-> said, published |-> FALSE, archiveUrl |-> FALSE, notice |-> TRUE])
  /\ Edit
  /\ UNCHANGED <<key, plain, main, cleared, blind>>

\* A draft as the generator writes it, and nothing else, can be reconciled.
Reconcilable(draft) ==
  draft # None /\ ~draft.published /\ ~draft.archiveUrl /\ draft.notice

\* discuss-reconcile, with the address of the post in the archive.
Reconcile(b, s) ==
  /\ key # None
  /\ WellFormed(branch[b].tree.hashes)
  /\ LET draft == branch[b].tree.drafts[s]
     IN /\ Reconcilable(draft)
        /\ Consented(draft.said, key, branch[b].tree.hashes)
        /\ PutDraft(b, s, [draft EXCEPT !.published = TRUE, !.archiveUrl = TRUE, !.notice = FALSE])
  /\ Edit
  /\ UNCHANGED <<key, plain, main, cleared, blind>>

\* What a person makes of a draft in one edit.
ByHand(draft) ==
  IF draft = None
  THEN [said : Said, published : {FALSE}, archiveUrl : {FALSE}, notice : BOOLEAN]
  ELSE {[draft EXCEPT !.said = said] : said \in Said}
         \union {[draft EXCEPT !.published = ~@], [draft EXCEPT !.archiveUrl = ~@],
                 [draft EXCEPT !.notice = ~@], None}

\* Somebody edits, moves or deletes a draft, or mangles the list.
EditByHand(b) ==
  /\ Edit
  /\ \/ \E s \in Slug : \E draft \in ByHand(branch[b].tree.drafts[s]) : PutDraft(b, s, draft)
     \/ Put(b, [branch[b].tree EXCEPT !.hashes = {}])
  /\ UNCHANGED <<key, plain, main, cleared, blind>>

-----------------------------------------------------------------------------
(* The check, on the operator's machine (with k and p) or another.         *)

\* A mistaken scope takes a machine without the key for one with nothing to check.
ScopeAlwaysSkips(k, resolved, changed) ==
  IF k # None THEN "run-full" ELSE IF ~resolved THEN "fail" ELSE "skip-loud"

\* decideIdentityGateScope.
IdentityGateScope(k, resolved, changed) ==
  CASE k # None -> "run-full"
    [] k = None /\ (~resolved \/ changed # {}) -> "fail"
    [] OTHER -> "skip-loud"

\* Paths that differ from the base reference, which is the main branch.
ChangedDraftPaths(b) == {s \in Slug : branch[b].tree.drafts[s] # main.drafts[s]}

\* verify-naming-consent-hashes: no drift, where both files are.
Verified(tree, k, p) ==
  k # None /\ p # None => tree.hashes = {k} \X (p \ Short)

\* validate-discuss-drafts, under a scope.
Validated(tree, k, scope) ==
  /\ scope # "fail"
  /\ \A s \in Slug : tree.drafts[s] # None =>
       /\ tree.drafts[s].said.in # "contact"
       /\ scope = "run-full" => Consented(tree.drafts[s].said, k, tree.hashes)
       /\ WellShaped(tree.drafts[s])

Passes(b, k, p, resolved, changed) ==
  LET tree == branch[b].tree
  IN /\ WellFormed(tree.hashes)
     /\ Validated(tree, k, IdentityGateScope(k, resolved, changed))
     /\ Verified(tree, k, p)

\* History: the drafts of a branch that name no token of its list.
Clears(b) ==
  {d \in Slug \X Draft :
     /\ branch[b].tree.drafts[d[1]] = d[2]
     /\ d[2].said.of \notin {h[2] : h \in branch[b].tree.hashes}}

\* A difference that git fails to compute reads as none; a key that did not make the
\* digests matches nothing, and too long a token is not looked for.
Unseen == {"the difference", "a digest"}

Blind(b, k, failed) ==
  {w \in Unseen :
     \/ w = "the difference" /\ failed /\ ChangedDraftPaths(b) # {}
     \/ /\ w = "a digest" /\ k # None
        /\ \E s \in Slug, h \in branch[b].tree.hashes :
             /\ branch[b].tree.drafts[s] # None
             /\ branch[b].tree.drafts[s].said.of = h[2]
             /\ h[1] # k \/ h[2] \in Long}

\* A check that fails changes nothing.
Check(b) ==
  /\ ~branch[b].checked
  /\ \E own \in BOOLEAN, resolved \in BOOLEAN, failed \in BOOLEAN :
       LET k == IF own THEN key ELSE None
           p == IF own THEN plain ELSE None
           passes == Passes(b, k, p, resolved, IF failed THEN {} ELSE ChangedDraftPaths(b))
       IN /\ failed => k = None /\ resolved
          /\ k # None => resolved
          /\ passes
          /\ cleared' = IF k # None THEN cleared \union Clears(b) ELSE cleared
          /\ blind' = blind \union Blind(b, k, failed)
  /\ branch' = [branch EXCEPT ![b].checked = TRUE]
  /\ UNCHANGED <<key, plain, main, edits>>

-----------------------------------------------------------------------------
(* Git.                                                                    *)

Mergeable(base, ours, theirs) == ours = base \/ theirs = base \/ ours = theirs
MergeOf(base, ours, theirs) == IF theirs = base THEN ours ELSE theirs

\* Each path takes the side that changed it; the branch starts anew.
Merge(b) ==
  /\ branch[b].checked
  /\ LET base == branch[b].base
         tree == branch[b].tree
     IN /\ Mergeable(base.hashes, main.hashes, tree.hashes)
        /\ \A s \in Slug : Mergeable(base.drafts[s], main.drafts[s], tree.drafts[s])
        /\ main' = [hashes |-> MergeOf(base.hashes, main.hashes, tree.hashes),
                    drafts |-> [s \in Slug |->
                      MergeOf(base.drafts[s], main.drafts[s], tree.drafts[s])]]
  /\ branch' = [branch EXCEPT ![b] = [base |-> main', tree |-> main', checked |-> FALSE]]
  /\ UNCHANGED <<key, plain, edits, cleared, blind>>

-----------------------------------------------------------------------------
Next ==
  \/ EnrollToken
  \/ LoseFiles
  \/ \E b \in Branch :
       \/ GenerateHashes(b) \/ EditByHand(b) \/ Check(b) \/ Merge(b)
       \/ \E s \in Slug : Stage(b, s) \/ Reconcile(b, s)

Spec == Init /\ [][Next]_vars

-----------------------------------------------------------------------------
(* Properties.                                                             *)

TypeOK ==
  /\ key \in Key \union {None}
  /\ plain \in (SUBSET Token) \union {None}
  /\ main \in Tree
  /\ branch \in [Branch -> [base : Tree, tree : Tree, checked : BOOLEAN]]
  /\ edits \in 0..MaxEdits
  /\ cleared \subseteq Slug \X Draft
  /\ blind \subseteq Unseen

\* Every draft on the main branch has been read by a check that had the key of its
\* list and names nothing that this list protected, whatever was edited, moved,
\* enrolled and merged in between and by whatever machine - unless a check that
\* passed could not see: the difference was not computed, the key was not the
\* list's, or a draft named a token too long to be looked for.
\* (discuss-drafts-ci-scope.ts: "every file that ever entered ... was verified by a
\* keyed run at some point".)
OnlyClearedDraftsAreMerged ==
  blind # {} \/ \A s \in Slug : main.drafts[s] # None => <<s, main.drafts[s]>> \in cleared

\* The same without the first exception: a difference that git could not compute is not
\* taken for none.  (discuss-drafts-ci-scope.ts of an input that is false "if the diff
\* itself couldn't be computed at all": "Fails closed rather than treating "couldn't
\* check" the same as "checked, nothing changed".)  The code sets that input when there
\* is no base reference, and lets a git diff that fails read as an empty list.
NothingPassesUncompared ==
  "a digest" \in blind \/ \A s \in Slug : main.drafts[s] # None => <<s, main.drafts[s]>> \in cleared

\* The tools ask of a draft all that the check will ask of it: neither staging one nor
\* reconciling it makes a branch fail that passed on the operator's machine.
ToolsKeepTheCheck ==
  [][\A b \in Branch :
       /\ \E s \in Slug : Stage(b, s) \/ Reconcile(b, s)
       /\ Passes(b, key, plain, TRUE, {})
       => LET after == branch'[b].tree
          IN WellFormed(after.hashes) /\ Verified(after, key', plain')
               /\ Validated(after, key', "run-full")]_vars

=============================================================================
