------------------------------- MODULE MCWeb --------------------------------
(* An instance for TLC of what the web process answers: the pages of the    *)
(* build, the pages of the archive, and the sessions of its requests.       *)
EXTENDS DiscussArchive, WebServer, SessionTime, TLC

-----------------------------------------------------------------------------
(* DiscussArchive.                                                         *)

Says(w) == [quote |-> 0, is |-> "text", says |-> <<w>>]
Quotes(n, w) == [quote |-> n, is |-> "text", says |-> <<w>>]
Others(is) == [quote |-> 0, is |-> is, says |-> IF is = "attribution" THEN <<"word">> ELSE <<>>]

\* Lines that are quoted or not, broken or not, signed or not.
MCLines ==
  {Says("lessThan"), Says("address"), Quotes(1, "theirs"), Quotes(2, "obfuscated"),
   [Others("blank") EXCEPT !.quote = 1]} \union {Others(is) : is \in {"blank", "signature", "attribution"}}

MCMessages ==
  {[sender |-> s, body |-> <<Says("lessThan"), Others("blank"), Quotes(1, w)>>] :
     <<s, w>> \in {<<"address", "obfuscated">>, <<Blank, "list">>, <<"word", "listCased">>,
                   <<"keyholders", "theirs">>, <<"spelled", "word">>, <<"word", "keyholders">>}}

Plain(id) == [id |-> id, date |-> 0, sender |-> "word", body |-> <<Says("word")>>]
First(w) == [id |-> -3, date |-> 0, sender |-> w, body |-> <<Says(w)>>]

\* Three threads, of which the index keeps two; the second, of two messages,
\* begins with any word.
MCArchives ==
  {(1 :> [active |-> 0, subject |-> "word", messages |-> <<Plain(-1)>>])
     @@ (2 :> [active |-> 0, subject |-> s, messages |-> <<First(w), Plain(-2)>>])
     @@ (3 :> [active |-> 0, subject |-> "word", messages |-> <<Plain(-4)>>]) :
     <<s, w>> \in {<<"address", "word">>, <<Blank, "word">>, <<"word", "aside">>, <<"word", "keyholders">>}}

-----------------------------------------------------------------------------
(* WebServer: two contents of one size; a page, a file that a route may     *)
(* shadow, and assets named for their contents.                            *)

CONSTANTS b1, b2

MCSize == [b \in Body |-> 7]

At(tree, name, form) == [tree |-> tree, name |-> name, form |-> form]
MCBuilds ==
  {(At("prerendered", "about", f) :> x) @@ (At("client", "robots", "plain") :> x)
     @@ (At("client", x, "hashed") :> x) : f \in {"page", "index"}, x \in Body}
    \union {(At("client", "robots", "plain") :> b1) @@ (At("prerendered", "robots", "plain") :> b2)}

MCPath == {<<"about", "bare">>, <<"robots", "file">>, <<b1, "file">>, <<"access", "bare">>, <<"apply", "bare">>}

MCOffset == {-1, 0, 1}

MCArguments == {<<>>, <<"web">>, <<"--help">>}

-----------------------------------------------------------------------------
(* The four share no state: a behaviour is one of theirs.                 *)

Symmetry == Permutations(Container) \union Permutations(Id)

VARIABLE part

allVars == <<archiveVars, body, webVars, timeVars, part>>

AllInit ==
  /\ ArchiveInit /\ BodyInit /\ WebInit /\ TimeInit /\ part \in {"pages", "body", "build", "time"}
  /\ part = "pages" \/ archive = CHOOSE a \in Archives : TRUE
  /\ part = "build" \/ image = CHOOSE site \in Builds : TRUE
  /\ part = "time" \/ zone = 0

AllNext ==
  \/ part = "pages" /\ ArchiveNext /\ UNCHANGED <<body, webVars, timeVars, part>>
  \/ part = "body" /\ BodyNext /\ UNCHANGED <<archiveVars, webVars, timeVars, part>>
  \/ part = "build" /\ WebNext /\ UNCHANGED <<archiveVars, body, timeVars, part>>
  \/ part = "time" /\ TimeNext /\ UNCHANGED <<archiveVars, body, webVars, part>>

AllSpec == AllInit /\ [][AllNext]_allVars

=============================================================================
