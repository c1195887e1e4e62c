------------------------------ MODULE LeakScan ------------------------------
(***************************************************************************)
(* The leak scan of one text: scripts/lib/leak-scan.mjs, which finds       *)
(* protected values in it and prints an excerpt for each.  What its runners *)
(* make of the files they are given is TreeScan's.                         *)
(*                                                                         *)
(* A text is a sequence of characters; case folds one onto another.  A     *)
(* rule, a denied literal, an unreviewed host and an unreviewed mailbox    *)
(* are all values that a text must not have: what tells them apart is the  *)
(* shape they match, and only their order is kept.  The printed excerpt is *)
(* the set of positions of the text that can be read in it.                *)
(***************************************************************************)
EXTENDS Integers, FiniteSets, Sequences, Ordering

CONSTANTS
  Char, Lower(_),
  Value,        \* protected values, in the order in which they are looked for
  Radius,       \* characters of context on either side
  MaxText       \* a bound on the length of a text

ASSUME LeakScanAssumption ==
  /\ Value \in Seq(Seq(Char) \ {<<>>})
  /\ Radius \in Nat /\ MaxText \in Nat

VARIABLE text   \* a text that is scanned

scanVars == <<text>>

-----------------------------------------------------------------------------
(* Matches.                                                                *)

LowerCase(txt) == [i \in DOMAIN txt |-> Lower(txt[i])]

\* The value stands at i, in whatever case.
StandsAt(txt, value, i) ==
  /\ i + Len(value) - 1 <= Len(txt)
  /\ \A n \in DOMAIN value : Lower(txt[i + n - 1]) = Lower(value[n])

Span(i, value) == i..i + Len(value) - 1

\* matchAll, indexOf and replace go from left to right and never look back into a
\* match; what has been redacted (not free) matches nothing.
Starts(txt, value, free) ==
  LET upTo[i \in 0..Len(txt)] ==
        IF i = 0 THEN {}
        ELSE LET starts == upTo[i - 1]
             IN IF /\ StandsAt(txt, value, i)
                   /\ Span(i, value) \subseteq free
                   /\ \A k \in starts : i \notin Span(k, value)
                THEN starts \union {i}
                ELSE starts
  IN upTo[Len(txt)]

\* Pass 1: every match of everything.
Raw(txt) ==
  UNION {{[index |-> i, value |-> SubSeq(txt, i, i + Len(Value[v]) - 1)] :
            i \in Starts(txt, Value[v], DOMAIN txt)} : v \in DOMAIN Value}

-----------------------------------------------------------------------------
(* The excerpt of one match.                                               *)

\* The values that occur in the text, in their order, each in one spelling, the
\* match's own first.
ProtectedValues(txt, entry) ==
  <<entry.value>> \o
    Selected(Value, {v \in DOMAIN Value : /\ Starts(txt, Value[v], DOMAIN txt) # {}
                                          /\ LowerCase(Value[v]) # LowerCase(entry.value)})

NaiveWindow(txt, entry) ==
  {i \in DOMAIN txt : i >= entry.index - Radius
                       /\ i <= entry.index + Len(entry.value) - 1 + Radius}

Hull(txt, positions) == {k \in DOMAIN txt : \E a, b \in positions : a <= k /\ k <= b}

\* One value opens the window for each match of it that overlaps, in turn.
Opened(txt, value, window) ==
  LET starts == Starts(txt, value, DOMAIN txt)
      upTo[i \in 0..Len(txt)] ==
        IF i = 0 THEN window
        ELSE LET w == upTo[i - 1]
             IN IF i \in starts /\ Span(i, value) \intersect w # {}
                THEN Hull(txt, w \union Span(i, value))
                ELSE w
  IN upTo[Len(txt)]

\* A mistaken window cuts through what stands at its ends.
ExpandedNowhere(txt, values, window) == window

Expanded(txt, values, window) ==
  LET after[n \in 0..Len(values)] ==
        IF n = 0 THEN window ELSE Opened(txt, values[n], after[n - 1])
  IN after[Len(values)]

\* One pass of replacement: what of the window can still be read after it.
Redacted(txt, value, free) ==
  free \ UNION {Span(i, value) : i \in Starts(txt, value, free)}

\* Every pass, one value after the other.
Readable(txt, values, window) ==
  LET after[n \in 0..Len(values)] ==
        IF n = 0 THEN window ELSE Redacted(txt, values[n], after[n - 1])
  IN after[Len(values)]

LongestFirst(values) ==
  LET before(m, n) == \/ Len(values[m]) > Len(values[n])
                      \/ Len(values[m]) = Len(values[n]) /\ m < n
  IN Arranged(values, Pairs(DOMAIN values, before))

\* excerptAt: the positions that are printed.
ExcerptAt(txt, entry) ==
  LET values == ProtectedValues(txt, entry)
  IN Readable(txt, LongestFirst(values), Expanded(txt, values, NaiveWindow(txt, entry)))

-----------------------------------------------------------------------------
(* What is scanned: a text of any characters, written one after the other. *)

ScanInit == text = <<>>

Write == Len(text) < MaxText /\ \E c \in Char : text' = Append(text, c)

ScanSpec == ScanInit /\ [][Write]_scanVars

-----------------------------------------------------------------------------
(* Properties.                                                             *)

Occurrences(txt) ==
  {o \in (DOMAIN txt) \X (DOMAIN Value) : StandsAt(txt, Value[o[2]], o[1])}
Where(o) == Span(o[1], Value[o[2]])

\* Two occurrences that overlap and of which neither contains the other.
Entangled(txt) ==
  \E o, p \in Occurrences(txt) :
    /\ Where(o) \intersect Where(p) # {}
    /\ ~(Where(o) \subseteq Where(p)) /\ ~(Where(p) \subseteq Where(o))

\* A printed excerpt has no character of any protected value, of the finding's own
\* or another, in any case, also none cut off by the window's ends, unless two values
\* partly overlap in the text; and even then no value can be read as a whole.
\* (excerptAt: it must not print the needle "and not even a truncated fragment of one".)
ExcerptsHideValues ==
  \A entry \in Raw(text) :
    LET printed == ExcerptAt(text, entry)
    IN \A o \in Occurrences(text) :
         /\ ~(Where(o) \subseteq printed)
         /\ ~Entangled(text) => Where(o) \intersect printed = {}

=============================================================================
