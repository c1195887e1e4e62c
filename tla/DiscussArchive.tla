--------------------------- MODULE DiscussArchive ---------------------------
(***************************************************************************)
(* The public reader of the discuss@ archive:                              *)
(* src/lib/server/discuss-archive.ts and the loads of src/routes/discuss.  *)
(* A page is rendered from several reads of HyperKitty, some at once,      *)
(* while people post and moderators remove; any read can fail.  What was   *)
(* read is mapped, neutralized and then served whole, or not at all.       *)
(*                                                                         *)
(* A text is a sequence of words, of the kinds that the filters and the    *)
(* gates tell apart; a body is a sequence of lines.                        *)
(***************************************************************************)
EXTENDS Integers, Sequences, FiniteSets, SequencesExt, Ordering

CONSTANTS
  Thread,      \* thread ids, numbers in the order of localeCompare
  Archives,    \* the archives to begin with: what each thread holds
  Messages,    \* what people post
  Lines,       \* lines of a body, of more kinds than those that are posted
  MaxLines,    \* bound of the model: lines of a body
  MaxThreads,  \* MAX_THREADS
  Concurrency, \* HYDRATE_CONCURRENCY
  ExcerptMax,  \* EXCERPT_MAX, in words
  MaxChanges   \* bound of the model: posts and removals

ASSUME DiscussAssumption ==
  /\ Thread \subseteq Nat
  /\ MaxThreads \in Nat \ {0} /\ Concurrency \in Nat \ {0}
  /\ ExcerptMax \in Nat /\ MaxChanges \in Nat /\ MaxLines \in Nat

VARIABLES
  archive, \* for each thread, what HyperKitty holds; or Gone
  changes, \* how often that changed, which is also the clock of the posts
  page,    \* the page that is being rendered, and what it has read so far
  body     \* any body, read for itself

archiveVars == <<archive, changes, page>>

-----------------------------------------------------------------------------
(* Words, and what becomes of them.                                        *)

Word == {"word", "theirs", "list", "listCased", "address", "obfuscated", "neutral",
         "at", "aside", "keyholders", "spelled", "lessThan"}
Blank == "blank"       \* no text where one is due: an empty subject or sender
Anonymous == "word"    \* and the local part that stands for an address

\* An address, or its "(a)" form, keeps its local part only.  The list's own
\* address passes in any case, and an at sign outside an address is no address;
\* the private list, without its domain, is still named.
Neutral(w) == IF w \in {"address", "obfuscated"} THEN "neutral" ELSE w
NeutralizeInlineAddresses(text) == [i \in DOMAIN text |-> Neutral(text[i])]

\* What has an at sign, or "(a)" between two words.
LooksLikeEmail(w) == w \in {"list", "listCased", "address", "obfuscated", "at", "aside", "keyholders"}

SafeDisplayName(w) == IF w = Blank \/ LooksLikeEmail(w) THEN Anonymous ELSE w

\* A mistaken gate that trusts the neutralized form of any address.
PublicSafeUnlessRaw(words) ==
  words \intersect {"address", "obfuscated", "listCased", "at", "aside"} = {}

\* assertSnapshotIsPublicSafe, assertThreadDetailIsPublicSafe: the private list in
\* any form, an "(a)", or an at sign that is neither neutralized nor the list's.
PublicSafe(words) ==
  words \intersect {"keyholders", "spelled", "address", "obfuscated", "listCased", "at", "aside"} = {}

-----------------------------------------------------------------------------
(* Bodies.                                                                 *)

\* A line: how deep it quotes, what it is, and what it says.
Line == [quote : 0..2, is : {"text", "blank", "signature", "attribution"}, says : Seq(Word)]

BeforeLessThan(text) ==
  SubSeq(text, 1, CHOOSE n \in 0..Len(text) : n + 1 \in DOMAIN text /\ text[n + 1] = "lessThan")

\* Tags are dropped before lines are looked at, so a "<" that closes no tag takes
\* everything up to the next ">", which is the next quoted line's own mark.
Unclosed(lines) ==
  {i \in DOMAIN lines : /\ \E n \in DOMAIN lines[i].says : lines[i].says[n] = "lessThan"
                        /\ \E j \in DOMAIN lines : j > i /\ lines[j].quote > 0}
StripTags(lines) ==
  IF Unclosed(lines) = {} THEN lines
  ELSE LET i == CHOOSE k \in Unclosed(lines) : \A n \in Unclosed(lines) : k <= n
           j == CHOOSE k \in DOMAIN lines :
                  k > i /\ lines[k].quote > 0 /\ \A n \in i + 1..k - 1 : lines[n].quote = 0
       IN SubSeq(lines, 1, i - 1)
            \o <<[lines[i] EXCEPT !.says = BeforeLessThan(@) \o lines[j].says]>>
            \o SubSeq(lines, j + 1, Len(lines))

UpToSignature(lines) ==
  SubSeq(lines, 1, CHOOSE n \in 0..Len(lines) :
                     /\ \A k \in 1..n : lines[k].is # "signature" \/ lines[k].quote > 0
                     /\ n < Len(lines) => lines[n + 1].is = "signature" /\ lines[n + 1].quote = 0)

SanitizeExcerpt(lines) ==
  LET read == UpToSignature(StripTags(lines))
      kept == Selected(read, {i \in DOMAIN read : read[i].quote = 0 /\ read[i].is # "attribution"})
      text == NeutralizeInlineAddresses(FlattenSeq([i \in DOMAIN kept |-> kept[i].says]))
  IN SubSeq(text, 1, IF Len(text) > ExcerptMax THEN ExcerptMax ELSE Len(text))

\* The paragraph that is being gathered becomes a block.
Flush(acc) ==
  IF acc.buffer = <<>> THEN acc
  ELSE [acc EXCEPT !.blocks = Append(@, [quoteLevel |-> acc.level,
                                         text |-> NeutralizeInlineAddresses(acc.buffer)]),
                   !.buffer = <<>>]

\* A mistaken grouping ends a paragraph at blank lines only.
TakeRegardlessOfLevel(acc, line) ==
  IF line.is = "blank" THEN Flush(acc)
  ELSE [acc EXCEPT !.level = line.quote, !.buffer = @ \o line.says]

Take(acc, line) ==
  IF line.is = "blank" THEN Flush(acc)
  ELSE LET ended == IF line.quote # acc.level THEN Flush(acc) ELSE acc
       IN [ended EXCEPT !.level = line.quote, !.buffer = @ \o line.says]

SanitizeBody(lines) ==
  LET read == UpToSignature(StripTags(lines))
      after[n \in 0..Len(read)] ==
        IF n = 0 THEN [blocks |-> <<>>, buffer |-> <<>>, level |-> -1]
                 ELSE Take(after[n - 1], read[n])
  IN Flush(after[Len(read)]).blocks

-----------------------------------------------------------------------------
(* What is made of the reads.                                              *)

WordsOf(text) == {text[i] : i \in DOMAIN text}

\* What the thread resource says; starting_email is the id of a message.
Detail(t) ==
  [thread |-> t, subject |-> archive[t].subject, active |-> archive[t].active,
   starter |-> archive[t].messages[1].id]

MapThread(detail, starter) ==
  [thread |-> detail.thread, active |-> detail.active, subject |-> Neutral(detail.subject),
   starter |-> SafeDisplayName(starter.sender), excerpt |-> SanitizeExcerpt(starter.body)]

MapMessage(email) ==
  [id |-> email.id, date |-> email.date, sender |-> SafeDisplayName(email.sender),
   body |-> SanitizeBody(email.body)]

\* sortThreads; and the order of the list, before anything is hydrated.
MoreActive(a, b) == a.active > b.active \/ (a.active = b.active /\ a.thread < b.thread)
SortThreads(threads) ==
  LET before(i, j) == \/ MoreActive(threads[i], threads[j])
                      \/ ~MoreActive(threads[j], threads[i]) /\ i < j
  IN Arranged(threads, Pairs(DOMAIN threads, before))

Earlier(a, b) == a.date < b.date \/ (a.date = b.date /\ a.id < b.id)
SortMessages(messages) ==
  LET before(i, j) == \/ Earlier(messages[i], messages[j])
                      \/ ~Earlier(messages[j], messages[i]) /\ i < j
  IN Arranged(messages, Pairs(DOMAIN messages, before))

WordsOfThread(thread) == {thread.subject, thread.starter} \union WordsOf(thread.excerpt)
WordsOfMessage(message) ==
  {message.sender} \union UNION {WordsOf(message.body[b].text) : b \in DOMAIN message.body}
WordsOfPage ==
  CASE page.is = "index" -> UNION {WordsOfThread(page.threads[i]) : i \in DOMAIN page.threads}
    [] page.is = "thread" -> {page.subject} \union
                               UNION {WordsOfMessage(page.messages[i]) : i \in DOMAIN page.messages}
    [] OTHER -> {}

\* The shape asks for a subject, the gate for safe words.
Acceptable(subjects, words) == Blank \notin subjects /\ PublicSafe(words)

\* A mistaken index is served only if every thread could be read.
BuildAllOrNothing(items, got) ==
  LET whole == \A i \in DOMAIN got : got[i].is = "thread"
      ok == whole /\ Acceptable({got[i].of.subject : i \in DOMAIN got},
                                UNION {WordsOfThread(got[i].of) : i \in DOMAIN got})
  IN IF ok THEN [pc |-> "answered", is |-> "index", items |-> items, got |-> got,
                 threads |-> SortThreads([i \in DOMAIN got |-> got[i].of])]
     ELSE [pc |-> "answered", is |-> "empty", items |-> items, got |-> got]

\* The index of the threads that could be read; the empty one if there was none,
\* or if a gate refuses any of them.
Build(items, got) ==
  LET read == Selected(got, {i \in DOMAIN got : got[i].is = "thread"})
      threads == SortThreads([i \in DOMAIN read |-> read[i].of])
      ok == /\ got # <<>> => read # <<>>
            /\ Acceptable({read[i].of.subject : i \in DOMAIN read},
                          UNION {WordsOfThread(read[i].of) : i \in DOMAIN read})
  IN IF ok THEN [pc |-> "answered", is |-> "index", items |-> items, got |-> got,
                 threads |-> threads]
     ELSE [pc |-> "answered", is |-> "empty", items |-> items, got |-> got]

\* One thread, or nothing of it.
MapThreadDetail(detail, emails) ==
  LET messages == SortMessages([i \in DOMAIN emails |-> MapMessage(emails[i])])
      subject == Neutral(detail.subject)
      ok == /\ messages # <<>>
            /\ Acceptable({subject}, {subject} \union
                            UNION {WordsOfMessage(messages[i]) : i \in DOMAIN messages})
  IN IF ok THEN [pc |-> "answered", is |-> "thread", id |-> detail.thread, subject |-> subject,
                 messages |-> messages, emails |-> emails]
     ELSE [pc |-> "answered", is |-> "unavailable", id |-> detail.thread]

-----------------------------------------------------------------------------
(* The archive.                                                            *)

Message == [id : Int, date : Int, sender : Word \union {Blank}, body : Seq(Line)]
StoredThread == [active : Int, subject : Word \union {Blank}, messages : Seq(Message) \ {<<>>}]

\* A thread has a message; a blank line says nothing.
ASSUME ArchivesAssumption ==
  /\ \A a \in Archives : /\ IsFiniteSet(DOMAIN a) /\ DOMAIN a \subseteq Thread
                         /\ a \in [DOMAIN a -> StoredThread]
  /\ \A m \in Messages : m.sender \in Word \union {Blank} /\ m.body \in Seq(Line)
  /\ \A line \in Lines : line \in Line /\ (line.is = "blank" => line.says = <<>>)

ArchiveInit ==
  /\ archive \in Archives
  /\ changes = 0
  /\ page = [pc |-> "off"]

Change ==
  /\ changes < MaxChanges
  /\ changes' = changes + 1
  /\ UNCHANGED page

\* A message says itself when it was sent.
Post(t) ==
  /\ \E m \in Messages, date \in {-1, changes + 1} :
       archive' = [archive EXCEPT ![t].active = changes + 1,
                                  ![t].messages = Append(@, [id |-> changes + 1, date |-> date,
                                                             sender |-> m.sender, body |-> m.body])]
  /\ Change

RemoveThread(t) ==
  /\ archive' = [u \in DOMAIN archive \ {t} |-> archive[u]]
  /\ Change

RemoveMessage(t) ==
  /\ Len(archive[t].messages) > 1
  /\ \E i \in DOMAIN archive[t].messages :
       archive' = [archive EXCEPT ![t].messages = RemoveAt(@, i)]
  /\ Change

-----------------------------------------------------------------------------
(* The index.                                                              *)

Idle == page.pc \in {"off", "answered"}

RequestIndex ==
  /\ Idle
  /\ page' = [pc |-> "listing"]
  /\ UNCHANGED <<archive, changes>>

\* The most active threads of the list, as many as are kept, each of them to be read.
ReadList ==
  /\ page.pc = "listing"
  /\ LET before(a, b) == \/ archive[a].active > archive[b].active
                         \/ archive[a].active = archive[b].active /\ a < b
         newest == InOrder(DOMAIN archive, Pairs(DOMAIN archive, before))
         items == SubSeq(newest, 1, IF Len(newest) > MaxThreads THEN MaxThreads ELSE Len(newest))
     IN page' = [pc |-> "hydrating", items |-> items,
                 got |-> [i \in DOMAIN items |-> [is |-> "waiting"]]]
  /\ UNCHANGED <<archive, changes>>

\* The list cannot be read, or is no list.
ListFails ==
  /\ page.pc = "listing"
  /\ page' = [pc |-> "answered", is |-> "empty", items |-> <<>>, got |-> <<>>]
  /\ UNCHANGED <<archive, changes>>

Ended(i) == page.got[i].is \in {"thread", "email", "dropped"}

\* mapWithConcurrency: items are taken in order, by so many workers.
Taken(i) == Cardinality({j \in 1..i - 1 : ~Ended(j)}) < Concurrency

Got(i, what) ==
  /\ page' = [page EXCEPT !.got[i] = what]
  /\ UNCHANGED <<archive, changes>>

ReadDetail(i) ==
  /\ page.pc = "hydrating" /\ Taken(i) /\ page.got[i].is = "waiting"
  /\ page.items[i] \in DOMAIN archive
  /\ Got(i, [is |-> "detail", of |-> Detail(page.items[i])])

ReadStarter(i) ==
  /\ page.pc = "hydrating" /\ page.got[i].is = "detail"
  /\ page.items[i] \in DOMAIN archive
  /\ \E n \in DOMAIN archive[page.items[i]].messages :
       LET starter == archive[page.items[i]].messages[n]
       IN /\ starter.id = page.got[i].of.starter
          /\ Got(i, [is |-> "thread", of |-> MapThread(page.got[i].of, starter)])

\* Either read fails or finds nothing, or what it brings has no proper date.
DropThread(i) ==
  /\ page.pc = "hydrating" /\ Taken(i) /\ ~Ended(i)
  /\ Got(i, [is |-> "dropped"])

ServeIndex ==
  /\ page.pc = "hydrating"
  /\ \A i \in DOMAIN page.got : Ended(i)
  /\ page' = Build(page.items, page.got)
  /\ UNCHANGED <<archive, changes>>

-----------------------------------------------------------------------------
(* One thread.                                                             *)

Answer(is) ==
  /\ page' = [pc |-> "answered", is |-> is, id |-> page.id]
  /\ UNCHANGED <<archive, changes>>

RequestThread ==
  /\ Idle
  /\ \E t \in Thread : page' = [pc |-> "thread", id |-> t]
  /\ UNCHANGED <<archive, changes>>

\* The archive's own 404 for the thread is the page's.
ReadThread ==
  /\ page.pc = "thread"
  /\ \/ /\ page.id \in DOMAIN archive
        /\ page' = [pc |-> "emails", id |-> page.id, detail |-> Detail(page.id)]
        /\ UNCHANGED <<archive, changes>>
     \/ page.id \notin DOMAIN archive /\ Answer("notFound")

\* A mistaken reader takes every 404 for the thread's.
MissingPartAsThread == "notFound"

\* A part that is not found is the archive's inconsistency.
MissingPart == "unavailable"

ReadEmails ==
  /\ page.pc = "emails"
  /\ \/ /\ page.id \in DOMAIN archive
        /\ LET messages == archive[page.id].messages
           IN page' = [pc |-> "bodies", id |-> page.id, detail |-> page.detail,
                       items |-> [n \in DOMAIN messages |-> messages[n].id],
                       got |-> [n \in DOMAIN messages |-> [is |-> "waiting"]]]
        /\ UNCHANGED <<archive, changes>>
     \/ page.id \notin DOMAIN archive /\ Answer(MissingPart)

Stored(id) ==
  {m \in UNION {Range(archive[t].messages) : t \in DOMAIN archive \intersect {page.id}} : m.id = id}

ReadEmail(i) ==
  /\ page.pc = "bodies" /\ Taken(i) /\ page.got[i].is = "waiting"
  /\ \/ \E m \in Stored(page.items[i]) : Got(i, [is |-> "email", of |-> m])
     \/ Stored(page.items[i]) = {} /\ Answer(MissingPart)

\* An outage, or a reply that cannot be read.
ThreadFails ==
  /\ page.pc \in {"thread", "emails", "bodies"}
  /\ Answer("unavailable")

ServeThread ==
  /\ page.pc = "bodies"
  /\ \A i \in DOMAIN page.got : Ended(i)
  /\ page' = MapThreadDetail(page.detail, [i \in DOMAIN page.got |-> page.got[i].of])
  /\ UNCHANGED <<archive, changes>>

-----------------------------------------------------------------------------
Read ==
  \/ ReadList \/ ListFails \/ ServeIndex
  \/ ReadThread \/ ReadEmails \/ ThreadFails \/ ServeThread
  \/ page.pc = "hydrating" /\ \E i \in DOMAIN page.got :
       ReadDetail(i) \/ ReadStarter(i) \/ DropThread(i)
  \/ page.pc = "bodies" /\ \E i \in DOMAIN page.got : ReadEmail(i)

ArchiveNext ==
  \/ \E t \in DOMAIN archive : Post(t) \/ RemoveThread(t) \/ RemoveMessage(t)
  \/ RequestIndex \/ RequestThread
  \/ Read

ArchiveSpec == ArchiveInit /\ [][ArchiveNext]_archiveVars

\* Any body, line by line.
BodyInit == body = <<>>
BodyNext == Len(body) < MaxLines /\ \E line \in Lines : body' = Append(body, line)
BodySpec == BodyInit /\ [][BodyNext]_body

-----------------------------------------------------------------------------
(* Properties.                                                             *)

Served == page.pc = "answered" /\ page.is \in {"index", "thread"}

\* No page has a word by which someone could be reached, or that shows the
\* private list, wherever it was read: subject, sender or body, whichever
\* mapper it went through ("display names only; no raw email addresses").
ServedIsPublic ==
  Served =>
    WordsOfPage \intersect {"address", "obfuscated", "listCased", "keyholders", "spelled"} = {}

Unsafe(subject, words) == subject = Blank \/ ~PublicSafe(words)

\* A read that fails costs the index its own thread only; what is left is there,
\* once each, in the order of its last activity, even if that changed after the
\* list was read.  The index is empty only if nothing could be read, or if a
\* thread in it is not fit to be shown; a thread's messages are all there, oldest
\* first ("one thread whose hydration reads fail is dropped rather than emptying
\* the whole index").  A conversation is said not to exist only if it does not:
\* neither an outage nor a message that goes while it is read makes a 404 of it.
PagesAreWhole ==
  page.pc = "answered" =>
    /\ page.is = "index" =>
         /\ Range(page.threads) = {page.got[i].of : i \in {j \in DOMAIN page.got : page.got[j].is = "thread"}}
         /\ \A i, j \in DOMAIN page.threads :
              i < j => /\ page.threads[i].active >= page.threads[j].active
                       /\ page.threads[i].thread # page.threads[j].thread
    /\ page.is = "empty" =>
         \/ \A i \in DOMAIN page.got : page.got[i].is = "dropped"
         \/ \E i \in DOMAIN page.got :
              page.got[i].is = "thread" /\ Unsafe(page.got[i].of.subject, WordsOfThread(page.got[i].of))
    /\ page.is = "thread" =>
         /\ {m.id : m \in Range(page.messages)} = {m.id : m \in Range(page.emails)}
         /\ \A i, j \in DOMAIN page.messages : i < j => page.messages[i].date <= page.messages[j].date
    /\ page.is = "notFound" => page.id \notin DOMAIN archive

\* The words of a body up to its signature, each with its quotation level.
Leveled(blocks) ==
  FlattenSeq([b \in DOMAIN blocks |->
    [i \in DOMAIN blocks[b].text |-> <<blocks[b].quoteLevel, blocks[b].text[i]>>]])

\* The reader shows each word that was written, in its order and at the level at
\* which it was quoted, so that nobody is shown to say what they quote; unless a
\* "<" that closes no tag has swallowed a quoted line's mark (sanitizeBody).
WordsKeepTheirWriter ==
  Unclosed(body) = {} =>
    LET lines == UpToSignature(body)
    IN Leveled(SanitizeBody(body)) =
         FlattenSeq([k \in DOMAIN lines |->
           [i \in DOMAIN lines[k].says |-> <<lines[k].quote, Neutral(lines[k].says[i])>>]])
=============================================================================
