-------------------------------- MODULE Topics ---------------------------------
(****************************************************************************)
(* What a message is about besides its words: the picture and the pages that *)
(* its reply is given, find_image, load_image and find_pages of              *)
(* src/handler.rs with fetch_all of src/links.rs. A text is a sequence of    *)
(* words, some of which are links.                                           *)
(****************************************************************************)
EXTENDS Naturals, SequencesExt

CONSTANTS
  Links,        \* the words that are web addresses
  Skipped,      \* SKIPPED_HOSTS: those that lead to Matrix itself
  Disallowed,   \* those that are not fetched, is_allowed_url
  PictureLinks, \* those that lead to a picture in a format Claude reads
  MaxLinks,     \* MAX_LINKS_PER_MESSAGE
  MaxPages,     \* MAX_PAGES_PER_REPLY
  Lookback      \* LINK_LOOKBACK_MESSAGES

(* own: the texts of the message and of those that followed at once.         *)
(* picture, and a target's: "none", or by the size of the file and of its    *)
(* thumbnail. target: what it replies to, with its text if it has one.       *)
(* thread, recent: of the log, with the pages that were linked, as fetched   *)
(* when they were posted; a recent one that is old does not count.           *)
Pictures == {"none", "fits", "large", "thumbnailed"}
NoTarget == [there |-> FALSE, picture |-> "none", text |-> <<>>]
Entry(picture, pages, old) == [picture |-> picture, pages |-> pages, old |-> old]
Alone == [own |-> <<<<>>>>, picture |-> "none", target |-> NoTarget,
          thread |-> <<>>, recent |-> <<>>]

Logged == [picture : Pictures, pages : Seq(Links), old : BOOLEAN]
Contexts == [own : Seq(Seq(STRING)), picture : Pictures,
             target : [there : BOOLEAN, picture : Pictures, text : Seq(STRING)],
             thread : Seq(Logged), recent : Seq(Logged)]

ASSUME TopicsAssumption == {MaxLinks, MaxPages, Lookback} \subseteq Nat

(* filter *)
Only(S, seq) == FoldLeft(LAMBDA kept, x : IF x \in S THEN Append(kept, x) ELSE kept, <<>>, seq)

Distinct(seq) == FoldLeft(LAMBDA kept, x : IF Contains(kept, x) THEN kept ELSE Append(kept, x), <<>>, seq)
AtMost(n, seq) == SubSeq(seq, 1, IF Len(seq) < n THEN Len(seq) ELSE n)

(* extract_urls *)
Urls(text) == Distinct(Only(Links \ Skipped, text))

(* fetch, which gives no page if it fails, by its timeout at the latest.     *)
Fetched(url, down) == url \notin Disallowed /\ url \notin down

(* fetch_all, all at once, in the order they appear. *)
FetchAll(text, down) ==
  Only({url \in Links : Fetched(url, down)}, AtMost(MaxLinks, Urls(text)))

----------------------------------------------------------------------------
(* The last of the log's entries that has a picture, or 0. *)
LastPicture(entries) == SelectLastInSeq(entries, LAMBDA entry : entry.picture # "none")

(* find_image: attached, replied to, in the thread, or just posted.          *)
PictureMeant(m) ==
  LET newest == m.recent[Len(m.recent)]
  IN IF m.picture # "none" THEN m.picture
     ELSE IF m.target.picture # "none" THEN m.target.picture
     ELSE IF m.thread # <<>>
          THEN IF LastPicture(m.thread) = 0 THEN "none" ELSE m.thread[LastPicture(m.thread)].picture
     ELSE IF m.target.there \/ m.recent = <<>> \/ newest.old THEN "none"
     ELSE newest.picture

(* Only the ones that are not at hand have to be fetched by their event. *)
AtHand(m) == m.picture # "none" \/ m.target.picture # "none"

(* load_image: the file, or the thumbnail of one that is too large; to       *)
(* download it may fail.                                                     *)
Loads(picture, works) == works /\ picture \in {"fits", "thumbnailed"}

(* What the log says was linked, the newest first. *)
Linked(entries) == FlattenSeq([i \in DOMAIN entries |-> Reverse(entries)[i].pages])

Lately(m) ==
  LET skipped == IF Len(m.recent) > Lookback THEN Len(m.recent) - Lookback ELSE 0
  IN Only({entry \in Range(m.recent) : ~entry.old}, SubSeq(m.recent, skipped + 1, Len(m.recent)))

(* find_pages: the most relevant first, each once. *)
PagesMeant(m, down) ==
  LET own == FlattenSeq([i \in DOMAIN m.own |-> FetchAll(m.own[i], down)])
      replied == FetchAll(m.target.text, down)
      logged == IF m.thread = <<>> THEN Linked(Lately(m)) ELSE Linked(m.thread)
  IN AtMost(MaxPages, Distinct(own \o replied \o logged))

(* fetch_image: a page that is a picture is shown if it can be downloaded.   *)
PicturesAmong(pages, lost) ==
  {page \in Range(pages) : page \in PictureLinks /\ page \notin Disallowed /\ page \notin lost}

(* What the reply is given: pages, pictures, and whether one is missing. One *)
(* whose event cannot be fetched is none.                                    *)
Gathered(m, down, event, works, lost) ==
  LET meant == IF AtHand(m) \/ event THEN PictureMeant(m) ELSE "none"
      pages == PagesMeant(m, down)
      shown == (IF Loads(meant, works) THEN {"picture"} ELSE {}) \union PicturesAmong(pages, lost)
  IN [pages |-> pages, shown |-> shown,
      missing |-> \/ meant # "none" /\ "picture" \notin shown
                  \/ \E page \in Range(pages) \intersect PictureLinks : page \notin shown]

(* How far from the message a page was linked: in it, in what it replies to, *)
(* or so many entries of the log back.                                       *)
Distances(m, down, page) ==
  LET logged == IF m.thread = <<>> THEN Lately(m) ELSE m.thread
  IN {0 : i \in {i \in DOMAIN m.own : Contains(FetchAll(m.own[i], down), page)}}
       \union {1 : text \in {t \in {m.target.text} : Contains(FetchAll(t, down), page)}}
       \union {2 + Len(logged) - i : i \in {i \in DOMAIN logged : Contains(logged[i].pages, page)}}

(* The pages of a reply are those that were linked nearest to its message,   *)
(* the nearest first and each once (src/src/handler.rs:371-374); and a       *)
(* picture that comes with the message, or with what it replies to, is shown *)
(* or said to be missing (src/src/handler.rs:1309-1310).                     *)
NearestMeant(m, down, given) ==
  LET pages == Range(given.pages)
      known == {page \in Links : Distances(m, down, page) # {}}
      Nearer(p, q) == \E d \in Distances(m, down, p) : \A e \in Distances(m, down, q) : d <= e
  IN /\ pages \subseteq known /\ Cardinality(pages) = Len(given.pages)
     /\ \A i, j \in DOMAIN given.pages : i < j => Nearer(given.pages[i], given.pages[j])
     /\ \A page \in known \ pages : Len(given.pages) = MaxPages /\ \A p \in pages : Nearer(p, page)
     /\ AtHand(m) => given.missing \/ "picture" \in given.shown
================================================================================
