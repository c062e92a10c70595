------------------------------- MODULE MCAnswers ------------------------------
(* A room with a few skills, a few films, and words that match and tie. *)
EXTENDS Answers

MCSpellings == {"", "search", "Search", "find", "history", "rt", "strain", "random", "ud",
                "imdb", "help", "pp", "stats", "recap", "both", "über", "Über"}
MCAsciiLower == [s \in MCSpellings |-> IF s = "Search" THEN "search" ELSE s]
MCLower == [s \in MCSpellings |-> IF s = "Über" THEN "über" ELSE MCAsciiLower[s]]
MCWords == {"cat", "dog", "Über", "über", "the", "2", "7", "1984", "dune", "true", "or", ","}
MCReads == [w \in MCWords |->
  IF w \in {"2", "7", "1984"} THEN {"integer", "number"}
  ELSE IF w = "true" THEN {"boolean"} ELSE {}]
MCAmounts == [w \in MCWords |-> CASE w = "2" -> 2 [] w = "7" -> 7 [] w = "1984" -> 1984 [] OTHER -> 0]
MCLowerWord == [w \in MCWords |-> IF w = "Über" THEN "über" ELSE w]
MCLowerRow == [w \in MCWords |-> w]
MCStopwords == {"the"}
MCYears == {"1984"}

Arg0(name, kind, required) ==
  [name |-> name, kind |-> kind, required |-> required, default |-> NoValue,
   min |-> -Far, max |-> Far]
File(name, aliases, tools, args) ==
  [readable |-> TRUE, name |-> name, aliases |-> aliases, tools |-> tools, args |-> args]

SearchFile == File("search", <<"find">>, {"message_search"}, <<Arg0("query", "string", TRUE)>>)
Capital == File("Search", <<>>, {"message_search"}, <<Arg0("query", "string", TRUE)>>)
Taker == File("find", <<>>, {"room_info"}, <<>>)
Rival == File("recap", <<"find">>, {"current_time"}, <<>>)
History == File("history", <<"recap">>, {"message_log"},
  <<[Arg0("count", "integer", FALSE) EXCEPT !.min = 1, !.max = 5,
       !.default = Value("integer", <<"2">>, <<>>)],
    Arg0("loud", "boolean", FALSE)>>)
Film == File("rt", <<>>, {"rotten_tomatoes"}, <<Arg0("title", "string", TRUE)>>)
Strain == File("strain", <<>>, {"leafly_strain"}, <<Arg0("name", "string", TRUE)>>)
Random == File("random", <<>>, {"random_choice"},
  <<[Arg0("choices", "array", TRUE) EXCEPT !.min = 2]>>)
Urban == File("ud", <<>>, {"urban_dictionary"}, <<Arg0("term", "string", FALSE)>>)
Imdb == File("imdb", <<>>, {"imdb_lookup"}, <<Arg0("title", "string", TRUE)>>)
Both == File("both", <<"Über">>, {"leafly_strain", "rotten_tomatoes"},
  <<Arg0("name", "string", TRUE), Arg0("title", "string", TRUE)>>)
Digest == File("recap", <<>>, {"message_log", "message_search"},
  <<Arg0("count", "integer", TRUE), Arg0("query", "string", TRUE)>>)
Shadowed == File("stats", <<>>, {"room_info"}, <<>>)
OwnAlias == File("über", <<"Über">>, {"room_info"}, <<>>)
Reserved == File("help", <<>>, {"room_info"}, <<>>)
Mistaken == File("strain", <<>>, {"weather"}, <<>>)

MCSkillDirs ==
  {{SearchFile, History, Reserved}, {Film, Strain, Both, Mistaken}, {Random, Urban, Imdb, Shadowed},
   {SearchFile, Digest}, {SearchFile, Capital}, {SearchFile, Taker}, {SearchFile, Rival},
   {History, Rival, Urban}, {Urban, OwnAlias}}

MCTexts ==
  {<<>>, <<"cat">>, <<"cat", "the", "dog">>, <<"über">>, <<"2">>, <<"7", "true">>,
   <<"2", "true">>, <<"2", "cat">>, <<"dune", "1984">>, <<"dune">>, <<"1984">>, <<"dune", "2">>,
   <<"cat", "or", "dog", ",", "2">>, <<"cat", "or">>}
MCEntries == {{"cat"}, {"cat", "dog"}, {"Über"}, {"2"}}

Movie(title, year, scored, reviews) ==
  [title |-> title, year |-> year, scored |-> scored, reviews |-> reviews]
MCSite ==
  <<"dune">> :> <<Movie(<<"dune">>, "2021", TRUE, 3), Movie(<<"dune">>, "1984", TRUE, 1),
                  Movie(<<"dune">>, "2000", FALSE, 2)>>
  @@ <<"dune", "2">> :> <<Movie(<<"dune", "cat">>, "2024", FALSE, 0),
                          Movie(<<"cat">>, "2021", TRUE, 2)>>
  @@ <<"1984">> :> <<Movie(<<"1984">>, "1984", TRUE, 2)>>
MCStrainHits ==
  {<<>>, <<[named |-> TRUE, page |-> TRUE, nug |-> "photo"],
           [named |-> TRUE, page |-> FALSE, nug |-> "drawing"]>>,
   <<[named |-> TRUE, page |-> TRUE, nug |-> "drawing"],
     [named |-> FALSE, page |-> TRUE, nug |-> "photo"]>>}

(* A public room and a private one, and one that may be either: messages     *)
(* with and without replies and threads, now and at the ends of day, week    *)
(* and window, of someone who changed their name.                            *)
Row(id, room, sender, name, ts, thread, kind, intent) ==
  [id |-> id, room |-> room, sender |-> sender, name |-> name, ts |-> ts, thread |-> thread,
   links |-> id - 1, image |-> id = 2, reply |-> kind, intent |-> intent]
MCMessages ==
  {Row(1, "here", 1, 1, 30, 11, "chat", "question"), Row(2, "here", 1, 2, 31, 11, "none", "chitchat"),
   Row(3, "here", 2, 0, 17, 0, "rt", "command"), Row(4, "hall", 2, 3, 16, 12, "chat", "question"),
   Row(5, "hall", 3, 0, 3, 0, "none", "chitchat"), Row(6, "den", 4, 4, 29, 13, "chat", "secret"),
   Row(7, "hall", 5, 5, 29, 12, "none", "chitchat")}
Kept(room) == [id |-> 1, room |-> room]
MCReactions == {[id |-> 1, room |-> "here", key |-> "up"], [id |-> 2, room |-> "den", key |-> "hush"]}
MCTables ==
  {[messages |-> messages, reactions |-> reactions, facts |-> rows, summaries |-> rows, direct |-> direct] :
     messages \in SUBSET MCMessages,
     reactions \in {MCReactions}, rows \in {{Kept("hall"), Kept("den")}},
     direct \in {{"den"}, {"den", "here"}}}

(* "x" leads to Matrix, "y" is not fetched, "p" leads to a picture. *)
MCLinks == {"a", "b", "p", "x", "y"}
MCTargets ==
  {NoTarget, [there |-> TRUE, picture |-> "none", text |-> <<"see", "a">>],
   [there |-> TRUE, picture |-> "large", text |-> <<>>]}
MCOwn == {<<<<>>>>, <<<<"x", "b", "y", "b", "a">>>>, <<<<"p">>, <<"a">>>>}
MCLogged ==
  {<<>>, <<Entry("fits", <<"a">>, FALSE)>>, <<Entry("none", <<"p", "b">>, FALSE)>>,
   <<Entry("thumbnailed", <<"b", "a">>, FALSE), Entry("none", <<"p">>, TRUE)>>,
   <<Entry("none", <<"a", "b">>, FALSE), Entry("fits", <<"p">>, FALSE)>>}
MCMatters ==
  {m \in [own : MCOwn, picture : {"none", "thumbnailed"}, target : MCTargets,
          thread : MCLogged, recent : MCLogged] : m.thread = <<>> \/ m.recent = <<>>}
MCOutages == {{}, {"a"}, {"b"}}
===============================================================================
