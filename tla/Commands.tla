------------------------------- MODULE Commands -------------------------------
(****************************************************************************)
(* A !command in a room, from handle_command of src/handler.rs through       *)
(* execute of src/skills.rs to the reply: which skill it is, what that takes *)
(* from the message, reads of the log and looks up elsewhere, what Claude is *)
(* told of it, and what is posted.                                           *)
(****************************************************************************)
EXTENDS Skills, LogSearch, Lookups, Stats

CONSTANTS
  SkillDirs,     \* the sets of files there may be at the start
  Texts,         \* what people write after a command's name
  Site,          \* [titles -> sequences of results]: Rotten Tomatoes
  StrainHits,    \* what Leafly may find
  OmdbKey,       \* whether there is a key for OMDb
  SearchLimit,   \* MESSAGE_SEARCH_LIMIT
  DefaultCount,  \* DEFAULT_MESSAGE_LOG_COUNT
  MaxCount,      \* MAX_MESSAGE_LOG_COUNT
  Here,          \* the room
  Tables         \* what there may be to count, as Stats has it

(* search_row: what a search of the site says of each film or show, and what *)
(* its page adds to it, the number of reviews.                               *)
Rows == [title : Seq(STRING), year : STRING, scored : BOOLEAN, reviews : Nat]

ASSUME CommandsAssumption ==
  /\ \A files \in SkillDirs : IsFiniteSet(files) /\ files \subseteq Files
  /\ Texts \subseteq Seq(Words) /\ Words \subseteq DOMAIN LowerWord
  /\ \A title \in DOMAIN Site : Site[title] \in Seq(Rows)
  /\ OmdbKey \in BOOLEAN /\ SearchLimit \in Nat
  /\ MaxCount \in Nat \ {0} /\ DefaultCount \in 1..MaxCount
  /\ Tables \subseteq AnyTables

VARIABLES
  installed,  \* the skill files the bot was started with
  registry,   \* the skills that were loaded from them, or Empty before
  log,        \* the room's log: sequence of [words, search, ts]
  command     \* the command that is being handled

commandVars == <<installed, registry, log, command>>

(* recent, matches: read of the log. film: what was found of a film.         *)
(* pictures: the images that go with the reply. told: what Claude is told    *)
(* besides the message. counted: for !stats, what was counted, from which    *)
(* tables.                                                                   *)
NoCommand == [phase |-> "none", name |-> "", text |-> <<>>, args |-> <<>>, recent |-> <<>>,
              matches |-> <<>>, film |-> <<>>, pictures |-> {}, told |-> {}, counted |-> {},
              reply |-> "none"]
CommandPhases == {"none", "checking", "reading", "looking", "completing", "replying"}

CommandsInit ==
  /\ installed = {} /\ registry = Empty /\ log = <<>> /\ command = NoCommand

CommandIn(phase) == command.phase = phase
Becomes(changes) ==
  command' = [f \in DOMAIN command |-> IF f \in DOMAIN changes THEN changes[f] ELSE command[f]]

(* Bot::new: the skills are loaded, or the bot does not start. *)
LoadSkills ==
  /\ installed = {}
  /\ \E files \in SkillDirs : \E order \in SetToSeqs(files) :
       installed' = files /\ registry' = Load(order)
  /\ UNCHANGED <<log, command>>

Ready == installed # {} /\ ~registry.refused

BuiltIns == {"help", "pp", "stats", "changelog", "memories"}

(* parse_command: a name, and the text after it, which may be none.          *)
Parsed(name, text) == [NoCommand EXCEPT !.name = name, !.text = text]

(* Is answered like any question. *)
HelpQuestion(given) == AsciiLower[given.name] = "help" /\ given.text # <<>>

(* stats_reply and pp_reply: a picture that cannot be drawn, or numbers that *)
(* cannot be counted, are a notice like the other replies that are made      *)
(* without Claude.                                                           *)
BuiltInReplies(name) == {"notice"} \union IF name = "pp" THEN {"image"} ELSE {}

(* stats_reply: all rooms are counted, then this one. In between other rooms *)
(* go on: some of their messages may have been too late for the former.      *)
(* To bound the states, it is only looked at where the log is still empty    *)
(* and nothing follows the name.                                             *)
Elsewhere(tables) == {row \in tables.messages : row.room # Here}

CountsOf(tables, late) ==
  LET seen == [tables EXCEPT !.messages = @ \ late]
  IN [seen |-> seen, all |-> Collect(seen), here |-> RoomStats(tables, Here)]

Counted(given) ==
  IF AsciiLower[given.name] = "stats" /\ given.text = <<>> /\ log = <<>>
  THEN UNION {{{CountsOf(tables, late)} : late \in SUBSET Elsewhere(tables)} : tables \in Tables}
  ELSE {{}}

(* handle_command: a built-in comes before a skill of the same name.         *)
GiveCommand ==
  /\ Ready /\ CommandIn("none")
  /\ \E name \in Spellings \ {""}, text \in Texts :
       LET given == Parsed(name, text) IN
       /\ ~HelpQuestion(given)
       /\ IF AsciiLower[given.name] \notin BuiltIns /\ Has(registry, given.name)
          THEN command' = [given EXCEPT !.phase = "checking"]
          ELSE \E reply \in BuiltInReplies(AsciiLower[given.name]), counted \in Counted(given) :
                 command' = [given EXCEPT !.phase = "replying", !.reply = reply, !.counted = counted]
  /\ UNCHANGED <<installed, registry, log>>

Skill == SkillOf(registry, command.name)
Uses(tool) == tool \in Skill.tools
Given == ParseArgs(Skill.args, command.text)
Arg(name) == Argument(Skill.args, command.args, name)

(* Over the cost limit or in a pause, or with arguments that will not do,    *)
(* nothing is read or asked.                                                 *)
CheckCommand ==
  /\ CommandIn("checking")
  /\ \E held \in BOOLEAN :
       IF held \/ Wrong(Skill.args, Given)
       THEN Becomes([phase |-> "replying", reply |-> "notice"])
       ELSE Becomes([phase |-> "reading", args |-> Resolved(Skill.args, Given)])
  /\ UNCHANGED <<installed, registry, log>>

(* A count below zero reads as none. *)
Count ==
  LET count == Arg("count")
      wanted == IF count.type = "integer" /\ Amounts[count.raw[1]] >= 0
                THEN Amounts[count.raw[1]] ELSE DefaultCount
  IN IF wanted < 1 THEN 1 ELSE IF wanted > MaxCount THEN MaxCount ELSE wanted

(* as_str *)
IsText(name) == Arg(name).type = "string"
Query == IF IsText("query") THEN Arg("query").raw ELSE <<>>

LacksKey == Uses("imdb_lookup") /\ ~OmdbKey

(* Whether a read the skill declares is made and goes well.                  *)
Attempts(tool) == IF Uses(tool) THEN BOOLEAN ELSE {FALSE}

(* What the skill reads of the room, either of which may fail. Of a search   *)
(* that failed Claude is told, of a log that could not be read it is not.    *)
(* Without the key that the skill takes it ends here.                        *)
ReadRoom ==
  /\ CommandIn("reading")
  /\ \/ LacksKey /\ Becomes([phase |-> "replying", reply |-> "notice"])
     \/ /\ ~LacksKey
        /\ \E logged \in Attempts("message_log"), searched \in Attempts("message_search") :
             Becomes([phase |-> "looking",
                      recent |-> IF logged THEN Newest(log, Count) ELSE <<>>,
                      matches |-> IF searched THEN Search(log, Query, SearchLimit) ELSE <<>>,
                      told |-> (Skill.tools \intersect {"room_info", "current_time"})
                                 \union (IF Uses("message_search") /\ ~searched THEN {"failed"} ELSE {})])
  /\ UNCHANGED <<installed, registry, log>>

(* What a lookup adds to what Claude is told and to what is posted, unless   *)
(* it was not made or failed. That pictures are posted is told with them.    *)
Unasked == [told |-> {}, film |-> <<>>, pictures |-> {}]
Failed == [Unasked EXCEPT !.told = {"failed"}]
Found(what, film, pictures, note) ==
  [told |-> {what} \union (IF pictures = {} THEN {} ELSE {note}), film |-> film, pictures |-> pictures]

(* Of a choice, a word or a film in words: what was found, be it nothing, or *)
(* that looking it up failed.                                                *)
Tells(tool, outcomes) == IF Uses(tool) THEN {{outcome} : outcome \in outcomes} ELSE {{}}
Heard ==
  {choice \union word \union film :
     choice \in Tells("random_choice", {"choice"}),
     word \in Tells("urban_dictionary", {"word", "failed"}),
     film \in IF IsText("title") THEN Tells("imdb_lookup", {"imdb", "failed"}) ELSE {{}}}

(* strain_photos: any of the photos may not load, and drawing the sheet may  *)
(* fail.                                                                     *)
StrainSheet(hit, highlighted, drawn) ==
  {picture \in {"strain"} : drawn /\ StrainPhotos(hit, highlighted) > 0}

(* leafly_strain, with its photos. *)
StrainFound(hits, highlighted, drawn) ==
  LET n == SelectStrain(hits)
  IN Found("strain", <<>>, IF n = 0 THEN {} ELSE StrainSheet(hits[n], highlighted, drawn), "photos")

StrainFindings ==
  IF ~Uses("leafly_strain") \/ ~IsText("name") THEN {Unasked}
  ELSE {Failed} \union {StrainFound(hits, highlighted, drawn) :
                          hits \in StrainHits, highlighted \in {0, 1}, drawn \in BOOLEAN}

SiteSearch(title) == IF title \in DOMAIN Site THEN Site[title] ELSE <<>>
SearchFor(query) == TitleFound(query, SiteSearch(Front(query)), SiteSearch(query))

(* pictures: the poster and the sheet of its cast, each if the page has what *)
(* it takes and it can be loaded and drawn.                                  *)
TitlePictures(chosen, readable) ==
  IF chosen \in readable THEN SUBSET {"poster", "cast"} ELSE {{}}

(* rotten_tomatoes, if of the films that were compared some can be read.     *)
TitlesFound(query, readable) ==
  LET found == SearchFor(query)
      candidates == found.matched.candidates
      chosen == IF candidates = {} THEN 0 ELSE Chosen(found.results, candidates, readable)
  IN {Found("title", <<chosen, readable>>, pictures, "posters") :
        pictures \in TitlePictures(chosen, readable)}

TitleFindings ==
  LET query == Arg("title").raw
  IN IF ~Uses("rotten_tomatoes") \/ ~IsText("title") THEN {Unasked}
     ELSE {Failed} \union UNION {TitlesFound(query, readable) :
                                  readable \in SUBSET Compared(SearchFor(query).matched.candidates)}

(* Each tool that the skill declares in turn. What is found of a film, be it *)
(* without pictures, replaces the photos of a strain, which stay announced.  *)
LookUp ==
  /\ CommandIn("looking")
  /\ \E heard \in Heard, strain \in StrainFindings, title \in TitleFindings :
       Becomes([phase |-> "completing", film |-> title.film,
                pictures |-> IF "title" \in title.told THEN title.pictures ELSE strain.pictures,
                told |-> command.told \union heard \union strain.told \union title.told])
  /\ UNCHANGED <<installed, registry, log>>

(* finish_reply: a refusal has a text of its own, one that was cut short has *)
(* a note at its end, and without a text there is no answer.                 *)
Finished(stop, text) ==
  IF stop = "refusal" \/ (stop = "max_tokens" /\ text # "none") THEN "text" ELSE text

(* complete: without an answer there are no pictures either, but a notice.   *)
Complete ==
  /\ CommandIn("completing")
  /\ \E stop \in {"end_turn", "max_tokens", "refusal"}, text \in {"text", "emoji", "none"} :
       IF Finished(stop, text) = "none"
       THEN Becomes([phase |-> "replying", reply |-> "notice", pictures |-> {}])
       ELSE Becomes([phase |-> "replying", reply |-> Finished(stop, text)])
  /\ UNCHANGED <<installed, registry, log>>

(* The reply is delivered, whose posts may fail, and the message is logged   *)
(* with it: log' is the room's.                                              *)
AnswerCommand ==
  /\ CommandIn("replying")
  /\ command' = NoCommand
  /\ UNCHANGED <<installed, registry>>

CommandWords == Range(command.text) \ {","}

----------------------------------------------------------------------------
CommandsOK ==
  /\ command.phase \in CommandPhases
  /\ Range(command.recent) \union Range(command.matches) \subseteq DOMAIN log

Claims(file) == {Lower[file.name]} \union {Lower[alias] : alias \in Range(file.aliases)}
Sound == {file \in installed : Valid(file)}

(* An alias that is the skill's own name, but for capitals outside ASCII:    *)
(* the file is sound, and yet the alias is taken.                            *)
NamedTwice(file) == Lower[file.name] \in {Lower[alias] : alias \in Range(file.aliases)}

(* Whatever order the files are read in, a name or an alias leads to the one *)
(* skill that has it, and where two would, or an alias is taken by its own   *)
(* skill, the bot does not start. A built-in's name never runs a skill,      *)
(* although one of that name is loaded (src/src/skills.rs:142-147, 196-223,  *)
(* src/src/handler.rs:1587-1607).                                            *)
RightSkill ==
  installed # {} =>
    /\ registry.refused <=>
         \/ \E one, other \in Sound : one # other /\ Claims(one) \intersect Claims(other) # {}
         \/ \E file \in Sound : NamedTwice(file)
    /\ registry.refused \/
         \A name \in Spellings :
           /\ Has(registry, name) => \E file \in Sound : Lower[name] \in Claims(file)
           /\ \A file \in Sound : Lower[name] \in Claims(file) =>
                Has(registry, name) /\ SkillOf(registry, name) = file
    /\ command.phase \in {"checking", "reading", "looking", "completing"} =>
         Has(registry, command.name) /\ AsciiLower[command.name] \notin BuiltIns

(* A skill is run with the arguments it declares: each that was given is of  *)
(* its type and within its bounds, none that is required is missing, nothing *)
(* of the message is left out, and a default stands in only for what was not *)
(* given.                                                                    *)
RightArguments ==
  command.phase \in {"reading", "looking", "completing"} =>
    LET specs == Skill.args
        args == command.args
        given == {i \in DOMAIN specs : i <= Len(command.text)}
    IN /\ \A i \in DOMAIN specs : specs[i].required => i \in DOMAIN args
       /\ \A i \in given : Matches(specs[i], args[i]) /\ InBounds(specs[i], args[i])
       /\ \A i \in DOMAIN args \ given : args[i] = specs[i].default
       /\ specs # <<>> =>
            FlattenSeq([i \in 1..Cardinality(given) |-> args[i].raw]) = command.text

(* What Claude is told is posted above its reply is what will be, with one   *)
(* exception: a strain's photos stay announced where what a second tool      *)
(* found of a film took their place (src/src/skills.rs:600-636).             *)
PicturesAnnounced ==
  CommandIn("completing") =>
    /\ "strain" \in command.pictures
         <=> "photos" \in command.told /\ "title" \notin command.told
    /\ command.pictures \intersect {"poster", "cast"} # {} <=> "posters" \in command.told

(* The status page and !stats say nothing of a private room but how many     *)
(* there are: each of their numbers is what it would be without its rows     *)
(* (src/src/stats.rs:3-4, src/src/stats_command.rs:3-5).                     *)
PrivateUncounted == \A c \in command.counted : c.all = Collect(WithoutPrivate(c.seen))

(* What is counted agrees, however it is broken down: by room, by day, by    *)
(* what it was, by person; what a room is told of itself is what the page    *)
(* says of it, although that was counted before; and the people it is told   *)
(* of are those who spoke there                                              *)
(* (src/src/stats.rs:97-182, 209-243, 246-282, src/src/stats_command.rs:4).  *)
CountsAgree ==
  \A c \in command.counted :
    LET all == c.all
        totals == all.totals
        said == StatsReply(all, c.here).here
    IN /\ SumOf("messages", all.rooms) = totals.messages
       /\ SumOf("replies", all.rooms) = totals.replies
       /\ SumOf("threads", all.rooms) = totals.threads
       /\ SumOf("count", all.intents) = totals.messages
       /\ Len(all.kinds) < TopLimit => SumOf("count", all.kinds) = totals.replies
       /\ totals.people <= TopLimit =>
            /\ Len(all.people) = totals.people
            /\ SumOf("messages", all.people) = totals.messages
       /\ SumOf("messages", all.daily) \in totals.ofWeek..totals.messages
       /\ Cardinality({day \in DOMAIN all.daily : day <= Now \div Day}) <= DailyWindow + 1
       /\ Here \in DOMAIN all.rooms =>
            \A part \in {"messages", "replies", "people", "threads"} :
              all.rooms[Here][part] = c.here[part]
       /\ \A room \in Range(said) : \A person \in Range(room.top) :
            \E row \in In(c.seen.messages, Here) :
              person.name \in {<<"id", row.sender>>, <<"name", row.name>>}

(* A command reaches the skill that is meant, with the arguments that were   *)
(* given (src/src/handler.rs:1607, src/src/skills.rs:226-254, 390-442),      *)
(* Claude is told of the pictures that are posted (src/src/skills.rs:        *)
(* 600-636), and !stats gets numbers that agree and have nothing of private  *)
(* rooms (src/src/stats.rs:3-4).                                             *)
CommandsAsGiven ==
  RightSkill /\ RightArguments /\ PicturesAnnounced /\ PrivateUncounted /\ CountsAgree

(* Of a message that matches and was not found, every one that was matches   *)
(* more words, or as many and is no older; earlier searches are not found.   *)
BestMessages ==
  LET terms == Terms(Query)
      found == Range(command.matches)
      Rank(n) == Score(log[n], terms) * (Len(log) + 1) + log[n].ts
  IN /\ \A n \in found : Score(log[n], terms) > 0 /\ ~log[n].search
     /\ \A n \in DOMAIN log \ found :
          log[n].search \/ (\A i \in DOMAIN terms : ~InRow(log[n], terms[i]))
            \/ (Cardinality(found) = SearchLimit /\ \A m \in found : Rank(m) >= Rank(n))
     /\ \A i, j \in DOMAIN command.matches :
          i < j => log[command.matches[i]].ts <= log[command.matches[j]].ts

(* A film of the title and the year that was asked for comes before one that *)
(* has the year in its title, and before any other; of several that could be *)
(* read, none has more reviews.                                              *)
FilmMeant ==
  LET query == Arg("title").raw
      found == SearchFor(query)
      film == found.results[command.film[1]]
      ofYear == {f \in Range(SiteSearch(Front(query))) :
                   HasYear(query) /\ f.title = Front(query) /\ f.year = Last(query)}
      named == {f \in Range(SiteSearch(query)) : f.title = query}
  IN IF command.film[1] = 0 THEN SiteSearch(query) = <<>>
     ELSE /\ ofYear # {} => film \in ofYear
          /\ ofYear = {} /\ named # {} => film \in named
          /\ \A i \in command.film[2] : found.results[i].reviews <= film.reviews
===============================================================================
