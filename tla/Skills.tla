-------------------------------- MODULE Skills --------------------------------
(****************************************************************************)
(* The commands that are loaded from SKILL.md files, and the arguments they  *)
(* take from a message: SkillRegistry, parse_args and resolve_args of        *)
(* src/skills.rs. A file is what its frontmatter says; a text is a sequence  *)
(* of words, and its commas.                                                 *)
(****************************************************************************)
EXTENDS Integers, SequencesExt

CONSTANTS
  Spellings,  \* the words names are written with
  Lower,      \* [Spellings -> Spellings]: to_lowercase
  AsciiLower, \* the same by eq_ignore_ascii_case: other capitals stay
  Reads,      \* [words -> SUBSET Kinds]: what a word parses as, next to a string
  Amounts     \* [words -> Int]: and its value, for a number

KnownTools == {"message_log", "message_search", "room_info", "current_time",
               "random_choice", "urban_dictionary", "imdb_lookup", "leafly_strain",
               "rotten_tomatoes", "web_search"}

(* A bound that is not given. *)
Far == 1000

(* A value is what it was written with; an array's items are its pieces.     *)
Value(type, raw, items) == [type |-> type, raw |-> raw, items |-> items]
NoValue == Value("none", <<>>, <<>>)

(* What a file may say, and a value be: a number is one word.                *)
Words == DOMAIN Reads
Values == {value \in [type : STRING, raw : Seq(Words), items : Seq(Seq(Words))] :
             value.type = "integer" => Len(value.raw) = 1}
Specs == [name : STRING, kind : STRING, required : BOOLEAN, default : Values,
          min : Int, max : Int]
Files == [readable : BOOLEAN, name : Spellings, aliases : Seq(Spellings), tools : SUBSET STRING,
          args : Seq(Specs)]

ASSUME SkillsAssumption ==
  /\ Amounts \in [Words -> Int]
  /\ \A one, other \in Spellings : AsciiLower[one] = AsciiLower[other] => Lower[one] = Lower[other]

Matches(spec, value) ==
  value.type = spec.kind \/ (spec.kind = "number" /\ value.type = "integer")

(* min and max bound a number, and the length of an array. *)
Amount(value) == IF value.type = "array" THEN Len(value.items) ELSE Amounts[value.raw[1]]

InBounds(spec, value) ==
  spec.kind \in {"integer", "number", "array"} => Amount(value) \in spec.min..spec.max

(* parse_skill. Whether a default is within the bounds is not looked at.     *)
ValidSpec(spec) ==
  /\ spec.name # ""
  /\ spec.min # -Far \/ spec.max # Far => spec.kind \in {"integer", "number", "array"}
  /\ spec.min <= spec.max
  /\ spec.default # NoValue => Matches(spec, spec.default)

(* Names are compared here as if there were only ASCII's capitals.           *)
Valid(file) ==
  /\ file.readable  \* a delimited frontmatter that parses, and a prompt
  /\ AsciiLower[file.name] \notin {"", "help"}
  /\ file.tools \subseteq KnownTools
  /\ \A i \in DOMAIN file.aliases :
       AsciiLower[file.aliases[i]] \notin {"", "help", AsciiLower[file.name]}
  /\ \A i \in DOMAIN file.args :
       /\ ValidSpec(file.args[i])
       /\ \A j \in 1..(i - 1) : file.args[j].name # file.args[i].name

Empty == [skills |-> <<>>, aliases |-> <<>>, refused |-> FALSE]

(* insert *)
With(table, key, value) ==
  [k \in DOMAIN table \union {key} |-> IF k = key THEN value ELSE table[k]]

AddName(registry, file) ==
  IF ~Valid(file) THEN registry
  ELSE IF Lower[file.name] \in DOMAIN registry.skills THEN [registry EXCEPT !.refused = TRUE]
  ELSE [registry EXCEPT !.skills = With(@, Lower[file.name], file)]

AddAlias(registry, owner, alias) ==
  IF alias \in DOMAIN registry.skills THEN [registry EXCEPT !.refused = TRUE]
  ELSE IF alias \in DOMAIN registry.aliases /\ registry.aliases[alias] # owner
       THEN [registry EXCEPT !.refused = TRUE]
  ELSE [registry EXCEPT !.aliases = With(@, alias, owner)]

AddAliases(registry, file) ==
  FoldLeft(LAMBDA r, alias : AddAlias(r, Lower[file.name], Lower[alias]), registry, file.aliases)

(* Mutant: one pass, so that an alias that is read before the name it        *)
(* collides with is not noticed.                                             *)
LoadAtOnce(order) ==
  FoldLeft(LAMBDA r, file : IF Valid(file) THEN AddAliases(AddName(r, file), file) ELSE r,
           Empty, order)

(* load, with the files in the order the directory gives them; it refuses    *)
(* what would be ambiguous, and an alias that is its own skill's name but    *)
(* for capitals outside ASCII, which parse_skill does not fold. The second   *)
(* pass is in no order either, which is the same one here.                   *)
Load(order) ==
  LET named == FoldLeft(AddName, Empty, order)
  IN IF named.refused THEN named
     ELSE FoldLeft(LAMBDA r, file : IF Valid(file) THEN AddAliases(r, file) ELSE r, named, order)

(* get *)
Has(registry, name) ==
  Lower[name] \in DOMAIN registry.skills \union DOMAIN registry.aliases

SkillOf(registry, name) ==
  IF Lower[name] \in DOMAIN registry.skills THEN registry.skills[Lower[name]]
  ELSE registry.skills[registry.aliases[Lower[name]]]

----------------------------------------------------------------------------
(* split_list: where a text has a comma, or an "or" between two words that   *)
(* is not next to one that counted.                                          *)
Separates(raw) ==
  LET sep[i \in 0..Len(raw)] ==
        i > 0 /\ \/ raw[i] = ","
                 \/ raw[i] = "or" /\ i \in 2..(Len(raw) - 1) /\ ~(raw[i - 1] = "or" /\ sep[i - 1])
  IN sep

Items(raw) ==
  LET sep == Separates(raw)
      Grow(items, i) == IF sep[i] THEN Append(items, <<>>)
                        ELSE [items EXCEPT ![Len(items)] = Append(@, raw[i])]
      pieces == FoldLeft(Grow, <<<<>>>>, [i \in DOMAIN raw |-> i])
  IN IF \E i \in DOMAIN raw : sep[i] THEN SelectSeq(pieces, LAMBDA p : p # <<>>)
     ELSE [i \in DOMAIN raw |-> <<raw[i]>>]

ParseArg(kind, raw) ==
  IF kind = "array" THEN Value("array", raw, Items(raw))
  ELSE Value(IF Len(raw) = 1 /\ kind \in Reads[raw[1]] THEN kind ELSE "string", raw, <<>>)

(* The arguments that are given, by their place: a word each, and the rest   *)
(* for the last.                                                             *)
ParseArgs(specs, text) ==
  [i \in {j \in DOMAIN specs : j <= Len(text)} |->
     ParseArg(specs[i].kind,
              IF i = Len(specs) THEN SubSeq(text, i, Len(text)) ELSE <<text[i]>>)]

(* resolve_args: what is wrong with them, or what they are with the defaults *)
(* filled in.                                                                *)
Wrong(specs, given) ==
  \E i \in DOMAIN specs :
    IF i \in DOMAIN given THEN ~Matches(specs[i], given[i]) \/ ~InBounds(specs[i], given[i])
    ELSE specs[i].required

Resolved(specs, given) ==
  [i \in DOMAIN given \union {j \in DOMAIN specs : specs[j].default # NoValue} |->
     IF i \in DOMAIN given THEN given[i] ELSE specs[i].default]

(* The value of the argument of that name, if the skill has one that is set. *)
Argument(specs, args, name) ==
  LET places == {i \in DOMAIN args : specs[i].name = name}
  IN IF places = {} THEN NoValue ELSE args[CHOOSE i \in places : TRUE]
===============================================================================
