------------------------------- MODULE Lookups --------------------------------
(****************************************************************************)
(* What a command finds elsewhere: a strain on Leafly, src/tools.rs, and a   *)
(* film or show on Rotten Tomatoes, src/rotten_tomatoes.rs. What the sites   *)
(* answer is a parameter.                                                    *)
(****************************************************************************)
EXTENDS Integers, SequencesExt

CONSTANTS
  Years,        \* the words that are plausible years, 1880 to 2100
  NoYear,
  MaxCompared,  \* MAX_COMPARED
  MaxPhotos     \* STRAIN_PHOTOS

ASSUME LookupsAssumption == MaxCompared \in Nat \ {0} /\ NoYear \notin Years

Least(S) == CHOOSE n \in S : \A other \in S : n <= other
Greatest(S) == CHOOSE n \in S : \A other \in S : n >= other

(* select_strain: the last of the results that has the name, or goes by it,  *)
(* or 0.                                                                     *)
SelectStrain(hits) ==
  LET named == {i \in DOMAIN hits : hits[i].named} IN IF named = {} THEN 0 ELSE Greatest(named)

(* strain_photos: how many there are to load, of which a drawing that stands *)
(* for any strain is none. The details may be missing.                       *)
StrainPhotos(hit, highlighted) ==
  LET photos == (IF hit.nug = "photo" THEN 1 ELSE 0) + highlighted
  IN IF ~hit.page THEN 0 ELSE IF photos < MaxPhotos THEN photos ELSE MaxPhotos

----------------------------------------------------------------------------
(* split_year *)
HasYear(query) == Len(query) > 1 /\ query[Len(query)] \in Years

(* matches: every result of that title, and that year if there is one, or    *)
(* else the closest.                                                         *)
MatchesOf(results, title, year) ==
  LET inYear == {i \in DOMAIN results : year = NoYear \/ results[i].year = year}
      exact == {i \in inYear : results[i].title = title}
      scored == {i \in inYear : results[i].scored}
  IN IF exact # {} THEN [candidates |-> exact, exact |-> TRUE]
     ELSE [candidates |-> IF scored # {} THEN {Least(scored)}
                          ELSE IF inYear # {} THEN {Least(inYear)} ELSE {},
           exact |-> FALSE]

(* lookup: the results and those of them that are meant, of what the site    *)
(* finds for the query without its year and for all of it.                   *)
TitleFound(query, forTitle, forQuery) ==
  LET titled == MatchesOf(forTitle, Front(query), Last(query))
  IN IF HasYear(query) /\ titled.exact
     THEN [results |-> forTitle, matched |-> titled]
     ELSE [results |-> forQuery, matched |-> MatchesOf(forQuery, query, NoYear)]

(* The first few are compared by how many reviews their pages have; a page   *)
(* without, or that cannot be read, counts less than any.                    *)
Compared(candidates) ==
  {i \in candidates : Cardinality({j \in candidates : j < i}) < MaxCompared}

Reviews(results, i, readable) == IF i \in readable THEN results[i].reviews ELSE -1

Chosen(results, candidates, readable) ==
  LET most == {i \in Compared(candidates) : \A j \in Compared(candidates) :
                 Reviews(results, i, readable) >= Reviews(results, j, readable)}
  IN Least(most)
===============================================================================
