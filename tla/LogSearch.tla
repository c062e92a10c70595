------------------------------ MODULE LogSearch -------------------------------
(****************************************************************************)
(* What a command reads of its room's log, src/message_log.rs: the newest    *)
(* messages, and the ones that match a query best. A message is the words    *)
(* that a search reads of it: its sender, its text, the bot's reply, and     *)
(* what its links are called.                                                *)
(****************************************************************************)
EXTENDS Integers, SequencesExt

CONSTANTS
  LowerWord,  \* to_lowercase, which queries and matches go by
  LowerRow,   \* SQLite's lower, which leaves capitals outside ASCII alone
  Stopwords,  \* SEARCH_STOPWORDS
  MaxTerms    \* MAX_SEARCH_TERMS

(* Lower case goes by more letters than SQLite's lower does.                 *)
ASSUME LogSearchAssumption ==
  /\ MaxTerms \in Nat
  /\ \A row, word \in DOMAIN LowerWord :
       LowerRow[row] = LowerWord[word] => LowerWord[row] = LowerWord[word]

(* search_terms, of the words of a query; the first of them count.           *)
Terms(query) ==
  FoldLeft(LAMBDA terms, word :
             IF LowerWord[word] \in Stopwords \/ Len(terms) = MaxTerms THEN terms
             ELSE Append(terms, LowerWord[word]),
           <<>>, query)

InRow(message, term) == \E word \in message.words : LowerRow[word] = term

(* match_score: a term that is repeated counts again. *)
Score(message, terms) ==
  Cardinality({i \in DOMAIN terms : \E word \in message.words : LowerWord[word] = terms[i]})

(* What may be found at all: SQLite's rows that have one of the terms, other *)
(* than those of earlier searches.                                           *)
Candidates(log, terms) ==
  {n \in DOMAIN log :
     /\ \E i \in DOMAIN terms : InRow(log[n], terms[i])
     /\ ~log[n].search
     /\ Score(log[n], terms) > 0}

(* Mutant: the newest of the matches, however little they match. *)
NewerBefore(log, terms, a, b) ==
  LET ta == log[a].ts
      tb == log[b].ts
  IN ta > tb \/ (ta = tb /\ a < b)

(* Better matches come first, then newer ones, then those logged earlier.    *)
Before(log, terms, a, b) ==
  LET sa == Score(log[a], terms)
      sb == Score(log[b], terms)
  IN \/ sa > sb
     \/ sa = sb /\ log[a].ts > log[b].ts
     \/ sa = sb /\ log[a].ts = log[b].ts /\ a < b

(* The elements of S in an order in which no two are tied. *)
InOrder(S, Precedes(_, _)) ==
  CHOOSE seq \in [1..Cardinality(S) -> S] :
    \A i, j \in DOMAIN seq : i < j => Precedes(seq[i], seq[j])

(* search: the places of the matches that are kept, the oldest first.        *)
Search(log, query, limit) ==
  LET terms == Terms(query)
      found == Candidates(log, terms)
      kept == {n \in found : Cardinality({m \in found : Before(log, terms, m, n)}) < limit}
  IN InOrder(kept, LAMBDA a, b :
       log[a].ts < log[b].ts \/ (log[a].ts = log[b].ts /\ Before(log, terms, a, b)))

(* Mutant: one more than there are. *)
NewestOneMore(log, count) ==
  LET first == IF count <= Len(log) THEN Len(log) - count ELSE 1
  IN [i \in 1..(Len(log) - first + 1) |-> first + i - 1]

(* recent, in the order the messages were logged in. *)
Newest(log, count) ==
  LET first == IF count < Len(log) THEN Len(log) - count + 1 ELSE 1
  IN [i \in 1..(Len(log) - first + 1) |-> first + i - 1]
===============================================================================
