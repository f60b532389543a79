----------------------------- MODULE IndexSearch -----------------------------
(***************************************************************************)
(* Full-text and vector search over one index: what a query is parsed to,  *)
(* which records match, their scores, the ranking and its pages.  A graph  *)
(* with a store asks SQLite's FTS5 for candidates first and keeps those    *)
(* that match; a graph without a store looks at every record.              *)
(*                                                                         *)
(* Text is a sequence of characters, all in lower case; every character    *)
(* but blanks, marks and the underscore is a letter.  A text record is     *)
(* [id, label, fields], a vector record [id, label, vector].  Scores are   *)
(* integers: a text score is scaled by what it is divided by, and of a     *)
(* vector's score only the order matters.                                  *)
(***************************************************************************)
EXTENDS Integers, Sequences, FiniteSets
LOCAL INSTANCE SequencesExt

CONSTANTS
    TextQuestion,    \* [records, fields, tokenizer, mode, text, label]
    VectorQuestion,  \* [records, metric, vector, label, least]
    AnyLabel         \* no filter

Blank == " "
LineBreak == "\n"
Mark == "-"
Underscore == "_"
IsLetter(c) == c \notin {Blank, LineBreak, Mark, Underscore}

\* The longest runs of characters that are kept.
Runs(s, Keep(_)) ==
    LET Next(st, c) ==
            IF Keep(c) THEN [st EXCEPT !.run = Append(@, c)]
            ELSE [done |-> st.done \o (IF st.run = <<>> THEN <<>> ELSE <<st.run>>), run |-> <<>>]
    IN  FoldLeft(Next, [done |-> <<>>, run |-> <<>>], Append(s, Blank)).done

Joined(words, separator) ==
    FoldLeft(LAMBDA s, w : IF s = <<>> THEN w ELSE s \o <<separator>> \o w, <<>>, words)

SplitWhitespace(s) == Runs(s, LAMBDA c : c # Blank)
NormalizeText(s) == Joined(SplitWhitespace(s), Blank)
UnicodeTokens(s) == Runs(s, LAMBDA c : IsLetter(c) \/ c = Underscore)

Places(s, part) == {k \in 1..(Len(s) - Len(part) + 1) : SubSeq(s, k, k + Len(part) - 1) = part}
Occurs(s, part) == Places(s, part) # {}

---------------------------------------------------------------------------
(* Full-text search *)

\* SearchQuery::parse: the units to look for.
Units(q) ==
    LET normalized == NormalizeText(q.text) IN
    IF q.mode = "phrase" THEN <<normalized>>
    ELSE IF q.tokenizer = "unicode61" THEN UnicodeTokens(normalized)
    ELSE SplitWhitespace(normalized)

\* validate_search, and what parse refuses.
Valid(q) ==
    /\ NormalizeText(q.text) # <<>>
    /\ Units(q) # <<>>
    /\ q.tokenizer = "trigram" =>
        q.mode # "prefix" /\ \A k \in DOMAIN Units(q) : Len(Units(q)[k]) >= 3

\* field_matches, for one unit.
UnitIn(q, unit, value) ==
    LET normalized == NormalizeText(value)
        tokens     == ToSet(UnicodeTokens(normalized))
    IN  IF q.mode = "phrase" \/ q.tokenizer = "trigram" THEN Occurs(normalized, unit)
        ELSE IF q.mode = "prefix" THEN \E t \in tokens : IsPrefix(unit, t)
        ELSE unit \in tokens

\* Fields without a string value are not looked at.
Present(q, r) == {f \in ToSet(q.fields) : f \in DOMAIN r.fields}

MatchedFields(q, r) ==
    {f \in Present(q, r) : \E k \in DOMAIN Units(q) : UnitIn(q, Units(q)[k], r.fields[f])}

MatchedUnits(q, r) ==
    {k \in DOMAIN Units(q) : \E f \in Present(q, r) : UnitIn(q, Units(q)[k], r.fields[f])}

Accepted(q, r) ==
    IF q.mode = "any" THEN MatchedUnits(q, r) # {} ELSE MatchedUnits(q, r) = DOMAIN Units(q)

\* 0.8 of the share of units and 0.2 of the share of fields.
TextScore(q, r) ==
    8 * Cardinality(MatchedUnits(q, r)) * Len(q.fields)
        + 2 * Cardinality(MatchedFields(q, r)) * Len(Units(q))

Passes(q, r) == q.label = AnyLabel \/ r.label = q.label

\* insert_fulltext_entity: the text of an FTS5 row, of the fields that are not blank.
Content(q, r) ==
    LET kept == SelectSeq(q.fields, LAMBDA f : /\ f \in Present(q, r)
                                               /\ NormalizeText(r.fields[f]) # <<>>)
    IN  Joined([k \in DOMAIN kept |-> r.fields[kept[k]]], LineBreak)

\* FTS5: unicode61 cuts at everything but letters, and a quoted string is a phrase
\* of its tokens, of which an empty one matches nothing; trigram finds substrings.
FtsTokens(s) == Runs(s, IsLetter)

FtsPhrase(q, unit, content) ==
    IF q.tokenizer = "trigram" THEN Occurs(content, unit)
    ELSE LET tokens == FtsTokens(content)
             phrase == FtsTokens(unit)
         IN  /\ phrase # <<>>
             /\ \E k \in 1..(Len(tokens) - Len(phrase) + 1) : \A i \in DOMAIN phrase :
                    IF q.mode = "prefix" /\ i = Len(phrase)
                    THEN IsPrefix(phrase[i], tokens[k + i - 1])
                    ELSE tokens[k + i - 1] = phrase[i]

\* Wrong variant: "any" asks for all of the units.
FtsMatchAll(q, content) == \A k \in DOMAIN Units(q) : FtsPhrase(q, Units(q)[k], content)

\* fts_expression: units joined by OR for "any", by AND otherwise.
FtsMatch(q, content) ==
    IF q.mode = "any" THEN \E k \in DOMAIN Units(q) : FtsPhrase(q, Units(q)[k], content)
    ELSE \A k \in DOMAIN Units(q) : FtsPhrase(q, Units(q)[k], content)

Candidates(q) == {r \in q.records : Content(q, r) # <<>> /\ FtsMatch(q, Content(q, r))}

Better(a, b) == a.score > b.score \/ (a.score = b.score /\ a.id < b.id)

\* search_text: the ranked results among the candidates.
SearchText(q, candidates) ==
    SetToSortSeq({[id |-> r.id, score |-> TextScore(q, r), matched |-> MatchedFields(q, r)] :
                    r \in {x \in candidates : Passes(q, x) /\ Accepted(q, x)}}, Better)

\* skip and take
Page(results, offset, limit) ==
    SubSeq(results, offset + 1, IF offset + limit > Len(results) THEN Len(results) ELSE offset + limit)

---------------------------------------------------------------------------
(* Vector search *)

Sum(f) == FoldLeft(LAMBDA a, b : a + b, 0, f)

\* Euclidean scores fall with the distance.
Similarity(metric, query, candidate) ==
    IF metric = "dot" THEN Sum([k \in DOMAIN query |-> query[k] * candidate[k]])
    ELSE -Sum([k \in DOMAIN query |-> (query[k] - candidate[k]) * (query[k] - candidate[k])])

\* search_validated_vector, before the page is cut.
SearchVector(q) ==
    LET score(r) == Similarity(q.metric, q.vector, r.vector) IN
    SetToSortSeq({[id |-> r.id, score |-> score(r)] :
                    r \in {x \in q.records : Passes(q, x) /\ score(x) >= q.least}}, Better)

---------------------------------------------------------------------------
(* What is asked: a question, and the page of its answer *)

VARIABLE asked

NotAsked == [kind |-> "nothing"]

InitAsked ==
    \/ \E q \in {x \in TextQuestion : Valid(x)} : asked = [kind |-> "text", q |-> q]
    \/ \E q \in VectorQuestion : asked = [kind |-> "vector", q |-> q]

\* The phrase stands at the beginning and at the end of words.
WholeWords(value, phrase) ==
    LET s == NormalizeText(value) IN
    \E k \in Places(s, phrase) :
        /\ k > 1 /\ IsLetter(phrase[1]) => ~IsLetter(s[k - 1])
        /\ k + Len(phrase) <= Len(s) /\ IsLetter(Last(phrase)) => ~IsLetter(s[k + Len(phrase)])

\* What FTS5 cannot be expected to find: a phrase that is matched inside words, or
\* (by trigram) in a text whose blanks are not single ones, and a unit without a
\* letter, such as an underscore, which is a token to the filter only.
BeyondFts(q, r) ==
    \/ /\ q.mode = "phrase"
       /\ \A f \in MatchedFields(q, r) :
            IF q.tokenizer = "trigram" THEN NormalizeText(r.fields[f]) # r.fields[f]
            ELSE ~WholeWords(r.fields[f], Units(q)[1])
    \/ /\ q.tokenizer = "unicode61"
       /\ \E k \in MatchedUnits(q, r) : FtsTokens(Units(q)[k]) = <<>>

IdsIn(results) == {results[k].id : k \in DOMAIN results}

\* With candidates from FTS5 a text search returns what it returns without: same
\* records, scores and order, but for what is beyond FTS5 (above); and the pages
\* of any search are its ranking, cut (fulltext.rs:82-155, 237-365, vector.rs:196-260,
\* sqlite.rs:324-350, 626-655; "the same final filtering and ordering",
\* fulltext-search.md:59-62).
SearchesAgree ==
    /\ asked.kind = "text" =>
        LET q      == asked.q
            memory == SearchText(q, q.records)
            store  == SearchText(q, Candidates(q))
        IN  /\ store = SelectSeq(memory, LAMBDA x : x.id \in IdsIn(store))
            /\ \A r \in q.records :
                r.id \in IdsIn(memory) \ IdsIn(store) => BeyondFts(q, r)
            /\ \A limit \in 1..2 :
                FlattenSeq([k \in 1..Len(memory) |-> Page(memory, (k - 1) * limit, limit)]) = memory
    /\ asked.kind = "vector" =>
        LET results == SearchVector(asked.q) IN
        /\ \A i, j \in DOMAIN results : i < j => Better(results[i], results[j])
        /\ \A limit \in 1..2 :
            FlattenSeq([k \in 1..Len(results) |-> Page(results, (k - 1) * limit, limit)]) = results
=============================================================================
