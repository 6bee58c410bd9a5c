------------------------------- MODULE Search -------------------------------
(***************************************************************************)
(* IMAP SEARCH and UID SEARCH: the parser and the matcher of search.rs, the *)
(* view of a message they compare (session.rs) and the full-text index     *)
(* they ask (store.rs), while bodies come into the cache, are indexed and   *)
(* leave the cache.                                                         *)
(*                                                                         *)
(* A query is a sequence of tokens.  A text is the set of the terms found  *)
(* in it; an argument's word has its meaning as a date, a number or a      *)
(* sequence set from the constants, or none.                               *)
(***************************************************************************)
EXTENDS Integers, Sequences, SequencesExt, FiniteSets

CONSTANTS
    Message,        \* the mails the session shows, in order
    Vocabulary,     \* the tokens a client uses
    MaxTokens,      \* bound: tokens of a query
    CivilOf,        \* words that are dates, and their year, month and day
    NumberOf,       \* words that are numbers, and their values
    PartsOf,        \* words that are sequence sets, and their parts
    None

VARIABLES
    state,      \* of the session
    body,       \* body[i]: what the cache has of message i
    indexed,    \* messages whose text is in mail_fts
    asked, mode, lookup,  \* the last query, UID or not, and whether the index was readable
    answer      \* the numbers answered; None for a NO, and once something changed

searchVars == <<state, body, indexed, asked, mode, lookup, answer>>

-----------------------------------------------------------------------------
(* Sequence sets.                                                          *)

Star == -1
NotANumber == -2
Open == -3      \* SeqRange::end = None

\* The parts between the commas; one that is no number is left out.
ParseSeqset(parts) ==
    LET Start(a) == IF a \in {Star, NotANumber} THEN 0 ELSE a
        End(b) == IF b \in {Star, NotANumber} THEN Open ELSE b
        Range1(p) ==
            CASE Len(p) = 2 -> <<Start(p[1]), End(p[2])>>
              [] p = <<Star>> -> <<0, Open>>
              [] OTHER -> <<p[1], p[1]>>
    IN {Range1(p) : p \in {q \in ToSet(parts) : q # <<NotANumber>>}}

SeqSetContains(ranges, n) ==
    \E r \in ranges :
        IF r[2] = Open THEN n >= r[1]
        ELSE (r[1] <= n /\ n <= r[2]) \/ (r[2] <= n /\ n <= r[1])

-----------------------------------------------------------------------------
(* Dates.                                                                  *)

\* Days since 1970-01-01, with the years counted from March.
DaysFromCivil(year, m, d) ==
    LET y == IF m <= 2 THEN year - 1 ELSE year
        era == y \div 400
        yoe == y - era * 400
        doy == (153 * ((m + 9) % 12) + 2) \div 5 + d - 1
    IN era * 146097 + yoe * 365 + yoe \div 4 - yoe \div 100 + doy - 719468

\* parse_imap_date, for the words that are dates.
DayOf == [w \in DOMAIN CivilOf |-> DaysFromCivil(CivilOf[w][1], CivilOf[w][2], CivilOf[w][3])]

-----------------------------------------------------------------------------
(* The parser.  A result is what was read and the next token's place; no   *)
(* key at all is the empty sequence.                                       *)

Atom(w) == [kind |-> "atom", word |-> w]
Quoted(w) == [kind |-> "quoted", word |-> w]
LParen == [kind |-> "(", word |-> ""]
RParen == [kind |-> ")", word |-> ""]

FlagWords == {"SEEN", "UNSEEN", "ANSWERED", "UNANSWERED", "FLAGGED", "UNFLAGGED", "DRAFT",
              "UNDRAFT", "DELETED", "UNDELETED", "RECENT", "NEW", "OLD"}
StringWords == {"SUBJECT", "FROM", "TO", "CC", "BCC", "BODY", "TEXT"}
DateWords == {"BEFORE", "ON", "SINCE", "SENTBEFORE", "SENTON", "SENTSINCE"}
SizeWords == {"LARGER", "SMALLER"}
Arguments == StringWords \cup DateWords \cup SizeWords
             \cup {"KEYWORD", "UNKEYWORD", "HEADER", "CHARSET", "UID"}
Recognised == {"ALL", "OR", "NOT"} \cup FlagWords \cup Arguments

All == <<"All">>

FoldAnd(keys) ==
    CASE Len(keys) = 0 -> All [] Len(keys) = 1 -> keys[1] [] OTHER -> <<"And", keys>>

OrAll(r) == IF r.keys = <<>> THEN All ELSE r.keys[1]
Read(key, i) == [keys |-> <<key>>, i |-> i]

\* next_arg: an atom or a string, or nothing and the place is kept.
NextArg(ts, i) ==
    IF i <= Len(ts) /\ ts[i].kind \in {"atom", "quoted"}
    THEN [word |-> ts[i].word, i |-> i + 1] ELSE [word |-> "", i |-> i]

\* date_key and size_key: an argument without a value restricts nothing.
ValueKey(op, w, values, arg) ==
    Read(IF arg.word \in DOMAIN values THEN <<op, w, values[arg.word]>> ELSE All, arg.i)

RECURSIVE ParseKey(_, _), ParseKeyList(_, _, _), ParseAtomKey(_, _, _)

ParseAtomKey(w, ts, i) ==
    LET arg == NextArg(ts, i)
        second == NextArg(ts, arg.i)
        a == ParseKey(ts, i)
        b == ParseKey(ts, a.i)
    IN CASE w = "ALL" -> Read(All, i)
         [] w \in FlagWords -> Read(<<"Flag", w>>, i)
         [] w = "OR" -> Read(<<"Or", OrAll(a), OrAll(b)>>, b.i)
         [] w = "NOT" -> Read(<<"Not", OrAll(a)>>, a.i)
         [] w = "CHARSET" -> LET k == ParseKey(ts, arg.i) IN Read(OrAll(k), k.i)
         [] w \in StringWords -> Read(<<"String", w, arg.word>>, arg.i)
         [] w \in {"KEYWORD", "UNKEYWORD"} -> Read(<<"Flag", w>>, arg.i)
         [] w = "HEADER" -> Read(<<"Header", arg.word, second.word>>, second.i)
         [] w \in DateWords -> ValueKey("Date", w, DayOf, arg)
         [] w \in SizeWords -> ValueKey("Size", w, NumberOf, arg)
         [] w = "UID" ->
              Read(<<"Uid", IF arg.word \in DOMAIN PartsOf THEN ParseSeqset(PartsOf[arg.word])
                            ELSE {}>>, arg.i)
         [] w \notin Recognised /\ w \in DOMAIN PartsOf ->
              Read(<<"Sequence", ParseSeqset(PartsOf[w])>>, i)
         [] OTHER -> Read(All, i)

ParseKey(ts, i) ==
    IF i > Len(ts) THEN [keys |-> <<>>, i |-> i]
    ELSE CASE ts[i] = LParen ->
                LET l == ParseKeyList(ts, i + 1, TRUE) IN Read(FoldAnd(l.keys), l.i)
           [] ts[i] = RParen -> [keys |-> <<>>, i |-> i + 1]
           [] ts[i].kind = "quoted" -> Read(All, i + 1)
           [] OTHER -> ParseAtomKey(ts[i].word, ts, i + 1)

\* Up to the end, or the parenthesis that closes the group; a stray one at the
\* top is passed over.
ParseKeyList(ts, i, inGroup) ==
    IF i > Len(ts) THEN [keys |-> <<>>, i |-> i]
    ELSE IF ts[i] = RParen
         THEN IF inGroup THEN [keys |-> <<>>, i |-> i + 1] ELSE ParseKeyList(ts, i + 1, FALSE)
         ELSE LET k == ParseKey(ts, i)
                  rest == ParseKeyList(ts, k.i, inGroup)
              IN IF k.keys = <<>> THEN k ELSE [keys |-> k.keys \o rest.keys, i |-> rest.i]

Parse(ts) == FoldAnd(ParseKeyList(ts, 1, FALSE).keys)

-----------------------------------------------------------------------------
(* What is compared.                                                       *)

\* address_headers: from the details, from the rendered message (which has no
\* Bcc), or the one recipient that the mail itself names.
Addresses(i) ==
    LET m == Message[i]
    IN CASE body[i] = "details" -> [to |-> m.to, cc |-> m.cc, bcc |-> m.bcc]
         [] body[i] = "disk" -> [to |-> m.to, cc |-> m.cc, bcc |-> {}]
         [] body[i] = "cold" -> [to |-> m.first, cc |-> {}, bcc |-> {}]

\* build_search_view: a cold body is not fetched, the placeholder stands in.
BuildSearchView(i) ==
    LET m == Message[i]
        addr == Addresses(i)
    IN [seq |-> i, uid |-> m.uid, subject |-> m.subject, from |-> m.from,
        to |-> addr.to, cc |-> addr.cc, bcc |-> addr.bcc,
        headers |-> [Subject |-> m.subject, From |-> m.from, To |-> addr.to, Cc |-> addr.cc],
        date |-> m.received,
        sent |-> IF body[i] = "details" THEN m.sent ELSE m.received,
        unread |-> m.unread, deleted |-> m.deleted,
        size |-> IF body[i] = "cold" THEN m.stub ELSE m.size]

\* fts_match_expr and search_body: nothing for a term without a word.
SearchBody(term) == {i \in indexed : term # "" /\ term \in Message[i].text}

\* resolve_body_search: a term whose lookup failed has no hits.
BodyMatches(term, v, readable) == readable /\ v.seq \in SearchBody(term)

ContainsCi(text, term) == term = "" \/ term \in text

HeaderContains(headers, name, value) ==
    name \in DOMAIN headers /\ headers[name] # {} /\ ContainsCi(headers[name], value)

\* \Seen and \Deleted are the only flags there are.
FlagMatches(f, v) ==
    CASE f = "SEEN" -> ~v.unread [] f = "UNSEEN" -> v.unread
      [] f = "DELETED" -> v.deleted [] f = "UNDELETED" -> ~v.deleted
      [] f \in {"ANSWERED", "FLAGGED", "DRAFT", "RECENT", "NEW", "KEYWORD"} -> FALSE
      [] OTHER -> TRUE

StringMatches(w, s, v, readable) ==
    CASE w = "SUBJECT" -> ContainsCi(v.subject, s) [] w = "FROM" -> ContainsCi(v.from, s)
      [] w = "TO" -> ContainsCi(v.to, s) [] w = "CC" -> ContainsCi(v.cc, s)
      [] w = "BCC" -> ContainsCi(v.bcc, s)
      [] w = "BODY" -> BodyMatches(s, v, readable)
      [] w = "TEXT" -> \/ \E h \in DOMAIN v.headers : ContainsCi(v.headers[h], s)
                       \/ BodyMatches(s, v, readable)

DateMatches(w, d, v) ==
    CASE w = "BEFORE" -> v.date < d [] w = "ON" -> v.date = d [] w = "SINCE" -> v.date >= d
      [] w = "SENTBEFORE" -> v.sent < d [] w = "SENTON" -> v.sent = d
      [] w = "SENTSINCE" -> v.sent >= d

RECURSIVE Matches(_, _, _)
Matches(key, v, readable) ==
    CASE key[1] = "All" -> TRUE
      [] key[1] = "And" -> \A j \in DOMAIN key[2] : Matches(key[2][j], v, readable)
      [] key[1] = "Or" -> Matches(key[2], v, readable) \/ Matches(key[3], v, readable)
      [] key[1] = "Not" -> ~Matches(key[2], v, readable)
      [] key[1] = "Flag" -> FlagMatches(key[2], v)
      [] key[1] = "String" -> StringMatches(key[2], key[3], v, readable)
      [] key[1] = "Header" -> HeaderContains(v.headers, key[2], key[3])
      [] key[1] = "Date" -> DateMatches(key[2], key[3], v)
      [] key[1] = "Size" -> IF key[2] = "LARGER" THEN v.size > key[3] ELSE v.size < key[3]
      [] key[1] = "Uid" -> SeqSetContains(key[2], v.uid)
      [] key[1] = "Sequence" -> SeqSetContains(key[2], v.seq)

\* The messages that match, in order, by number or by UID.
Result(ts, uidMode, readable) ==
    LET hits == SelectSeq([i \in DOMAIN Message |-> i],
                          LAMBDA i : Matches(Parse(ts), BuildSearchView(i), readable))
    IN [k \in DOMAIN hits |-> IF uidMode THEN Message[hits[k]].uid ELSE hits[k]]

-----------------------------------------------------------------------------
CmdSearch(ts, uidMode) ==
    /\ asked' = ts /\ mode' = uidMode
    /\ lookup' \in BOOLEAN
    /\ answer' = IF state = "Selected" THEN Result(ts, uidMode, lookup') ELSE None
    /\ UNCHANGED <<state, body, indexed>>

Between == asked' = <<>> /\ answer' = None /\ UNCHANGED <<state, mode, lookup>>

\* A body is fetched, read back from disk, or leaves the cache.
BodyComes(i) ==
    /\ body[i] = "cold"
    /\ \E b \in {"details", "disk"} : body' = [body EXCEPT ![i] = b]
    /\ UNCHANGED indexed /\ Between

BodyLeaves(i) ==
    /\ body[i] # "cold"
    /\ body' = [body EXCEPT ![i] = "cold"]
    /\ UNCHANGED indexed /\ Between

IndexBody(i) ==
    /\ i \notin indexed
    /\ indexed' = indexed \cup {i}
    /\ UNCHANGED body /\ Between

SearchInit ==
    /\ state \in {"Authenticated", "Selected"}
    /\ body = [i \in DOMAIN Message |-> "cold"] /\ indexed = {}
    /\ asked = <<>> /\ mode = FALSE /\ lookup = TRUE /\ answer = None

SearchNext ==
    \/ \E ts \in UNION {[1..n -> Vocabulary] : n \in 1..MaxTokens}, u \in BOOLEAN :
          CmdSearch(ts, u)
    \/ \E i \in DOMAIN Message : BodyComes(i) \/ BodyLeaves(i) \/ IndexBody(i)

SearchSpec == SearchInit /\ [][SearchNext]_searchVars

-----------------------------------------------------------------------------
\* A word in the place of a criterion that the parser does not know.
Unknown(ts, i) ==
    /\ ts[i].kind = "atom" /\ ts[i].word \notin Recognised \cup DOMAIN PartsOf
    /\ i > 1 => ts[i - 1].word \notin Arguments

\* The query when every unknown criterion means w.
Meaning(ts, w) == [i \in DOMAIN ts |-> IF Unknown(ts, i) THEN Atom(w) ELSE ts[i]]

\* "an unrecognised criterion degrades to a non-restrictive match (it never
\* *hides* messages)" (search.rs:15): whatever an unknown criterion was meant to
\* say, from nothing at all to everything, the messages that the client asked
\* for are in the answer.
UnrecognisedHidesNothing ==
    answer # None =>
        \A w \in {"ALL", "ANSWERED"} :
            ToSet(Result(Meaning(asked, w), mode, lookup)) \subseteq ToSet(answer)
=============================================================================
