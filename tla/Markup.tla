------------------------------- MODULE Markup -------------------------------
(***************************************************************************)
(* Texts, URLs and HTML documents, as the page checks see them: what       *)
(* BeautifulSoup, urllib and the regular expressions of the checks answer. *)
(*                                                                         *)
(* A text is a sequence of phrases.  A phrase has its identity, its length *)
(* in characters, its count of words, the significant words among them,    *)
(* and how often each pattern a check looks for occurs in it.  The phrases *)
(* of a title are what its separators leave, the site's name last.         *)
(*                                                                         *)
(* A URL has its identity, that of its normalised form (without the slash  *)
(* at its end), scheme, host (and the host without "www."), the segments   *)
(* of its path, whether a slash ends it, and marks: what the checks        *)
(* recognise in its spelling.                                              *)
(*                                                                         *)
(* A document is a function from positions to elements; an element has a   *)
(* tag, the positions of its ancestors, the text that is directly its own, *)
(* marks (what its class names look like), and its attributes.             *)
(***************************************************************************)
EXTENDS Naturals, Integers, FiniteSets, FiniteSetsExt, SequencesExt

\* No value where there may be none.
Unknown == -1

NoText == <<>>

Chars(t) == FoldLeft(LAMBDA n, p : n + p.n, 0, t)
Count(t) == FoldLeft(LAMBDA n, p : n + p.count, 0, t)
Words(t) == UNION {t[i].words : i \in DOMAIN t}

hits(t, pattern) ==
    FoldLeft(LAMBDA n, p : n + IF pattern \in DOMAIN p.marks THEN p.marks[pattern] ELSE 0, 0, t)
matches(t, pattern) == hits(t, pattern) > 0

\* The phrases that begin within the first n words.
FirstWords(t, n) ==
    SubSeq(t, 1, Cardinality({i \in DOMAIN t : Count(SubSeq(t, 1, i - 1)) < n}))

-----------------------------------------------------------------------------
NoUrl == [id |-> "", norm |-> "", scheme |-> "", host |-> "", site |-> "", path |-> <<>>, slash |-> FALSE,
          query |-> FALSE, pdf |-> FALSE, n |-> 0, marks |-> {}]

is_same_domain(u, v) == u.site = v.site
OverHttp(u) == u.scheme \in {"http", "https"}

\* A directory of the path is one of the segments given.
InPath(u, segments) ==
    \E i \in 1 .. Len(u.path) : u.path[i] \in segments /\ (i < Len(u.path) \/ u.slash)

-----------------------------------------------------------------------------
Has(e, a) == a \in DOMAIN e.attrs
Get(e, a, default) == IF Has(e, a) THEN e.attrs[a] ELSE default

find_all(d, tags) == {i \in DOMAIN d : d[i].tag \in tags}
within(d, i, tags) == \E j \in d[i].up : d[j].tag \in tags
below(d, i) == {j \in DOMAIN d : i \in d[j].up}
parent(d, i) == Max(d[i].up)

InOrder(S) ==
    IF S = {} THEN <<>> ELSE SelectSeq([i \in 1 .. Max(S) |-> i], LAMBDA i : i \in S)

\* The text of an element and of those in it, and of a set of elements.
TextOf(d, S) ==
    LET s == InOrder(S) IN FlattenSeq([k \in DOMAIN s |-> d[s[k]].text])
get_text(d, i) == TextOf(d, {i} \cup below(d, i))

\* The document without the elements of the body that have these tags.
decompose(d, tags) ==
    [i \in {k \in DOMAIN d : ~(/\ within(d, k, {"body"})
                               /\ d[k].tag \in tags \/ within(d, k, tags))} |-> d[i]]

siblings_after(d, i) == {j \in DOMAIN d : j > i /\ d[j].up = d[i].up}

=============================================================================
