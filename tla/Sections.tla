------------------------------ MODULE Sections ------------------------------
(***************************************************************************)
(* From the tokens of a document to the files of its EPUB: split_sections  *)
(* cuts at every H1, each section becomes an XHTML file that is degraded   *)
(* to plain text when it is not well formed, and the package, the nav and  *)
(* the NCX list the files.  The parser adds a document's footnotes behind  *)
(* its last token.  A document that gives itself no title is titled by     *)
(* what looks like its first H1.                                           *)
(***************************************************************************)
EXTENDS Integers, Sequences, SequencesExt, Enumerate

CONSTANTS
    Headlines,      \* texts of a heading, "" included
    FrontTitles,    \* titles a front matter may give, "" for none
    FileTitle,      \* the title made of the file's name
    Unprintable,    \* those that hold a character XML forbids
    MaxTokens       \* bound of the exploration

ASSUME HeadlinesAssumption ==
    /\ "control" \in Unprintable
    /\ Unprintable \cap {"", "text", "ref", "raw", "atx", "fence", FileTitle} = {}

VARIABLES
    front,     \* the title in the front matter
    doc,       \* the tokens so far
    book       \* the EPUB once it is written, else <<>>

sectionVars == <<front, doc, book>>

\* text; a reference to a footnote; raw markup that is not XML; a character
\* that XML forbids, escaped or not; where an outermost quotation or list
\* begins and ends; the footnotes themselves, without headings of their own
Blocks == {"text", "ref", "raw", "control", "open", "close", "notes"}

\* An H1 begins with a # or is underlined; a line in a code block may begin
\* with a # too.
DocTokens == [is : Blocks, text : {""}] \cup [is : {"atx"}, text : Headlines]
             \cup [is : {"under", "fence"}, text : Headlines \ {""}]
\* What a title may be: of a line without a text of its own, its kind.
Titles == Headlines \cup FrontTitles \cup {"", FileTitle}
          \cup Blocks \cup {"atx", "under", "fence"}
Block(b) == [is |-> b, text |-> ""]
IsH1(token) == token.is \in {"atx", "under"}
Forbidden(token) == token.is = "control" \/ token.text \in Unprintable

\* The place k lies in a quotation or a list.
Nested(tokens, k) ==
    \E j \in 1..(k - 1) : /\ tokens[j].is = "open"
                          /\ \A i \in (j + 1)..(k - 1) : tokens[i].is # "close"
Balanced(span) ==
    /\ ~Nested(span, Len(span) + 1)
    /\ \A k \in DOMAIN span : span[k].is = "close" => Nested(span, k)

SectionsTypeOK ==
    /\ front \in FrontTitles /\ doc \in Seq(DocTokens)
    /\ \A i \in DOMAIN book :
           /\ book[i].span \in Seq(DocTokens)
           /\ book[i].title \in Titles
           /\ book[i].anchor \in Nat /\ book[i].plain \in BOOLEAN

Holds(span, b) == \E i \in DOMAIN span : span[i] = Block(b)

\* The parser puts the footnotes at the end.
Parsed == IF Holds(doc, "ref") THEN Append(doc, Block("notes")) ELSE doc

\* What _H1_RE finds in the source: a line with a # at its very start, in a
\* code block or not, and what follows it, on a later line if on none before.
LinesBehind(tokens, i) ==
    InOrder({k \in DOMAIN tokens : k > i /\ tokens[k].is \notin {"open", "close"}}, Len(tokens))
Found(tokens, i) ==
    /\ ~Nested(tokens, i)
    /\ \/ tokens[i].is \in {"atx", "fence"} /\ tokens[i].text # ""
       \/ tokens[i].is = "atx" /\ LinesBehind(tokens, i) # <<>>
Line(token) == IF token.text # "" /\ token.is # "fence" THEN token.text ELSE token.is
Sought(tokens, i) ==
    IF tokens[i].text # "" THEN tokens[i].text ELSE Line(tokens[LinesBehind(tokens, i)[1]])

\* frontmatter.split: the title of a document.
TitleIn(stated, tokens) ==
    LET found == InOrder({i \in DOMAIN tokens : Found(tokens, i)}, Len(tokens)) IN
    IF stated # "" THEN stated
    ELSE IF found = <<>> THEN FileTitle ELSE Sought(tokens, found[1])
DocTitle == TitleIn(front, doc)

\* Where a chunk starts: at every H1, nested or not, and at the first token.
Starts(tokens) == InOrder({i \in DOMAIN tokens : IsH1(tokens[i]) \/ i = 1}, Len(tokens))

Headed(span) == span # <<>> /\ IsH1(span[1]) /\ span[1].text # ""
TitleOf(span, default) == IF Headed(span) THEN span[1].text ELSE default

\* Mutant: the slice of a section has a start and no end.
EndOpen(tokens, b, n) == Len(tokens)

EndOf(tokens, b, n) == IF n < Len(b) THEN b[n + 1] - 1 ELSE Len(tokens)

\* Without an H1 the document is one chunk; else what comes before the first
\* is a chunk of its own, unless there is nothing.
Chunked(tokens) ==
    LET b == Starts(tokens)
    IN  [n \in DOMAIN b |-> SubSeq(tokens, b[n], EndOf(tokens, b, n))]

\* _wellformed, of the file of a section, which holds its title as well, and
\* of the file with the section's markup escaped
EscapedWellformed(span, title) ==
    title \notin Unprintable /\ \A i \in DOMAIN span : ~Forbidden(span[i])
Wellformed(span, title) ==
    EscapedWellformed(span, title) /\ ~Holds(span, "raw") /\ Balanced(span)

\* Mutant: one section that is not well formed makes the whole book plain.
PlainByBook(spans, n, default) ==
    \E m \in DOMAIN spans : ~Wellformed(spans[m], TitleOf(spans[m], default))

\* _render_section: the fallback is not checked again.
Plain(spans, n, default) == ~Wellformed(spans[n], TitleOf(spans[n], default))

\* A document without a block is one section that says so.
Rendered(chunks, default) ==
    LET spans == IF chunks = <<>> THEN <<chunks>> ELSE chunks IN
    [n \in DOMAIN spans |->
        [span |-> spans[n], title |-> TitleOf(spans[n], default), anchor |-> n - 1,
         plain |-> Plain(spans, n, default)]]

SectionsInit == front \in FrontTitles /\ doc = <<>> /\ book = <<>>

\* A quotation or a list holds something, and ends.
TakesBlock(token) ==
    /\ book = <<>> /\ Len(doc) < MaxTokens
    /\ token.is = "open" => ~Nested(doc, Len(doc) + 1)
    /\ token.is = "close" => /\ Nested(doc, Len(doc) + 1)
                             /\ doc[Len(doc)].is # "open"
    /\ doc' = Append(doc, token)
    /\ UNCHANGED <<front, book>>

WriteEpub ==
    /\ book = <<>> /\ ~Nested(doc, Len(doc) + 1)
    /\ book' = Rendered(Chunked(Parsed), DocTitle)
    /\ UNCHANGED <<front, doc>>

SectionsNext ==
    \/ \E token \in DocTokens \ {Block("notes")} : TakesBlock(token)
    \/ WriteEpub

SectionsSpec == SectionsInit /\ [][SectionsNext]_sectionVars

-----------------------------------------------------------------------------
\* _render_opf, _render_nav, _render_ncx
Spine == [i \in DOMAIN book |-> book[i].anchor]
Nav == [i \in DOMAIN book |-> [file |-> book[i].anchor, label |-> book[i].title]]
SectionFile(a) == CHOOSE s \in ToSet(book) : s.anchor = a
Readable(s) ==
    IF s.plain THEN EscapedWellformed(s.span, s.title) ELSE Wellformed(s.span, s.title)
\* The package and the NCX hold the document's title, the nav the labels.
ContentsReadable ==
    DocTitle \notin Unprintable /\ \A i \in DOMAIN Nav : Nav[i].label \notin Unprintable

(* Read along the spine the book is the document, block for block; every   *)
(* H1 opens a file, and the contents lead to it under its own text.        *)
SpineIsDocument ==
    book # <<>> =>
        /\ FlattenSeq([i \in DOMAIN Spine |-> SectionFile(Spine[i]).span]) = Parsed
        /\ \A i \in DOMAIN book : book[i].span # <<>> =>
               /\ \A k \in 2..Len(book[i].span) : ~IsH1(book[i].span[k])
               /\ Headed(book[i].span) => Nav[i].label = book[i].span[1].text

\* A file is hurt by a forbidden character of its own, or by one in the title
\* of the document when it goes by that title.
Hurt(s) ==
    \/ \E k \in DOMAIN s.span : Forbidden(s.span[k])
    \/ ~Headed(s.span) /\ DocTitle \in Unprintable

(* No reader opens a file that is hurt, and the contents of the book are   *)
(* lost when a heading or the document's title is; any other file opens.   *)
(* Raw markup costs its own section the layout, and unless an H1 stands in *)
(* a quotation or a list, which is then cut in two, no other section loses *)
(* its own.                                                                *)
DamageStaysApart ==
    /\ \A i \in DOMAIN book :
           LET s == book[i] IN
           /\ ~Readable(s) <=> Hurt(s)
           /\ Hurt(s) \/ Holds(s.span, "raw") => s.plain
           /\ /\ s.plain
              /\ \A k \in DOMAIN doc : IsH1(doc[k]) => ~Nested(doc, k)
              => Hurt(s) \/ Holds(s.span, "raw")
    /\ book # <<>> =>
           (ContentsReadable <=>
              /\ DocTitle \notin Unprintable
              /\ \A k \in DOMAIN doc : IsH1(doc[k]) => doc[k].text \notin Unprintable)
=============================================================================
