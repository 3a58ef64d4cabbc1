-------------------------------- MODULE Chunks --------------------------------
(***************************************************************************)
(* The scanner's chunker: blocks, pieces, chunks.  A document is a sequence *)
(* of lines, its text a sequence of characters; a character is known by its *)
(* place and by its weight: its bytes, and what the estimate charges for it *)
(* in thirds of a token (1 for ASCII, 3 for the rest).  Windows and the      *)
(* floor count characters, packing counts bytes.  The sizes of the code      *)
(* (800, 200, 64, 40) are constants in the same order.                       *)
(*                                                                           *)
(* A step is one turn of the loop over the lines, and packs the block that   *)
(* the line closes.  A document may end with any line: Pieces and Chunk say  *)
(* what it then has come to.                                                 *)
(***************************************************************************)
EXTENDS Naturals, FiniteSets, SequencesExt

CONSTANTS LineKinds,  \* head with level and title, text with n characters and weight, blank, fence
          Langs,      \* markdown, code, text
          Target,     \* TARGET_CHARS
          Overlap,    \* OVERLAP_CHARS
          MinPiece,   \* MIN_CHARS
          MinBody,    \* MIN_BODY_CHARS
          Ceiling,    \* the embedder's, as the estimate counts
          MaxLines    \* bound: lines of a document

\* A window is wider than the floor by the gaps there may be at its ends.
ChunksAssumption ==
  /\ {Target, Overlap, MinPiece, MinBody, Ceiling, MaxLines} \subseteq Nat \ {0}
  /\ MinBody <= MinPiece /\ MinPiece <= Overlap /\ Overlap < Target
  /\ MinBody + 4 <= Target /\ MinBody + 1 <= Overlap
  /\ Langs \subseteq {"markdown", "code", "text"}
  /\ \A line \in LineKinds :
       /\ line.kind \in {"head", "text", "blank", "fence"}
       /\ line.kind = "head" => line.level \in Nat
       /\ line.kind = "text" => line.n \in Nat \ {0}

VARIABLES doc, lang,
          reader,     \* the loop over the lines: open headings, their path, the body, within a fence
          packer      \* the pieces that are out, and the one that may still grow
chunkVars == <<doc, lang, reader, packer>>

Gap == [line |-> 0, at |-> 0, weight |-> 1]     \* a line break or a blank line
NoPath == <<>>                                  \* no heading path
Join(a, b) == IF a = <<>> THEN b ELSE a \o <<Gap>> \o b
Ink(body) == Range(body) \ {Gap}
\* len: the bytes of a text.
Bytes(body) == FoldLeft(LAMBDA n, c : n + c.weight, 0, body)

\* The characters of line i.
CellsOf(line, i) ==
  CASE line.kind = "text" -> [c \in 1..line.n |-> [line |-> i, at |-> c, weight |-> line.weight]]
    [] line.kind = "blank" -> <<>>
    [] line.kind \in {"head", "fence"} -> <<[line |-> i, at |-> 1, weight |-> 1]>>
Cells(i) == CellsOf(doc[i], i)

\* trim: without the gaps at both ends.
Trim(body) ==
  LET ink == {i \in DOMAIN body : body[i] # Gap}
  IN IF ink = {} THEN <<>>
     ELSE SubSeq(body, CHOOSE i \in ink : \A j \in ink : i <= j, CHOOSE i \in ink : \A j \in ink : j <= i)

-----------------------------------------------------------------------------
(* Pieces: blocks of one path packed up to Target, an oversized one cut *)

Block(path, body) == [path |-> path, body |-> body]

\* split_on_char_window: the first of the windows that comes to the end is the last.
Windows(s, window, overlap) ==
  LET step == IF window - overlap > 1 THEN window - overlap ELSE 1
      Begin(k) == (k - 1) * step + 1
      End(k) == (k - 1) * step + window
      n == CHOOSE n \in 1..Len(s) : End(n) >= Len(s) /\ (n = 1 \/ End(n - 1) < Len(s))
  IN IF Len(s) <= window THEN <<s>>
     ELSE [k \in 1..n |-> SubSeq(s, Begin(k), IF k = n THEN Len(s) ELSE End(k))]

\* slide_windows, and slide of the code path.
Slide(path, s) ==
  LET cut == Windows(s, Target, Overlap) IN [k \in DOMAIN cut |-> Block(path, cut[k])]

\* push_piece: a scrap joins the piece before it if that has its path.
PushPiece(out, piece) ==
  IF piece.body = <<>> THEN out
  ELSE IF Bytes(piece.body) < MinPiece /\ out # <<>> /\ Last(out).path = piece.path
       THEN [out EXCEPT ![Len(out)] = Block(piece.path, Join(@.body, piece.body))]
       ELSE Append(out, piece)

Mergeable(cur, path, body) == /\ cur.body # <<>> /\ path = cur.path
                              /\ Bytes(cur.body) + Bytes(body) + 1 <= Target

\* One block of pack_blocks.
PackBlock(p, block) ==
  LET body == Trim(block.body)
      flushed == PushPiece(p.out, p.cur)
  IN IF body = <<>> THEN p
     ELSE IF Bytes(body) > Target
          THEN [out |-> flushed \o Slide(block.path, body), cur |-> Block(NoPath, <<>>)]
          ELSE IF Mergeable(p.cur, block.path, body)
               THEN [out |-> p.out, cur |-> Block(block.path, Join(p.cur.body, body))]
               ELSE [out |-> flushed, cur |-> Block(block.path, body)]

\* A heading, a blank line of text or the end of the document closes the block.
Packed == IF Ink(reader.body) = {} THEN packer ELSE PackBlock(packer, Block(reader.path, reader.body))

-----------------------------------------------------------------------------
(* The lines *)

\* MUTANT of Popped: a heading stays on the stack under one of its own level.
PoppedLess(stack, level) ==
  SubSeq(stack, 1, CHOOSE n \in 0..Len(stack) : /\ n = 0 \/ stack[n].level <= level
                                                /\ \A m \in n + 1..Len(stack) : stack[m].level > level)

\* The headings on top of the stack are taken off down to one above the level.
Popped(stack, level) ==
  SubSeq(stack, 1, CHOOSE n \in 0..Len(stack) : /\ n = 0 \/ stack[n].level < level
                                                /\ \A m \in n + 1..Len(stack) : stack[m].level >= level)

Longer(line) == Join(reader.body, CellsOf(line, Len(doc) + 1))

\* markdown_blocks: a heading that is not in a fence.
HeadLine(line) ==
  LET stack == Append(Popped(reader.stack, line.level), [level |-> line.level, title |-> line.title])
  IN /\ lang = "markdown" /\ line.kind = "head" /\ ~reader.fence
     /\ reader' = [stack |-> stack, path |-> [h \in DOMAIN stack |-> stack[h].title],
                   body |-> <<>>, fence |-> FALSE]
     /\ packer' = Packed

\* markdown_blocks: any other line; one of a fence opens or closes it.
BodyLine(line) ==
  /\ lang = "markdown" /\ (line.kind = "head" => reader.fence)
  /\ reader' = [reader EXCEPT !.body = Longer(line),
                              !.fence = IF line.kind = "fence" THEN ~@ ELSE @]
  /\ UNCHANGED packer

\* plain_blocks: paragraphs.
PlainLine(line) ==
  /\ lang = "text"
  /\ \/ line.kind = "blank" /\ reader' = [reader EXCEPT !.body = <<>>] /\ packer' = Packed
     \/ line.kind # "blank" /\ reader' = [reader EXCEPT !.body = Longer(line)] /\ UNCHANGED packer

\* The windows of a span of items.
Span(body) == IF Ink(body) = {} THEN <<>> ELSE Slide(NoPath, Trim(body))

\* code_blocks: every line that is not blank is an item; a span runs from the end of the
\* one before it, and ends with an item when it has reached Target.
CodeLine(line) ==
  /\ lang = "code"
  /\ IF line.kind # "blank" /\ Bytes(Longer(line)) >= Target
     THEN /\ reader' = [reader EXCEPT !.body = <<>>]
          /\ packer' = [packer EXCEPT !.out = @ \o Span(Longer(line))]
     ELSE reader' = [reader EXCEPT !.body = Longer(line)] /\ UNCHANGED packer

\* A line more; normalize_chunk_text has left no run of blank lines and none at the start.
AddLine(line) ==
  /\ Len(doc) < MaxLines
  /\ line.kind = "blank" => doc # <<>> /\ Last(doc).kind # "blank"
  /\ doc' = Append(doc, line)
  /\ UNCHANGED lang
  /\ HeadLine(line) \/ BodyLine(line) \/ PlainLine(line) \/ CodeLine(line)

ChunksInit ==
  /\ doc = <<>> /\ lang \in Langs
  /\ reader = [stack |-> <<>>, path |-> NoPath, body |-> <<>>, fence |-> FALSE]
  /\ packer = [out |-> <<>>, cur |-> Block(NoPath, <<>>)]
ChunksNext == \E line \in LineKinds : AddLine(line)
ChunksSpec == ChunksInit /\ [][ChunksNext]_chunkVars

-----------------------------------------------------------------------------
(* Chunks *)

\* The pieces of a document that ends here.
Pieces == IF lang = "code" THEN packer.out \o Span(reader.body) ELSE PushPiece(Packed.out, Packed.cur)

\* estimate_tokens in thirds of a token, but for its word count, which no text of these
\* lines reaches.
Estimate(body) == Bytes(body)
Fits(body) == Estimate(body) <= Ceiling

Quarter(window) == IF Overlap < window \div 4 THEN Overlap ELSE window \div 4
Cut(body, window) == Windows(body, window, Quarter(window))
\* The windows that are tried: of as many characters, then of half as many, and again.
Tried == {w \in MinPiece..Ceiling : \E n \in 0..Ceiling : w = Ceiling \div 2 ^ n}

\* MUTANT of EnforceLimit: only the first window is measured.
FirstWindowFits(body) ==
  LET good == {w \in Tried : Fits(Cut(body, w)[1])}
  IN IF Fits(body) THEN <<body>>
     ELSE Cut(body, IF good = {} THEN MinPiece ELSE CHOOSE w \in good : \A v \in good : v <= w)

\* enforce_limit: windows of max_chars characters, then of half as many, until all fit or
\* the window is below MinPiece.
EnforceLimit(body) ==
  LET good == {w \in Tried : \A k \in DOMAIN Cut(body, w) : Fits(Cut(body, w)[k])}
  IN IF Fits(body) THEN <<body>>
     ELSE Cut(body, IF good = {} THEN MinPiece ELSE CHOOSE w \in good : \A v \in good : v <= w)

\* The breadcrumb goes in front of the body, a character for every heading.
Crumb(path) == [h \in DOMAIN path |-> Gap]
Labelled(piece) == Join(Crumb(piece.path), piece.body)

\* chunk: a markdown piece below the floor is left out; the rest is cut to the limit.
ChunksOf(piece) ==
  IF lang = "markdown" /\ Len(Trim(piece.body)) < MinBody THEN {}
  ELSE {Block(piece.path, body) : body \in Range(EnforceLimit(Labelled(piece)))}
Chunk == UNION {ChunksOf(piece) : piece \in Range(Pieces)}

-----------------------------------------------------------------------------
(* What a reader of the file would say *)

Fenced(i) == Cardinality({j \in 1..i - 1 : doc[j].kind = "fence"}) % 2 = 1
Headings == {i \in DOMAIN doc : lang = "markdown" /\ doc[i].kind = "head" /\ ~Fenced(i)}
\* A line stands under the headings before it that no later one of its rank has closed.
Above(i) == {h \in Headings : h < i /\ \A g \in h + 1..i - 1 : g \in Headings => doc[g].level > doc[h].level}
PathOf(i) ==
  [n \in 1..Cardinality(Above(i)) |->
     doc[CHOOSE h \in Above(i) : Cardinality({g \in Above(i) : g <= h}) = n].title]
\* The lines of the section that line i is in, and what is written there.
Section(i) == {j \in DOMAIN doc \ Headings : \A h \in Headings : h < i <=> h < j}
Written(i) == UNION {Range(Cells(j)) : j \in Section(i)}
Small(i) == lang = "markdown" /\ Cardinality(Written(i)) < MinBody

\* Whatever the headings, fences and sizes, a chunk has text of one heading path only and
\* that is its own, and no character is lost, but of sections below the floor (chunk,
\* markdown_blocks, pack_blocks, push_piece, code_blocks).
ContentKept ==
  LET chunks == Chunk
  IN /\ \A c \in chunks : \A x \in Ink(c.body) : c.path = PathOf(x.line)
     /\ \A i \in DOMAIN doc \ Headings :
          Small(i) \/ Range(Cells(i)) \subseteq UNION {Ink(c.body) : c \in chunks}

\* No chunk is over the embedder's limit by the estimate, unless it has been cut down to
\* the smallest window (enforce_limit, "the scanner never offers one").
ChunksFit == \A c \in Chunk : Fits(c.body) \/ Len(c.body) <= MinPiece
===============================================================================
