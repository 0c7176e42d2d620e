------------------------------ MODULE Documents ------------------------------
(***************************************************************************)
(* Documents: what write_document makes of a text in each format and what  *)
(* the parsers get back from the file, and how DocumentTool reads a file   *)
(* through DocumentParserChain, with OCR and its cache behind the ordinary *)
(* parsers, while the file may change.                                     *)
(*                                                                         *)
(* A text is a sequence of lines, a line is what the block parser tells    *)
(* apart.  A file is its version: two versions differ in size or time.     *)
(***************************************************************************)
EXTENDS Integers, Sequences, FiniteSets

CONSTANTS MaxLines,     \* bound: lines of a written text
          MaxVersions   \* bound: versions of the file that is read

ASSUME DocumentsAssumption == MaxLines \in Nat /\ MaxVersions \in Nat \ {0}

VARIABLES page,      \* the text to write
          version,   \* of the file on disk
          reading,   \* the read in progress, or <<>>
          ocrCache,  \* samaktha_ocr_cache: what is stored for a version
          verdict,   \* the result of the last read
          strayed    \* versions that a text of another one was cached for

writerVars == <<page>>
readerVars == <<version, reading, ocrCache, verdict, strayed>>
documentVars == <<page, version, reading, ocrCache, verdict, strayed>>

Kinds == {"text", "heading", "deep", "rule", "fence", "bullet", "pipe", "sep", "blank"}

---------------------------------------------------------------------------
(* _iter_blocks.                                                           *)

StartsTable == {"pipe", "sep"}
StartsBlock == Kinds \ {"text", "blank"}

(* The first line from i on whose kind is in stops, or past the end.       *)
FirstFrom(s, i, stops) ==
  LET found == {j \in i..Len(s) : s[j] \in stops}
  IN  IF found = {} THEN Len(s) + 1 ELSE CHOOSE j \in found : \A n \in found : j <= n

(* The block that begins at line i: its kind, its lines, and the next line.*)
BlockOf(s, i) ==
  LET block(kind, lines, next) == [kind |-> kind, lines |-> lines, next |-> next]
      k == s[i]
      fence == FirstFrom(s, i + 1, {"fence"})
      row == FirstFrom(s, i + 2, Kinds \ StartsTable)
      para == FirstFrom(s, i + 1, StartsBlock)
  IN  CASE k = "fence" -> block("code", (i + 1)..(fence - 1), fence + 1)
        [] k \in {"heading", "rule", "bullet"} -> block(k, {i}, i + 1)
        [] k \in StartsTable /\ i < Len(s) /\ s[i + 1] = "sep" ->
             block("table", {i} \cup ((i + 2)..(row - 1)), row)
        [] k = "blank" -> block("none", {}, i + 1)
        [] OTHER -> block("paragraph", i..(para - 1), para)
TableGoesOn(b, next) == IF b.kind = "table" THEN [b EXCEPT !.next = next] ELSE b
BlockAtPastTable(s, i) == LET b == BlockOf(s, i) IN TableGoesOn(b, b.next + 1)
BlockAtRereads(s, i) == TableGoesOn(BlockOf(s, i), i + 2)
BlockAt(s, i) == BlockOf(s, i)

Blocks(s) ==
  LET from[i \in 1..(Len(s) + 2)] ==
        IF i > Len(s) THEN {}
        ELSE LET b == BlockAt(s, i) IN {b} \cup from[b.next]
  IN  {b \in from[1] : b.kind # "none"}

Tables(s) == {b \in Blocks(s) : b.kind = "table"}
LinesOf(blocks) == UNION {b.lines : b \in blocks}

(* The lines that a file of each format holds, and a parser gets back.     *)
InDocx(s) == LinesOf({b \in Blocks(s) : b.kind # "rule"})
InSheet(s) == IF Tables(s) # {} THEN LinesOf(Tables(s))
              ELSE {i \in 1..Len(s) : s[i] # "blank"}
InPdf(s) == {i \in 1..Len(s) : s[i] # "fence"}
InText(s) == 1..Len(s)

AddsLine ==
  /\ Len(page) < MaxLines
  /\ \E k \in Kinds : page' = Append(page, k)
  /\ UNCHANGED readerVars

---------------------------------------------------------------------------
(* DocumentParserChain.parse, for a PDF: the parsers in order.             *)

Parsers == <<"pymupdf", "pdfplumber", "ocr", "docling">>
Engines == <<"easyocr", "tesseract">>
Nothing == [ok |-> FALSE, of |-> 0]

DocumentsInit ==
  /\ page = <<>>
  /\ version = 1 /\ reading = <<>> /\ ocrCache = [v \in 1..MaxVersions |-> 0]
  /\ verdict = Nothing /\ strayed = {}

StartsReading ==
  /\ reading = <<>>
  /\ reading' = [at |-> 1, engine |-> 0, since |-> version, of |-> 0, failed |-> {}]
  /\ verdict' = Nothing
  /\ UNCHANGED <<page, version, ocrCache, strayed>>

(* A parser without text, in error or unavailable: on to the next one.     *)
NextParserGivesUp == [reading EXCEPT !.at = Len(Parsers) + 1, !.engine = 0,
                                     !.failed = @ \cup {Parsers[reading.at]}]
NextParser == [reading EXCEPT !.at = @ + 1, !.engine = 0,
                              !.failed = @ \cup {Parsers[reading.at]}]

(* What each of them may come up with: text, or none (an error, a page     *)
(* without text, a library that is missing).  Docling is switched off.     *)
PyMuPDFOutcomes == {"text", "none"}
PdfPlumberOutcomes == {"text", "none"}
DoclingOutcomes == {"none"}
Outcomes(parser) ==
  CASE parser = "pymupdf" -> PyMuPDFOutcomes
    [] parser = "pdfplumber" -> PdfPlumberOutcomes
    [] parser = "docling" -> DoclingOutcomes
EasyOcrOutcomes == {"text", "none"}
TesseractOutcomes == {"text", "none"}
EngineOutcomes(n) == IF Engines[n] = "easyocr" THEN EasyOcrOutcomes ELSE TesseractOutcomes

Delivers(v) == reading' = <<>> /\ verdict' = [ok |-> TRUE, of |-> v]

TriesParser ==
  /\ reading # <<>> /\ reading.at <= Len(Parsers) /\ Parsers[reading.at] # "ocr"
  /\ \E outcome \in Outcomes(Parsers[reading.at]) :
       \/ outcome = "text" /\ Delivers(version)
       \/ outcome = "none" /\ reading' = NextParser /\ UNCHANGED verdict
  /\ UNCHANGED <<page, version, ocrCache, strayed>>

(* OCRParser.parse: the cache, then the engines.                           *)
CacheSlotAny(v) == 1
CacheSlot(v) == v

AsksCache ==
  /\ reading # <<>> /\ reading.at <= Len(Parsers) /\ Parsers[reading.at] = "ocr"
  /\ reading.engine = 0
  /\ LET hit == ocrCache[CacheSlot(version)] IN
     IF hit # 0 THEN Delivers(hit)
     ELSE reading' = [reading EXCEPT !.engine = 1] /\ UNCHANGED verdict
  /\ UNCHANGED <<page, version, ocrCache, strayed>>

(* An engine opens the file, and takes its time.                           *)
StartsEngineForever ==
  /\ reading # <<>> /\ reading.engine # 0 /\ reading.of = 0
  /\ \/ reading' = [reading EXCEPT !.of = version]
     \/ reading' = [reading EXCEPT !.engine = @ + 1]
  /\ UNCHANGED <<page, version, ocrCache, verdict, strayed>>
StartsEngine ==
  /\ reading # <<>> /\ reading.engine \in 1..Len(Engines) /\ reading.of = 0
  /\ \/ reading' = [reading EXCEPT !.of = version]
     \/ reading' = [reading EXCEPT !.engine = @ + 1]
  /\ UNCHANGED <<page, version, ocrCache, verdict, strayed>>

(* The result is cached for the version that is there when it is saved.    *)
EndsEngine ==
  /\ reading # <<>> /\ reading.of # 0
  /\ \/ /\ "text" \in EngineOutcomes(reading.engine)
        /\ Delivers(reading.of)
        /\ ocrCache' = [ocrCache EXCEPT ![CacheSlot(version)] = reading.of]
        /\ strayed' = IF reading.of = version THEN strayed \ {version}
                      ELSE strayed \cup {version}
     \/ /\ "none" \in EngineOutcomes(reading.engine)
        /\ reading' = [reading EXCEPT !.of = 0, !.engine = @ + 1]
        /\ UNCHANGED <<ocrCache, verdict, strayed>>
  /\ UNCHANGED <<page, version>>

EnginesExhausted ==
  /\ reading # <<>> /\ reading.engine > Len(Engines)
  /\ reading' = NextParser
  /\ UNCHANGED <<page, version, ocrCache, verdict, strayed>>

ChainExhausted ==
  /\ reading # <<>> /\ reading.at > Len(Parsers)
  /\ verdict' = [ok |-> FALSE, of |-> Cardinality(reading.failed)]
  /\ reading' = <<>>
  /\ UNCHANGED <<page, version, ocrCache, strayed>>

FileChanges ==
  /\ version < MaxVersions /\ version' = version + 1
  /\ UNCHANGED <<page, reading, ocrCache, verdict, strayed>>

WriterNext == AddsLine
ReaderNext ==
  \/ StartsReading \/ TriesParser \/ AsksCache \/ StartsEngine \/ EndsEngine
  \/ EnginesExhausted \/ ChainExhausted \/ FileChanges

---------------------------------------------------------------------------
(* The text and the read in progress have their shape; the chain and its   *)
(* engines are not run past their end.                                     *)
DocumentsTypeOK ==
  /\ page \in Seq(Kinds) /\ Len(page) <= MaxLines
  /\ version \in 1..MaxVersions
  /\ reading # <<>> => /\ reading.at \in 1..(Len(Parsers) + 1)
                       /\ reading.engine \in 0..(Len(Engines) + 1)

(* Whatever is written comes back: every line that carries text is in the  *)
(* document once it is parsed again, in every format, whichever blocks the *)
(* lines before and after it form.  A sheet made of tables is the one      *)
(* exception: it holds the tables only.                                    *)
Carries(s) == {i \in 1..Len(s) : s[i] \in {"text", "heading", "deep", "bullet", "pipe"}}
WrittenIsReadBack ==
  /\ Carries(page) \subseteq InDocx(page)
  /\ Carries(page) \subseteq InPdf(page)
  /\ Carries(page) \subseteq InText(page)
  /\ Tables(page) = {} => Carries(page) \subseteq InSheet(page)

(* No line is written twice: the blocks of a text do not overlap.          *)
BlocksDisjoint ==
  \A b, c \in Blocks(page) : b # c => b.lines \cap c.lines = {}

(* The cache serves a version its own text, unless the file changed while  *)
(* it was recognised.                                                      *)
ServedIsOwn ==
  \A v \in 1..MaxVersions :
    (ocrCache[CacheSlot(v)] # 0 /\ v \notin strayed /\ v <= version)
      => ocrCache[CacheSlot(v)] = v

(* A read fails only when every parser, and with OCR every engine, did.    *)
FailsLast == (reading = <<>> /\ ~verdict.ok /\ verdict # Nothing) => verdict.of = Len(Parsers)


(* Every line of a text ends up in exactly one block of the document, a    *)
(* result served from the cache is of that very file, and the parser chain *)
(* gives up only after its last parser.                                    *)
DocumentsSafe ==
  /\ DocumentsTypeOK /\ WrittenIsReadBack /\ BlocksDisjoint /\ ServedIsOwn
  /\ FailsLast
=============================================================================
