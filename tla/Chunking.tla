------------------------------ MODULE Chunking ------------------------------
(***************************************************************************)
(* pdf_chunking: the blocks of a document, one by one, are split where they *)
(* are too long and packed into chunks; a chunk that is full hands its tail *)
(* to the next.  A block is its kind, its length, and which block it is.   *)
(***************************************************************************)
EXTENDS Integers, FiniteSets, Sequences, SequencesExt, TLC

CONSTANTS
    TargetChars, MaxChars, OverlapChars,    \* 1200, 1800 and 180 in the code
    HeaderChars,    \* the longest header a table's parts repeat
    BlockChars,     \* lengths of the blocks, and of the first line or sentence of one
    MaxBlocks       \* bound of the blocks of a document

ASSUME ChunkingAssumption ==
    /\ TargetChars \in Nat \ {0} /\ MaxChars \in Nat /\ TargetChars <= MaxChars
    /\ OverlapChars \in 0 .. TargetChars - 1 /\ HeaderChars \in 0 .. MaxChars - 2
    /\ BlockChars \subseteq Nat \ {0} /\ MaxBlocks \in Nat

VARIABLES
    chunks,     \* those that are done
    packing,    \* current: the blocks of the next chunk
    taken,      \* the blocks read so far
    ended       \* the last flush was made

chunkingvars == <<chunks, packing, taken, ended>>

ChunkingInit == chunks = <<>> /\ packing = <<>> /\ taken = 0 /\ ended = FALSE

-----------------------------------------------------------------------------
Block(kind, chars, of, part, more) == [kind |-> kind, chars |-> chars, of |-> of, part |-> part, more |-> more]
IsOverlap(b) == b.kind = "overlap"

\* The blocks of a chunk are separated by two characters.
Chars(blocks) == FoldLeft(LAMBDA n, b : n + b.chars, 0, blocks) + (IF blocks = <<>> THEN 0 ELSE 2 * (Len(blocks) - 1))

\* The tail begins after the first full stop or line of the last characters,
\* where there is one, and a body that is not longer has no tail.
TailOverlaps(body) ==
    IF OverlapChars = 0 \/ Chars(body) <= OverlapChars THEN {<<>>}
    ELSE {<<>>} \cup {<<Block("overlap", n, 0, 0, FALSE)>> : n \in 1 .. OverlapChars}

\* What a flush makes of the chunks and of current.
Flushed(state) ==
    IF state.packing = <<>> THEN {state}
    ELSE {[chunks |-> Append(state.chunks, state.packing), packing |-> tail] : tail \in TailOverlaps(state.packing)}

Emptied(state) == [state EXCEPT !.packing = <<>>]

-----------------------------------------------------------------------------
(* A block that is too long.  The sentences of a paragraph are packed while *)
(* they fit; a sentence that is too long is cut; the parts of a table begin *)
(* with its header, if that is short.                                      *)
Cuts(chars, most) == [i \in 1 .. (chars + most - 1) \div most |-> IF i * most <= chars THEN most ELSE chars - (i - 1) * most]

\* What is left in current is the last part.
AllParts(state) == IF state.current > 0 THEN Append(state.parts, state.current) ELSE state.parts

AddSentence(state, sentence) ==
    LET full == state.current > 0 /\ state.current + sentence + 1 > MaxChars
        begun == IF full THEN [parts |-> Append(state.parts, state.current), current |-> 0] ELSE state
    IN IF sentence > MaxChars
       THEN [begun EXCEPT !.parts = @ \o Cuts(sentence, MaxChars)]
       ELSE [begun EXCEPT !.current = IF @ = 0 THEN sentence ELSE @ + 1 + sentence]

SplitSentences(sentences) == AllParts(FoldLeft(AddSentence, [parts |-> <<>>, current |-> 0], sentences))

WithLine(current, line) == IF current > 0 THEN current + 1 + line ELSE line

AddLine(header, state, line) ==
    IF state.current > 0 /\ WithLine(state.current, line) > MaxChars
    THEN [parts |-> Append(state.parts, state.current), current |-> WithLine(header, line)]
    ELSE [state EXCEPT !.current = WithLine(@, line)]

\* Each part begins with the header, if there is one.
PackLines(header, pieces) ==
    AllParts(FoldLeft(LAMBDA state, line : AddLine(header, state, line), [parts |-> <<>>, current |-> header], pieces))

SplitTable(lines) ==
    LET header == IF Head(lines) <= HeaderChars THEN Head(lines) ELSE 0
        budget == MaxChars - header - (IF header > 0 THEN 1 ELSE 0)
        data == IF header > 0 THEN Tail(lines) ELSE lines
    IN PackLines(header, FlattenSeq([i \in DOMAIN data |-> Cuts(data[i], budget)]))

\* The ways a text of a length is made of two lines or sentences, or of one.
Divisions(chars) == {<<chars>>} \cup {<<a, chars - a - 1>> : a \in {b \in BlockChars : b < chars - 1}}

SplitOversized(kind, chars, of) ==
    LET parts == IF chars <= MaxChars THEN {<<chars>>}
                 ELSE IF kind = "table" THEN {SplitTable(d) : d \in Divisions(chars)}
                 ELSE {SplitSentences(d) : d \in Divisions(chars)}
    IN {[i \in DOMAIN p |-> Block(kind, p[i], of, i, i < Len(p))] : p \in parts}

-----------------------------------------------------------------------------
(* Packing.                                                                *)
\* A heading begins a chunk, without the tail of the one before.
BeginSection(state, block) ==
    IF block.kind = "heading" /\ state.packing # <<>> THEN {Emptied(s) : s \in Flushed(state)} ELSE {state}

\* A bug: the tail is kept although the block does not fit behind it.
MakeRoomKeepingTail(state, block) ==
    IF state.packing = <<>> \/ Chars(Append(state.packing, block)) <= MaxChars THEN {state}
    ELSE IF \A i \in DOMAIN state.packing : IsOverlap(state.packing[i]) THEN {Emptied(state)}
    ELSE Flushed(state)

\* A chunk that has no room for the block is done; a tail that leaves no
\* room for it is dropped.
MakeRoom(state, block) ==
    IF state.packing = <<>> \/ Chars(Append(state.packing, block)) <= MaxChars THEN {state}
    ELSE IF \A i \in DOMAIN state.packing : IsOverlap(state.packing[i]) THEN {Emptied(state)}
    ELSE {IF s.packing # <<>> /\ Chars(Append(s.packing, block)) > MaxChars THEN Emptied(s) ELSE s : s \in Flushed(state)}

Added(state, block) ==
    LET next == [state EXCEPT !.packing = Append(@, block)]
    IN IF Chars(next.packing) >= TargetChars /\ block.kind # "heading" THEN Flushed(next) ELSE {next}

PackBlock(states, block) ==
    UNION {UNION {UNION {Added(u, block) : u \in MakeRoom(t, block)} : t \in BeginSection(s, block)} : s \in states}

TakeBlock(kind, chars) ==
    /\ ~ended /\ taken < MaxBlocks /\ taken' = taken + 1
    /\ \E blocks \in SplitOversized(kind, chars, taken + 1) :
       \E next \in FoldLeft(PackBlock, {[chunks |-> chunks, packing |-> packing]}, blocks) :
         chunks' = next.chunks /\ packing' = next.packing
    /\ UNCHANGED ended

FlushLast ==
    /\ ~ended /\ ended' = TRUE
    /\ chunks' = IF packing = <<>> THEN chunks ELSE Append(chunks, packing)
    /\ packing' = <<>> /\ UNCHANGED taken

ChunkingNext ==
    \/ \E kind \in {"paragraph", "table", "heading"} : \E chars \in BlockChars :
         (kind = "heading" => chars < TargetChars) /\ TakeBlock(kind, chars)
    \/ FlushLast

ChunkingSpec == ChunkingInit /\ [][ChunkingNext]_chunkingvars

-----------------------------------------------------------------------------
IsBlock(b) == b.kind \in {"paragraph", "table", "heading", "overlap"} /\ b.chars \in Nat /\ b.of \in 0 .. MaxBlocks
ChunkingTypeOK ==
    /\ taken \in 0 .. MaxBlocks /\ ended \in BOOLEAN
    /\ \A i \in DOMAIN packing : IsBlock(packing[i])
    /\ \A i \in DOMAIN chunks : chunks[i] # <<>> /\ \A k \in DOMAIN chunks[i] : IsBlock(chunks[i][k])

\* The parts of the text, each at its place on its page; an overlap is none.
TextPart(page, place, b) == [page |-> page, place |-> place, of |-> b.of, part |-> b.part, more |-> b.more]
TextOf(pages) ==
    UNION {{TextPart(i, k, pages[i][k]) : k \in {n \in DOMAIN pages[i] : ~IsOverlap(pages[i][n])}} : i \in DOMAIN pages}

StandsBefore(x, y) == x.page < y.page \/ (x.page = y.page /\ x.place < y.place)
ComesBefore(x, y) == x.of < y.of \/ (x.of = y.of /\ x.part < y.part)

\* No chunk is longer than max_chars, and the chunks and the one being packed
\* hold every part of every block read, once and in the order of the document,
\* whatever is split, flushed or dropped.
ChunksKeepText ==
    LET text == TextOf(Append(chunks, packing)) IN
    /\ \A i \in DOMAIN chunks : Chars(chunks[i]) <= MaxChars
    /\ \A x, y \in text : StandsBefore(x, y) <=> ComesBefore(x, y)
    /\ \A of \in 1 .. taken : \E x \in text : x.of = of /\ ~x.more
    /\ \A x \in text :
         /\ x.of \in 1 .. taken /\ x.part >= 1
         /\ \A part \in 1 .. x.part : \E y \in text : y.of = x.of /\ y.part = part
         /\ x.more <=> \E y \in text : y.of = x.of /\ y.part = x.part + 1
=============================================================================
