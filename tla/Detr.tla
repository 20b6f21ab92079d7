-------------------------------- MODULE Detr --------------------------------
(***************************************************************************)
(* What the detector promises for one phrase, told without a memory layout:*)
(* the pixels of the image hear each other and read the phrase, layer by   *)
(* layer; then the queries hear each other, read the phrase and look at the*)
(* pixels, each through its own box, and every layer moves the boxes that  *)
(* the next one looks through.                                             *)
(***************************************************************************)
EXTENDS Integers

CONSTANTS
  Height, Width,   \* of the coarsest feature level (72, 72)
  Heads,           \* attention heads (8)
  NumQueries,      \* mask slots (10)
  EncoderLayers,   \* layers of the encoder (6)
  DecoderLayers,   \* layers of the decoder (6)
  EncoderReads,    \* rows of the text the encoder attends to
  DecoderReads     \* rows of the text the decoder attends to

VARIABLES
  given,    \* of "boxes" and "query_pos", what the decoder was called with
  encoded, memory,   \* layers run, and the row of each pixel
  decoded, queries,  \* layers run, and the row of each query
  boxes              \* x, y, w, h of each query
detrVars == <<given, encoded, memory, decoded, queries, boxes>>

Pixels == (0 .. Height - 1) \X (0 .. Width - 1)
Queries == 0 .. NumQueries - 1
HeadIds == 0 .. Heads - 1

Row(id, self, text, vision) == [id |-> id, self |-> self, text |-> text, vision |-> vision]

PixelId(p, depth) == <<p[1], p[2], depth>>
PixelPos(p) == {<<"y", p[1]>>, <<"x", p[2]>>}

(* What one row hears of another in one head: sets of one element, since an *)
(* implementation that confuses rows or heads mixes several.               *)
Meeting(head, by, at, from, fromAt, bias) ==
  [heads |-> {head}, by |-> {by}, at |-> at, from |-> {from}, fromAt |-> fromAt,
   values |-> {from}, bias |-> bias]

ReadBy(id, at, rows) == {Meeting(h, id, at, <<r>>, {}, {}) : h \in HeadIds, r \in rows}

EncodedRow(p, depth) ==
  LET id == PixelId(p, depth - 1)
  IN Row(PixelId(p, depth),
         {Meeting(h, id, PixelPos(p), PixelId(r, depth - 1), PixelPos(r), {}) :
            h \in HeadIds, r \in Pixels},
         ReadBy(id, {}, EncoderReads), {})

EncoderLayer ==
  /\ encoded < EncoderLayers
  /\ encoded' = encoded + 1
  /\ memory' = [p \in Pixels |-> EncodedRow(p, encoded + 1)]
  /\ UNCHANGED <<given, decoded, queries, boxes>>

(* A coordinate of a box, and the query rows that moved it.                 *)
Box(q, coord, rounds) ==
  [query |-> q, coord |-> coord,
   moved |-> [k \in 1 .. rounds |-> [of |-> {<<q, k>>}, coord |-> coord]]]

(* A query is placed by y, x, w and h of its box; by its first box alone if *)
(* the boxes are not known, and not at all if nothing is.                  *)
QueryPos(q, layer) ==
  LET by(rounds) == {<<Box(q, 1, rounds), Box(q, 0, rounds), Box(q, 2, rounds), Box(q, 3, rounds)>>}
  IN IF "boxes" \in given /\ layer > 0 THEN by(layer)
     ELSE IF "query_pos" \in given THEN by(0)
     ELSE {}

(* A query looks at a pixel by how far it is from the edges of its box.     *)
Bias(q, p, layer) ==
  IF "boxes" \in given
  THEN {[x |-> <<Box(q, 0, layer), Box(q, 2, layer), p[2]>>,
         y |-> <<Box(q, 1, layer), Box(q, 3, layer), p[1]>>]}
  ELSE {}

DecodedRow(q, depth) ==
  LET layer == depth - 1
      pos == QueryPos(q, layer)
  IN Row(<<q, depth>>,
         {Meeting(h, <<q, layer>>, pos, <<r, layer>>, QueryPos(r, layer), {}) :
            h \in HeadIds, r \in Queries},
         ReadBy(<<q, layer>>, pos, DecoderReads),
         {Meeting(h, <<q, layer>>, pos, PixelId(p, EncoderLayers), PixelPos(p), Bias(q, p, layer)) :
            h \in HeadIds, p \in Pixels})

BoxesAfter(rounds) == [q \in Queries |-> [c \in 0 .. 3 |-> Box(q, c, rounds)]]

DecoderLayer ==
  /\ encoded = EncoderLayers /\ decoded < DecoderLayers
  /\ decoded' = decoded + 1
  /\ queries' = [q \in Queries |-> DecodedRow(q, decoded + 1)]
  /\ boxes' = IF "boxes" \in given THEN BoxesAfter(decoded + 1) ELSE boxes
  /\ UNCHANGED <<given, encoded, memory>>

Init ==
  /\ given \in SUBSET {"boxes", "query_pos"}
  /\ encoded = 0 /\ memory = [p \in Pixels |-> Row(PixelId(p, 0), {}, {}, {})]
  /\ decoded = 0 /\ queries = [q \in Queries |-> Row(<<q, 0>>, {}, {}, {})]
  /\ boxes = BoxesAfter(0)

Next == EncoderLayer \/ DecoderLayer

Spec == Init /\ [][Next]_detrVars
=============================================================================
