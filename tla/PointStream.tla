------------------------------ MODULE PointStream ------------------------------
(***************************************************************************)
(* The way of one frame's points: `FrameData::from_points` (session.rs) and *)
(* `serialize_points` and `des_cbc_with_key` of fb4_rust/src/proto.rs on    *)
(* the host, `des_cbc_decrypt` and `parse_point_stream` of proto.rs and     *)
(* `to_dac_points` of src/convert.rs in the bridge.                        *)
(*                                                                         *)
(* A body is the sequence of its fields: a point contributes only what has  *)
(* changed since the one before, and both sides keep the current values.    *)
(* The sizes of the fields in bytes are kept: the cipher takes the body in  *)
(* blocks of eight bytes and drops what does not fill one.  A block of the  *)
(* cipher text is named by the plain block in it and the block it is        *)
(* chained to; what the cipher makes of the bits is left out, and that both *)
(* sides hold the same key is Fb4Control's matter.                         *)
(***************************************************************************)
EXTENDS Integers, Sequences

CONSTANTS
    Center,      \* COORD_CENTER: coordinates are -Center .. Center - 1
    Coord,       \* the coordinates that occur
    Color,       \* the values of a colour channel that occur; 0 is dark
    MaxPoints,   \* bound: points of a frame
    CountMod     \* size of the count field (2^16 in the code)

ASSUME PointAssumption ==
    /\ Center \in Nat \ {0} /\ Coord \subseteq (-Center)..(Center - 1)
    /\ Color \subseteq 0..255 /\ 0 \in Color
    /\ MaxPoints \in Nat /\ CountMod \in Nat \ {0}

Point == [x : Coord, y : Coord, color : Color]

\* What both sides hold before the first point, in wire coordinates.
Start == [x |-> 0, y |-> 0, color |-> 0]

Field == {"x", "y", "color"}

\* Bytes of a point on the wire: the flags, and the fields they announce.
Size(fields) ==
    1 + (IF "x" \in fields THEN 2 ELSE 0) + (IF "y" \in fields THEN 2 ELSE 0)
      + (IF "color" \in fields THEN 3 ELSE 0)

Header == 8
Footer == 6
Block  == 8

VARIABLES
    points,   \* the frame the application draws
    invert,   \* invert_y of the emulator; main.rs 84 leaves it off
    stage,    \* "serialize", "pad", "encrypt", "decrypt", "parse" or "done"
    prev,     \* the serializer's last point, in wire coordinates
    done,     \* points serialized
    bytes,    \* length of the body so far, without the footer
    body,     \* the flags and fields of the points serialized
    count,    \* the count field, once it is patched
    cipher,   \* the blocks on the wire, the encrypted iv first
    text,     \* the plain blocks the bridge makes of them
    off,      \* bytes of the text parsed
    cur,      \* the parser's current values, in wire coordinates
    parsed,   \* the points parsed
    dac       \* the points given to the DAC driver

pointVars == <<points, invert, stage, prev, done, bytes, body, count, cipher, text, off, cur, parsed, dac>>

Wire    == [x : 0..(2 * Center - 1), y : 0..(2 * Center - 1), color : Color]
InField == [x : (-Center)..(Center - 1), y : (-Center)..(Center - 1), color : Color]

PointTypeOK ==
    /\ points \in Seq(Point)
    /\ invert \in BOOLEAN
    /\ stage \in {"serialize", "pad", "encrypt", "decrypt", "parse", "done"}
    /\ prev \in Wire
    /\ done \in 0..Len(points)
    /\ bytes \in Nat
    /\ body \in Seq([fields : SUBSET Field, value : Wire])
    /\ count \in 0..(CountMod - 1)
    /\ cipher \in Seq([plain : Nat, chain : Nat])
    /\ text \in Seq(Nat)
    /\ off \in Nat
    /\ cur \in Wire
    /\ parsed \in Seq(InField)
    /\ dac \in Seq([x : Int, y : Int, color : Nat])

PointInit ==
    /\ points \in UNION {[1..n -> Point] : n \in 0..MaxPoints}
    /\ invert \in BOOLEAN
    /\ stage = "serialize"
    /\ prev = Start
    /\ done = 0
    /\ bytes = Header
    /\ body = << >>
    /\ count = 0
    /\ cipher = << >>
    /\ text = << >>
    /\ off = 0
    /\ cur = Start
    /\ parsed = << >>
    /\ dac = << >>

-----------------------------------------------------------------------------
(* The host.                                                               *)

ToWire(p) == [x |-> p.x + Center, y |-> p.y + Center, color |-> p.color]

\* Mutant: a change of colour alone is not sent.
ChangedPlace(p) ==
    IF done < 2 THEN Field ELSE {f \in {"x", "y"} : p[f] # prev[f]}

\* The first two points are sent whole, the others as far as they differ.
Changed(p) ==
    IF done < 2 THEN Field ELSE {f \in Field : p[f] # prev[f]}

Serialize ==
    /\ stage = "serialize"
    /\ done < Len(points)
    /\ LET p == ToWire(points[done + 1])
       IN  /\ body' = Append(body, [fields |-> Changed(p), value |-> p])
           /\ bytes' = bytes + Size(Changed(p))
           /\ prev' = p
    /\ done' = done + 1
    /\ UNCHANGED <<points, invert, stage, count, cipher, text, off, cur, parsed, dac>>

SerializeEnds ==
    /\ stage = "serialize"
    /\ done = Len(points)
    /\ stage' = "pad"
    /\ UNCHANGED <<points, invert, prev, done, bytes, body, count, cipher, text, off, cur, parsed, dac>>

\* Mutant: the footer is left out of the alignment.
FullBlocksWithoutFooter == bytes % Block = 0

FullBlocks == (bytes + Footer) % Block = 0

\* A dwell point: no flags, no fields.
Pad ==
    /\ stage = "pad"
    /\ ~FullBlocks
    /\ body' = Append(body, [fields |-> {}, value |-> Start])
    /\ bytes' = bytes + Size({})
    /\ UNCHANGED <<points, invert, stage, prev, done, count, cipher, text, off, cur, parsed, dac>>

CountField == Len(body) % CountMod

\* The count is patched in, and the footer closes the body.
PadEnds ==
    /\ stage = "pad"
    /\ FullBlocks
    /\ count' = CountField
    /\ bytes' = bytes + Footer
    /\ stage' = "encrypt"
    /\ UNCHANGED <<points, invert, prev, done, body, cipher, text, off, cur, parsed, dac>>

\* As many full blocks as there are, each chained to the cipher block before its
\* own; a tail would be left out.
Encrypt ==
    /\ stage = "encrypt"
    /\ cipher' = <<[plain |-> 0, chain |-> 0]>> \o
                   [i \in 1..(bytes \div Block) |-> [plain |-> i, chain |-> i]]
    /\ stage' = "decrypt"
    /\ UNCHANGED <<points, invert, prev, done, bytes, body, count, text, off, cur, parsed, dac>>

-----------------------------------------------------------------------------
(* The bridge.                                                             *)

\* Block 0 is only the iv; a block comes out right if it is taken against the
\* block it was chained to (otherwise garbage: 0).
Decrypt ==
    /\ stage = "decrypt"
    /\ text' = [i \in 1..(Len(cipher) - 1) |->
                  IF cipher[i + 1].chain = i THEN cipher[i + 1].plain ELSE 0]
    /\ off' = Header
    /\ stage' = "parse"
    /\ UNCHANGED <<points, invert, prev, done, bytes, body, count, cipher, cur, parsed, dac>>

FromWire(w) == [x |-> w.x - Center, y |-> w.y - Center, color |-> w.color]

\* Mutant: the negation overflows.
NegatePlain(y) == -y

\* saturating_neg: the lowest coordinate has no negative.
Negate(y) == IF y = -Center THEN Center - 1 ELSE -y

\* c16: full scale of 8 bits to full scale of 16.
Scale(v) == v * 257

ToDacPoint(p, inverted) ==
    [x |-> p.x, y |-> IF inverted THEN Negate(p.y) ELSE p.y, color |-> Scale(p.color)]

\* The fields of the next point that the text still holds to their last byte.
Readable ==
    LET b == body[Len(parsed) + 1].fields
        Before(f) == {g \in b : g = f \/ g = "color" \/ (g = "x" /\ f = "y")}
    IN  {f \in b : off + Size(Before(f)) <= Block * Len(text)}

\* The next point: announced fields replace the current values, the rest stays.
Parse ==
    /\ stage = "parse"
    /\ Len(parsed) < Len(body)
    /\ off < Block * Len(text)
    /\ LET b == body[Len(parsed) + 1]
       IN  cur' = [f \in Field |-> IF f \in Readable THEN b.value[f] ELSE cur[f]]
    /\ off' = off + Size(Readable)
    /\ parsed' = Append(parsed, FromWire(cur'))
    /\ UNCHANGED <<points, invert, stage, prev, done, bytes, body, count, cipher, text, dac>>

\* The terminator or the end of the text ends the points, and the frame is
\* converted.
ParseEnds ==
    /\ stage = "parse"
    /\ Len(parsed) = Len(body) \/ off >= Block * Len(text)
    /\ dac' = [k \in 1..Len(parsed) |-> ToDacPoint(parsed[k], invert)]
    /\ stage' = "done"
    /\ UNCHANGED <<points, invert, prev, done, bytes, body, count, cipher, text, off, cur, parsed>>

-----------------------------------------------------------------------------
PointNext ==
    \/ Serialize
    \/ SerializeEnds
    \/ Pad
    \/ PadEnds
    \/ Encrypt
    \/ Decrypt
    \/ Parse
    \/ ParseEnds

PointSpec == PointInit /\ [][PointNext]_pointVars

-----------------------------------------------------------------------------
\* Where the beam rests while it dwells: at the last point, or blanked in the
\* corner if there is none.
Resting ==
    IF points = << >> THEN FromWire(Start) ELSE points[Len(points)]

\* What is parsed is what was drawn, point by point: no delta is lost, taken
\* against the wrong point or applied to the wrong field; what is added only
\* dwells at the last point.  In the end none is missing, and there are as many
\* as the header counts, from which the frame's span is computed ("including
\* alignment padding"), up to the width of that field.
RoundTrip ==
    /\ \A k \in 1..Len(parsed) :
         parsed[k] = IF k <= Len(points) THEN points[k] ELSE Resting
    /\ stage = "done" => Len(parsed) >= Len(points) /\ count = Len(parsed) % CountMod

\* What the bridge decrypts is what was serialized, block by block and to the
\* last byte: the cipher drops what does not fill a block, so padding has to
\* leave nothing over, and the footer stays last; fewer than a block of dwell
\* points is added ("Footer-terminal alignment", serialize_points).
BodyRecovered ==
    stage \in {"parse", "done"} =>
      /\ bytes = Block * Len(text)
      /\ text = [i \in 1..Len(text) |-> i]
      /\ Len(body) \in Len(points)..(Len(points) + Block - 1)

\* The DAC is given a picture it can draw: inverting keeps it in the field,
\* the lowest coordinate included, and is undone by inverting again, but for
\* that one; colours stay within 16 bits and what is blanked stays blanked.
DacInRange ==
    \A k \in 1..Len(dac) :
      /\ dac[k].y \in (-Center)..(Center - 1)
      /\ invert /\ parsed[k].y # -Center => Negate(dac[k].y) = parsed[k].y
      /\ dac[k].color < 65536
      /\ dac[k].color = 0 <=> parsed[k].color = 0

=============================================================================
