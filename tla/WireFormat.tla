------------------------------ MODULE WireFormat ------------------------------
(***************************************************************************)
(* PayloadWriter and PayloadReader: how a record becomes bytes and bytes   *)
(* become a record again.                                                  *)
(*                                                                         *)
(* A write_ or read_ function of the code is a layout: the sequence of its *)
(* calls on the writer or reader, each with the field it takes or assigns  *)
(* and the bound it passes.  A payload is a sequence of tokens, one per    *)
(* call on bytes; a token has a width in bytes and a value, which is a     *)
(* pair: the field it was written from, and a number (the length of a      *)
(* text, the ordinal of an enumerator, 0 for an absent flag or a null      *)
(* identity).  A reader that takes a field from the wrong place therefore  *)
(* gets the wrong value.  The elements of a vector are alike: one element  *)
(* stands for all, and its tokens count "times".                           *)
(***************************************************************************)
EXTENDS Naturals, Sequences, SequencesExt, TLC

max_persisted_string_bytes == 1048576
max_frame_payload_bytes == 1048576
max_batch_items == 4096

\* Sizes are only compared with limits below this bound, where they saturate.
SizeCap == 67108864

-----------------------------------------------------------------------------
(***************************************************************************)
(* Calls of a layout.                                                      *)
(***************************************************************************)
Call(n, type, low, max, layout) ==
  [n |-> n, type |-> type, low |-> low, max |-> max, of |-> layout]

u8(n) == Call(n, "fixed", 0, 1, << >>)
u32(n) == Call(n, "fixed", 0, 4, << >>)
u64(n) == Call(n, "fixed", 0, 8, << >>)
id(n) == Call(n, "fixed", 0, 8, << >>)
identity(n) == Call(n, "identity", 1, 8, << >>)   \* an id that may not be null
real(n) == Call(n, "fixed", 0, 8, << >>)
integer(n) == Call(n, "fixed", 0, 8, << >>)
digest(n) == Call(n, "fixed", 0, 32, << >>)
boolean(n) == Call(n, "ordinal", 0, 1, << >>)
enum(n, max) == Call(n, "ordinal", 0, max, << >>)
u16_kind(n, max) == Call(n, "ordinal16", 1, max, << >>)
text(n, max) == Call(n, "text", 0, max, << >>)
optional(call) == Call(call.n, "optional", 0, 1, <<call>>)
vector(n, max, layout) == Call(n, "vector", 0, max, layout)
map(n, max, layout) == Call(n, "map", 0, max, layout)
record(n, layout) == Call(n, "record", 0, 0, layout)
status(n, max, layout) == Call(n, "sized", 0, max, layout)

\* The same call for several fields in a row.
All(Of(_), names) == [i \in DOMAIN names |-> Of(names[i])]

Least(a, b) == IF a < b THEN a ELSE b

Times(n, size) == IF size # 0 /\ n > SizeCap \div size THEN SizeCap ELSE n * size

RECURSIVE Size(_)
Size(tokens) ==
  LET half == Len(tokens) \div 2
  IN  IF tokens = << >> THEN 0
      ELSE IF half = 0 THEN Times(tokens[1].times, tokens[1].width)
      ELSE Least(SizeCap, Size(SubSeq(tokens, 1, half)) + Size(SubSeq(tokens, half + 1, Len(tokens))))

-----------------------------------------------------------------------------
(***************************************************************************)
(* PayloadWriter.                                                          *)
(***************************************************************************)
Token(width, value, times) == [width |-> width, value |-> value, times |-> times]

\* PayloadWriter::text cuts what is longer than the bound.
WrittenLength(length, max) == Least(length, max)

\* A field of a record; PayloadWriter::count ignores its bound.
RECURSIVE WriteCall(_, _, _)
WriteCall(call, value, times) ==
  LET Part(layout, v, m) == FlattenSeq([i \in DOMAIN layout |-> WriteCall(layout[i], v[layout[i].n], m)])
  IN  CASE call.type \in {"fixed", "identity"} -> <<Token(call.max, value, times)>>
        [] call.type = "ordinal" -> <<Token(1, value, times)>>
        [] call.type = "ordinal16" -> <<Token(2, value, times)>>
        [] call.type = "text" ->
             LET length == WrittenLength(value[2], call.max)
             IN  <<Token(4, <<"length", length>>, times), Token(length, <<value[1], length>>, times)>>
        [] call.type = "optional" ->
             <<Token(1, <<"present", Len(value)>>, times)>>
               \o IF value = << >> THEN << >> ELSE WriteCall(call.of[1], value[1], times)
        [] call.type \in {"vector", "map"} ->
             <<Token(4, <<"count", value.count>>, times)>>
               \o IF value.count = 0 THEN << >>
                  ELSE Part(call.of, value.element, Times(value.count, times))
        [] call.type = "record" -> Part(call.of, value, times)
        [] call.type = "sized" ->
             LET bytes == Part(call.of, value, times)
             IN  <<Token(4, <<"length", Size(bytes)>>, times)>> \o bytes

Write(layout, value) == FlattenSeq([i \in DOMAIN layout |-> WriteCall(layout[i], value[layout[i].n], 1)])

-----------------------------------------------------------------------------
(***************************************************************************)
(* PayloadReader.  The outcome of a call is what it read and what is left, *)
(* or a refusal.                                                           *)
(***************************************************************************)
Refused == [ok |-> FALSE]
Got(value, rest) == [ok |-> TRUE, value |-> value, rest |-> rest]

\* need: the bytes are there.
Ready(tokens, width) == tokens # << >> /\ Head(tokens).width = width

Take(tokens, width) == IF Ready(tokens, width) THEN Got(Head(tokens).value, Tail(tokens)) ELSE Refused

\* Bounded with a mistake: one more than the bound is let through.
BoundedLoosely(outcome, low, max) ==
  IF outcome.ok /\ (outcome.value[2] < low \/ outcome.value[2] > max + 1) THEN Refused ELSE outcome

\* A number outside its bounds is refused: enumerators, flags, lengths, counts.
Bounded(outcome, low, max) ==
  IF outcome.ok /\ (outcome.value[2] < low \/ outcome.value[2] > max) THEN Refused ELSE outcome

RECURSIVE ReadCall(_, _)
RECURSIVE ReadAll(_, _, _)

\* One call after another, from the i-th on; the first refusal ends the reading.  Each
\* call assigns its field.
ReadAll(layout, i, sofar) ==
  IF ~sofar.ok \/ i > Len(layout) THEN sofar
  ELSE LET next == ReadCall(layout[i], sofar.rest)
       IN  ReadAll(layout, i + 1,
                   IF next.ok THEN Got((layout[i].n :> next.value) @@ sofar.value, next.rest) ELSE Refused)

ReadCall(call, tokens) ==
  LET Part(layout, from) == ReadAll(layout, 1, Got([f \in {} |-> 0], from))
      count == Bounded(Take(tokens, 4), 0, call.max)
      element == Part(call.of, count.rest)
  IN  CASE call.type = "fixed" -> Take(tokens, call.max)
        [] call.type = "identity" -> Bounded(Take(tokens, call.max), call.low, SizeCap)
        [] call.type = "ordinal" -> Bounded(Take(tokens, 1), call.low, call.max)
        [] call.type = "ordinal16" -> Bounded(Take(tokens, 2), call.low, call.max)
        [] call.type = "text" ->
             LET length == Bounded(count, 0, max_persisted_string_bytes)
             IN  IF length.ok THEN Take(length.rest, length.value[2]) ELSE Refused
        [] call.type = "optional" ->
             LET present == Bounded(Take(tokens, 1), 0, 1)
             IN  IF ~present.ok THEN Refused
                 ELSE IF present.value[2] = 0 THEN Got(<< >>, present.rest)
                 ELSE LET value == ReadCall(call.of[1], present.rest)
                      IN  IF value.ok THEN Got(<<value.value>>, value.rest) ELSE Refused
        [] call.type \in {"vector", "map"} ->
             IF ~count.ok THEN Refused
             ELSE IF count.value[2] = 0 THEN Got([count |-> 0], count.rest)
             ELSE IF ~element.ok THEN Refused
             \* The records of a map are stored under their identity, which is not null.
             ELSE IF call.type = "map" /\ element.value[call.of[1].n][2] = 0 THEN Refused
             ELSE Got([count |-> count.value[2], element |-> element.value], element.rest)
        [] call.type = "record" -> Part(call.of, tokens)
        [] call.type = "sized" ->
             \* raw takes as many bytes as announced, and all of them are the status.
             IF count.ok /\ element.ok /\ Size(count.rest) = count.value[2] + Size(element.rest)
             THEN element ELSE Refused

\* What a read_ function makes of a payload, and what it leaves.
Read(layout, tokens) == ReadCall(record("", layout), tokens)

\* Decode with a mistake: without expect_end.
DecodeLoosely(layout, tokens) == Read(layout, tokens)

\* What a decode_ function makes of it: expect_end refuses trailing bytes.
Decode(layout, tokens) ==
  LET outcome == Read(layout, tokens)
  IN  IF outcome.ok /\ outcome.rest = << >> THEN outcome ELSE Refused

-----------------------------------------------------------------------------
(***************************************************************************)
(* Values to try a layout with, one per shape.  "empty": no text, no       *)
(* element, nothing optional.  "small": one of each.  "full": as much as   *)
(* the writer declares.  "long": texts longer than that.  "null": null     *)
(* identities.  "many": one element too many in the vector shape.of.       *)
(***************************************************************************)
RECURSIVE Sample(_, _)
Sample(layout, shape) ==
  LET Ordinal(c) == IF shape.kind = "full" THEN c.max ELSE c.low
      Length(c) == CASE shape.kind = "empty" -> 0
                     [] shape.kind \in {"full", "cut"} -> c.max
                     [] shape.kind = "long" -> c.max + 1
                     [] OTHER -> 1
      Count(c) == CASE shape.kind = "empty" -> 0
                    [] shape.kind = "full" -> c.max
                    [] shape.kind = "many" /\ shape.of = c.n -> c.max + 1
                    [] OTHER -> 1
      ValueOf(c) ==
        CASE c.type \in {"fixed", "identity"} -> <<c.n, IF shape.kind = "null" THEN 0 ELSE 1>>
          [] c.type \in {"ordinal", "ordinal16"} -> <<c.n, Ordinal(c)>>
          [] c.type = "text" -> <<c.n, Length(c)>>
          [] c.type = "optional" ->
               IF shape.kind = "empty" THEN << >> ELSE <<Sample(c.of, shape)[c.n]>>
          [] c.type \in {"vector", "map"} ->
               IF Count(c) = 0 THEN [count |-> 0]
               ELSE [count |-> Count(c), element |-> Sample(c.of, shape)]
          [] c.type \in {"record", "sized"} -> Sample(c.of, shape)
  IN  [n \in {layout[i].n : i \in DOMAIN layout} |->
         ValueOf(layout[CHOOSE i \in DOMAIN layout : layout[i].n = n])]

\* The calls of a layout, those of its parts included.
RECURSIVE Calls(_)
Calls(layout) == Range(layout) \cup UNION {Calls(layout[i].of) : i \in DOMAIN layout}

Shapes(layout) ==
  [kind : {"empty", "small", "full", "long", "null"}, of : {""}]
    \cup [kind : {"many"}, of : {c.n : c \in {d \in Calls(layout) : d.type \in {"vector", "map"}}}]

\* What a receiver should get: the value with its texts cut to the writer's bounds; it
\* should refuse a vector above them, and a record without an identity.
Acceptable(layout, shape) ==
  /\ shape.kind # "many"
  /\ shape.kind = "null" => \A c \in Calls(layout) : c.type \notin {"map", "identity"}

Expected(layout, shape) ==
  Sample(layout, IF shape.kind = "long" THEN [kind |-> "cut", of |-> ""] ELSE shape)
=============================================================================
