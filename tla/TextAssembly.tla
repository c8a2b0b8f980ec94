---------------------------- MODULE TextAssembly ----------------------------
(***************************************************************************)
(* From the bytes of sampled tokens to the text of events: UTF-8 sequences *)
(* split over tokens and flushes (utf8.hpp), and stop strings matched in   *)
(* the bytes generated so far (text_stop_matcher.hpp), as a row of the     *)
(* inference engine uses them.                                             *)
(***************************************************************************)
EXTENDS Integers, Sequences, SequencesExt

CONSTANTS
  Bytes,                \* the bytes tokens are made of
  Stops,                \* the stop strings of the request, in its order
  ChunkSizes,           \* tokens per event; 0: one event at the end
  MaxToken,             \* bound: bytes of a token
  MaxText               \* bound: bytes of a row

TextAssumption ==
  /\ Bytes \subseteq 0..255
  /\ \A k \in DOMAIN Stops : Stops[k] \in Seq(0..255) \ {<<>>}

VARIABLES
  chunk_size,           \* of the request
  text,                 \* history: all bytes generated
  pending,              \* row.pending
  buffered_tokens,
  stop_tail,            \* row.stop_tail
  matched,              \* stats.matched_stops of the row
  out,                  \* the bytes of its events
  finished

vars == <<chunk_size, text, pending, buffered_tokens, stop_tail, matched, out, finished>>

-----------------------------------------------------------------------------
is_utf8_continuation(b) == b \in 128..191

utf8_sequence_length(lead) ==
  CASE lead <= 127 -> 1
    [] lead \in 194..223 -> 2
    [] lead \in 224..239 -> 3
    [] lead \in 240..244 -> 4
    [] OTHER -> 0

\* Of a sequence as long as its lead byte says.
is_valid_utf8_sequence(s) ==
  /\ \A i \in 2..Len(s) : is_utf8_continuation(s[i])
  /\ s[1] = 224 => s[2] >= 160
  /\ s[1] = 237 => s[2] < 160
  /\ s[1] = 240 => s[2] >= 144
  /\ s[1] = 244 => s[2] <= 143

Replacement == <<239, 191, 189>>

\* Mutant: a sequence cut by the end of the buffer is taken for an invalid one.
TakeEager(p) ==
  LET from[i \in 1..(Len(p) + 1)] ==
        IF i > Len(p) THEN [out |-> <<>>, rest |-> <<>>]
        ELSE LET len == utf8_sequence_length(p[i])
                 whole == len # 0 /\ i + len - 1 <= Len(p)
                          /\ is_valid_utf8_sequence(SubSeq(p, i, i + len - 1))
                 tail == from[IF whole THEN i + len ELSE i + 1]
             IN [tail EXCEPT !.out = (IF whole THEN SubSeq(p, i, i + len - 1)
                                      ELSE Replacement) \o @]
  IN from[1]

\* take_complete_utf8: what it returns, and what stays in the buffer.
Take(p) ==
  LET from[i \in 1..(Len(p) + 1)] ==
        LET len == utf8_sequence_length(p[i])
            valid == len # 0 /\ is_valid_utf8_sequence(SubSeq(p, i, i + len - 1))
            tail == from[IF valid THEN i + len ELSE i + 1]
        IN IF i > Len(p) THEN [out |-> <<>>, rest |-> <<>>]
           ELSE IF i + len - 1 > Len(p)
           THEN [out |-> <<>>, rest |-> SubSeq(p, i, Len(p))]
           ELSE [tail EXCEPT !.out = (IF valid THEN SubSeq(p, i, i + len - 1)
                                      ELSE Replacement) \o @]
  IN from[1]

-----------------------------------------------------------------------------
max_bytes == FoldSeq(LAMBDA s, n : IF Len(s) > n THEN Len(s) ELSE n, 0, Stops)

LastBytes(s, n) == IF Len(s) > n THEN SubSeq(s, Len(s) - n + 1, Len(s)) ELSE s

\* TextStopMatcher::append: the tail it keeps, and the stop string it returns.
Appended(tail, decoded) == LastBytes(tail \o decoded, max_bytes)

Match(tail) == SelectSeq(Stops, LAMBDA s : IsSuffix(s, tail))

FirstOf(stops) == IF stops = <<>> THEN <<>> ELSE Head(stops)

Init ==
  /\ chunk_size \in ChunkSizes
  /\ text = <<>> /\ pending = <<>> /\ buffered_tokens = 0
  /\ stop_tail = <<>> /\ matched = <<>> /\ out = <<>> /\ finished = FALSE

\* One sampled token: decoded, matched and, at the end of a chunk, flushed.
Token(decoded) ==
  /\ ~finished /\ matched = <<>> /\ Len(text) + Len(decoded) <= MaxText
  /\ text' = text \o decoded
  /\ LET tail == Appended(stop_tail, decoded)
     IN /\ matched' = FirstOf(Match(tail))
        /\ stop_tail' = IF matched' # <<>> THEN <<>> ELSE tail
  /\ LET now == pending \o decoded
         flush == chunk_size > 0 /\ buffered_tokens + 1 >= chunk_size
     IN /\ out' = IF flush THEN out \o Take(now).out ELSE out
        /\ pending' = IF flush THEN Take(now).rest ELSE now
        /\ buffered_tokens' = IF flush THEN 0 ELSE buffered_tokens + 1
  /\ UNCHANGED <<chunk_size, finished>>

\* complete(): flush(row, true) drops an unfinished sequence.
Finish ==
  /\ ~finished
  /\ finished' = TRUE
  /\ out' = out \o Take(pending).out
  /\ pending' = <<>> /\ buffered_tokens' = 0
  /\ UNCHANGED <<chunk_size, text, stop_tail, matched>>

Next ==
  \/ \E n \in 1..MaxToken : \E decoded \in [1..n -> Bytes] : Token(decoded)
  \/ Finish

Spec == Init /\ [][Next]_vars

-----------------------------------------------------------------------------
\* The Unicode scalar value of a sequence is in the range its length is for.
IsCharacter(s) ==
  LET cont(i) == s[i] - 128
      follows == \A i \in 2..Len(s) : s[i] \in 128..191
  IN CASE Len(s) = 1 -> s[1] < 128
       [] Len(s) = 2 -> /\ follows /\ s[1] \in 192..223
                        /\ (s[1] - 192) * 64 + cont(2) >= 128
       [] Len(s) = 3 -> /\ follows /\ s[1] \in 224..239
                        /\ LET c == (s[1] - 224) * 4096 + cont(2) * 64 + cont(3)
                           IN c >= 2048 /\ c \notin 55296..57343
       [] OTHER -> /\ follows /\ s[1] \in 240..247
                   /\ LET c == (s[1] - 240) * 262144 + cont(2) * 4096 + cont(3) * 64 + cont(4)
                      IN c \in 65536..1114111

WellFormed(s) ==
  LET from[i \in 1..(Len(s) + 1)] ==
        i = Len(s) + 1 \/ \E n \in 1..4 : /\ i + n - 1 <= Len(s)
                                          /\ IsCharacter(SubSeq(s, i, i + n - 1))
                                          /\ from[i + n]
  IN from[1]

\* Types; a flush leaves less than one character behind.
TypeOK ==
  /\ chunk_size \in ChunkSizes /\ finished \in BOOLEAN
  /\ Len(stop_tail) <= max_bytes
  /\ buffered_tokens = 0 => Len(pending) < 4

\* Every event is well-formed UTF-8, by the scalar values of Unicode: no
\* surrogates, no overlong forms, nothing beyond U+10FFFF.
OutputWellFormed == WellFormed(out)

\* How bytes are split into tokens, and tokens into events, does not show: what
\* was sent and what is to be sent are those of all bytes taken at once.
ChunksDoNotShow ==
  ~finished => LET now == Take(pending) all == Take(text)
               IN out \o now.out = all.out /\ now.rest = all.rest

\* A row whose bytes are UTF-8 arrives unchanged and complete.
TextArrives == finished /\ WellFormed(text) => out = text

\* The row stops at the first token that completes a stop string in all of its
\* text, with the first such string of the request, though only the end of the
\* text is kept (docs/http-api.md, "matches can span tokens and UTF-8 byte
\* boundaries").
StopsWhereItShould ==
  matched = FirstOf(SelectSeq(Stops, LAMBDA s : IsSuffix(s, text)))

=============================================================================
