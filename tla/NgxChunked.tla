----------------------------- MODULE NgxChunked -----------------------------
(***************************************************************************)
(* ngx_http_parse_chunked of the bundled nginx (http/ngx_http_parse.c):    *)
(* the parser of chunked bodies, which stops and resumes at any byte, and  *)
(* the lower bound it keeps on the bytes still to come.  Its callers read  *)
(* no further than that bound allows.                                      *)
(***************************************************************************)
EXTENDS Integers, Sequences, SequencesExt

CONSTANT MaxOff   \* NGX_MAX_OFF_T_VALUE

MaxOffAssumption == MaxOff \in Nat /\ MaxOff % 16 = 15

Digits == <<"0", "1", "2", "3", "4", "5", "6", "7", "8", "9", "a", "b", "c", "d", "e", "f">>
IsHex(ch) == \E i \in DOMAIN Digits : Digits[i] = ch
Hex(ch) == (CHOOSE i \in DOMAIN Digits : Digits[i] = ch) - 1

\* ctx as ngx_pcalloc leaves it.
NewChunked == [state |-> "chunk_start", size |-> 0, length |-> 0]

(* Where a CR, an LF and any other byte lead outside sizes and data.         *)
OnCR == [chunk_extension |-> "chunk_extension_almost_done",
         after_data |-> "after_data_almost_done",
         last_chunk_extension |-> "last_chunk_extension_almost_done",
         trailer |-> "trailer_almost_done",
         trailer_header |-> "trailer_header_almost_done"]
OnLF == [chunk_extension |-> "chunk_data", chunk_extension_almost_done |-> "chunk_data",
         after_data |-> "chunk_start", after_data_almost_done |-> "chunk_start",
         last_chunk_extension |-> "trailer", last_chunk_extension_almost_done |-> "trailer",
         trailer |-> "done", trailer_almost_done |-> "done",
         trailer_header |-> "trailer", trailer_header_almost_done |-> "trailer"]
OnOther == [chunk_extension |-> "chunk_extension",
            last_chunk_extension |-> "last_chunk_extension",
            trailer |-> "trailer_header", trailer_header |-> "trailer_header"]
To(table, state) == IF state \in DOMAIN table THEN table[state] ELSE "invalid"

(* What ends a chunk size.                                                   *)
AfterSize(size, ch) ==
    CASE ch = "cr" -> IF size = 0 THEN "last_chunk_extension_almost_done" ELSE "chunk_extension_almost_done"
      [] ch = "lf" -> IF size = 0 THEN "trailer" ELSE "chunk_data"
      [] ch = ";" -> IF size = 0 THEN "last_chunk_extension" ELSE "chunk_extension"
      [] OTHER -> "invalid"

(* One byte. ctx->size is as wide as off_t.                                  *)
Byte(x, ch) ==
    CASE x.state = "chunk_size" /\ x.size > MaxOff \div 16 -> [x EXCEPT !.state = "invalid"]
      [] x.state \in {"chunk_start", "chunk_size"} /\ IsHex(ch) ->
           [x EXCEPT !.state = "chunk_size",
                     !.size = (IF x.state = "chunk_start" THEN 0 ELSE 16 * @ % (MaxOff + 1)) + Hex(ch)]
      [] x.state = "chunk_size" /\ ~IsHex(ch) -> [x EXCEPT !.state = AfterSize(x.size, ch)]
      [] x.state = "chunk_start" /\ ~IsHex(ch) -> [x EXCEPT !.state = "invalid"]
      [] OTHER -> [x EXCEPT !.state = To(CASE ch = "cr" -> OnCR [] ch = "lf" -> OnLF [] OTHER -> OnOther, @)]

(* ctx->length: the fewest bytes that can still follow.                      *)
Length(x) ==
    CASE x.state = "chunk_start" -> 3
      [] x.state = "chunk_size" -> 1 + (IF x.size # 0 THEN x.size + 4 ELSE 1)
      [] x.state \in {"chunk_extension", "chunk_extension_almost_done"} -> 1 + x.size + 4
      [] x.state = "chunk_data" -> x.size + 4
      [] x.state \in {"after_data", "after_data_almost_done"} -> 4
      [] x.state \in {"last_chunk_extension", "last_chunk_extension_almost_done"} -> 2
      [] x.state \in {"trailer", "trailer_almost_done"} -> 1
      [] x.state \in {"trailer_header", "trailer_header_almost_done"} -> 2

(* ngx_http_parse_chunked on bytes s: it stops before the first byte of      *)
(* data, after the last byte of the body, or at the end of s. n is how many  *)
(* bytes it took.                                                            *)
Scan(x0, s) ==
    LET Next1(a, ch) ==
            IF a.stop THEN a
            ELSE IF a.x.state = "chunk_data" THEN [a EXCEPT !.stop = TRUE, !.rc = "ok"]
            ELSE LET y == Byte(a.x, ch) IN
                 [x |-> y, n |-> a.n + 1, stop |-> y.state \in {"done", "invalid"},
                  rc |-> CASE y.state = "done" -> "done" [] y.state = "invalid" -> "error" [] OTHER -> "again"]
        r == FoldLeft(Next1, [x |-> x0, n |-> 0, stop |-> FALSE, rc |-> "again"], s) IN
    CASE r.rc = "error" \/ (r.rc # "done" /\ r.x.size > MaxOff - 5) -> [rc |-> "error", x |-> x0, n |-> 0]
      [] r.rc = "done" -> [rc |-> "done", x |-> [r.x EXCEPT !.state = "chunk_start"], n |-> r.n]
      [] OTHER -> [rc |-> r.rc, x |-> [r.x EXCEPT !.length = Length(r.x)], n |-> r.n]
ParseChunked(x, s) ==
    Scan(IF x.state = "chunk_data" /\ x.size = 0 THEN [x EXCEPT !.state = "after_data"] ELSE x, s)
=============================================================================
