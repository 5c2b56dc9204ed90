------------------------------- MODULE Parser -------------------------------
(***************************************************************************)
(* The wire format of crates/bashfuldb-protocol: serializer.rs writes a    *)
(* value, parser.rs reads one back and makes a command of it.              *)
(***************************************************************************)
EXTENDS Resp, SequencesExt

CONSTANTS
  MaxBulk,   \* max_bulk_length
  MaxDepth   \* MAX_NESTING_DEPTH

\* The length that is sent with a text: only "big" is longer than MaxBulk.  For "long"
\* it is too small, and leaves "rest" of it.
Length(text) == IF text = "big" THEN MaxBulk + 1 ELSE MaxBulk

RECURSIVE Serialize(_)

\* write_to_buf.  A warning is a simple string that begins with "_warning ".
Serialize(v) ==
  CASE v.type = "simple"  -> <<Line("+", v.text, 0)>>
    [] v.type = "warning" -> <<Line("+_warning ", v.text, 0)>>
    [] v.type = "error"   -> <<Line("-", v.text, 0)>>
    [] v.type = "integer" -> <<Line(":", v.text, 0)>>
    [] v.type = "null"    -> <<Line("$", "", -1)>>
    [] v.type = "junk"    -> <<Line(v.text, NotANumber, 0)>>
    [] v.type = "bulk"    -> <<Line("$", "", Length(v.text)), Line("payload", v.text, 0)>>
    [] v.type = "array"   ->
         <<Line("*", "", Len(v.items))>> \o FlattenSeq([i \in DOMAIN v.items |-> Serialize(v.items[i])])

-----------------------------------------------------------------------------
\* Op applied to e, which is evaluated once.
With(e, Op(_)) == CHOOSE r \in {Op(x) : x \in {e}} : TRUE

RECURSIVE ParseFrame(_, _)
RECURSIVE ParseItems(_, _, _, _)

\* The loop over the elements of an array: the first that fails ends it, and the
\* elements behind it stay on the wire.
ParseItems(lines, count, depth, items) ==
  IF Len(items) = count THEN Parsed(Array(items), lines)
  ELSE With(ParseFrame(lines, depth), LAMBDA p :
         IF p.result = "eof" THEN Failed("UnexpectedEof", p.rest)
         ELSE IF p.result # "ok" THEN p
         ELSE ParseItems(p.rest, count, depth, Append(items, p.value)))

\* parse_frame_inner.
ParseFrame(lines, depth) ==
  IF depth > MaxDepth THEN Failed("NestingTooDeep", lines)
  ELSE IF lines = <<>> THEN Eof(lines)
  ELSE LET l == Head(lines)  rest == Tail(lines) IN
    CASE l.byte \in {"", "bytes"} -> Failed("Malformed", rest)
      [] l.byte \in {":", "$", "*"} /\ l.text = NotANumber -> Failed("Malformed", rest)
      [] l.byte = "+" -> Parsed(Simple(l.text), rest)
      [] l.byte = "+_warning " -> Parsed(Value("warning", l.text, <<>>), rest)
      [] l.byte = "-" -> Parsed(Error(l.text), rest)
      [] l.byte = ":" /\ l.text # NotANumber -> Parsed(Value("integer", l.text, <<>>), rest)
      [] l.byte = "$" /\ l.text # NotANumber ->
           IF l.n < 0 THEN Parsed(Null, rest)
           ELSE IF l.n > MaxBulk THEN Failed("BulkTooLarge", rest)
           ELSE IF rest = <<>> THEN Failed("UnexpectedEof", rest)
           ELSE IF Head(rest).text = "long"
             THEN Failed("Malformed", <<Line("payload", "rest", 0)>> \o Tail(rest))
           ELSE Parsed(Bulk(Head(rest).text), Tail(rest))
      [] l.byte = "*" /\ l.text # NotANumber ->
           IF l.n < 0 THEN Parsed(Value("nullarray", "", <<>>), rest)
           ELSE ParseItems(rest, l.n, depth + 1, <<>>)
      [] OTHER -> Failed("UnknownType", rest)

\* parse_command: a value that is not a command is an error, and has been read.
ParseCommand_StopsAtHeader(lines) ==
  With(ParseFrame(lines, 0), LAMBDA p :
    IF p.result = "ok" /\ ~IsCommand(p.value) THEN Failed("Malformed", Tail(lines)) ELSE p)

ParseCommand(lines) ==
  With(ParseFrame(lines, 0), LAMBDA p :
    IF p.result = "ok" /\ ~IsCommand(p.value) THEN Failed("Malformed", p.rest) ELSE p)
=============================================================================
