-------------------------------- MODULE Resp --------------------------------
(***************************************************************************)
(* What goes over the wire of crates/bashfuldb-protocol: the lines, the    *)
(* values and the commands of types.rs and parser.rs.                      *)
(*                                                                         *)
(* The wire is a sequence of lines.  A line is its type byte, the text     *)
(* behind it and, where that text is a number, the number.  The payload of *)
(* a bulk string is a line of its own, and so is what a length that is too *)
(* small leaves of it; read as a header they have no known type.  Lengths  *)
(* that reach into the next line are not modelled.  A value is a record of *)
(* its type, its text and its elements.                                    *)
(***************************************************************************)
EXTENDS Integers, Sequences

Line(byte, text, n) == [byte |-> byte, text |-> text, n |-> n]

Value(type, text, items) == [type |-> type, text |-> text, items |-> items]
Simple(text) == Value("simple", text, <<>>)
Error(text) == Value("error", text, <<>>)
Bulk(text) == Value("bulk", text, <<>>)
Null == Value("null", "", <<>>)
Array(items) == Value("array", "", items)

\* What is no value: a header without the number that its type byte calls for, and,
\* where the byte is "" or "bytes", an empty line and one that is not UTF-8.
Junk(byte) == Value("junk", byte, <<>>)
NotANumber == "abc"

\* What a parse returns, and the lines it leaves.
Parsed(v, rest) == [result |-> "ok", value |-> v, rest |-> rest]
Eof(rest) == [result |-> "eof", value |-> Null, rest |-> rest]
Failed(error, rest) == [result |-> error, value |-> Null, rest |-> rest]

\* frame_array_to_command: the name and the arguments; a null argument is empty.
IsName(v) == v.type \in {"bulk", "simple"}
IsArgument(v) == v.type \in {"bulk", "simple", "null"}
IsCommand(v) ==
  /\ v.type = "array" /\ v.items # <<>>
  /\ IsName(Head(v.items)) /\ \A i \in DOMAIN Tail(v.items) : IsArgument(Tail(v.items)[i])

\* to_uppercase, of the names in the model.
Upper(name) == IF name = "auth" THEN "AUTH" ELSE name
NameOf(v) == Upper(Head(v.items).text)
ArgumentsOf(v) == [i \in DOMAIN Tail(v.items) |-> Tail(v.items)[i].text]
=============================================================================
