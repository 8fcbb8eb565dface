----------------------------- MODULE Serializer -----------------------------
(***************************************************************************)
(* Code objects as bytes and back (interpreter/serialize.c): what -c       *)
(* writes and what a binary file, or a bottled program, is run from.       *)
(*                                                                         *)
(* A name is one byte here, itself.  Numbers are big-endian, and a length  *)
(* includes the five bytes of type and length before the content.          *)
(***************************************************************************)
EXTENDS Values, SequencesExt

LBI_INTEGER == 1
LBI_CODE == 7

\* srl_int32_to_bytes, and srl_int64_to_bytes of what fits into 32 bits
Int32(n) == << (n \div 16777216) % 256, (n \div 65536) % 256, (n \div 256) % 256, n % 256 >>
Int64(n) == << 0, 0, 0, 0 >> \o Int32(n)

\* srl_bytes_to_int32 and srl_bytes_to_int64, at an offset
ReadInt32(bytes, i) ==
  256 * (256 * (256 * bytes[i + 1] + bytes[i + 2]) + bytes[i + 3]) + bytes[i + 4]
ReadInt64(bytes, i) == ReadInt32(bytes, i + 4)

SharedInfo(type, len) == <<type>> \o Int32(len)
LengthAt(bytes, i) == ReadInt32(bytes, i + 1)

-----------------------------------------------------------------------------
RECURSIVE srl_serialize_object(_, _), srl_deserialize_object(_, _, _), Constants(_, _, _, _)
RECURSIVE Names(_, _, _, _)

\* Code objects are written inside those whose constants they are.
srl_serialize_code(codes, code) ==
  LET constants == FlattenSeq([i \in DOMAIN code.constants |->
                                 srl_serialize_object(codes, code.constants[i])])
      names == FlattenSeq([i \in DOMAIN code.names |-> Int32(1) \o <<code.names[i]>>])
      no_refname == Int32(0)
      content == Int32(Len(code.constants)) \o Int32(code.num_locals) \o Int32(Len(code.names))
                   \o Int32(code.op_len) \o Int32(code.stack_size)
                   \o constants \o names \o no_refname \o code.ops
  IN  SharedInfo(LBI_CODE, 5 + Len(content)) \o content

srl_serialize_object(codes, v) ==
  CASE v.kind = "int" -> SharedInfo(LBI_INTEGER, 13) \o Int64(v.at)
    [] v.kind = "code" -> srl_serialize_code(codes, codes[v.at])

-----------------------------------------------------------------------------
\* n objects from at on: their values, the code objects made so far, and the
\* place behind them.  r holds the same of those already read.
Constants(bytes, n, junk, r) ==
  IF n = 0 THEN r
  ELSE LET one == srl_deserialize_object(bytes, [r EXCEPT !.values = << >>], junk)
       IN  Constants(bytes, n - 1, junk,
                     [codes |-> one.codes, at |-> r.at + LengthAt(bytes, r.at),
                      values |-> r.values \o one.values])

\* n names from at on, and the place behind them.
Names(bytes, n, at, names) ==
  IF n = 0 THEN [names |-> names, at |-> at]
  ELSE LET end == at + 4 + ReadInt32(bytes, at)
       IN  Names(bytes, n - 1, end, names \o SubSeq(bytes, at + 5, end))

\* srl_deserialize_code, at r.at.  It sets no catch_size: the field holds what
\* the memory held before.
srl_deserialize_code(bytes, r, junk) ==
  LET field(k) == ReadInt32(bytes, r.at + 5 + 4 * k)
      constants == Constants(bytes, field(0), junk, [r EXCEPT !.at = @ + 25])
      names == Names(bytes, field(2), constants.at, << >>)
      ops == names.at + 4 + ReadInt32(bytes, names.at)
      code == [ops |-> SubSeq(bytes, ops + 1, ops + field(3)), op_len |-> field(3),
               constants |-> constants.values, names |-> names.names,
               num_locals |-> field(1), stack_size |-> field(4), catch_size |-> junk]
  IN  [codes |-> Append(constants.codes, code), at |-> r.at,
       values |-> <<Code(Len(constants.codes) + 1)>>]

srl_deserialize_object(bytes, r, junk) ==
  CASE bytes[r.at + 1] = LBI_INTEGER -> [r EXCEPT !.values = <<Num(ReadInt64(bytes, r.at + 5))>>]
    [] bytes[r.at + 1] = LBI_CODE -> srl_deserialize_code(bytes, r, junk)

\* The program in a file, and read from it again.
Saved(codes) == srl_serialize_object(codes, Code(Len(codes)))

Loaded(file, junk) ==
  srl_deserialize_object(SubSeq(file, 1, LengthAt(file, 0)),
                         [codes |-> << >>, at |-> 0, values |-> << >>], junk).codes
=============================================================================
