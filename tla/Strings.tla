------------------------------ MODULE Strings ------------------------------
(***************************************************************************)
(* stl_string.c: String objects.  str is the string that the calls are     *)
(* made on: the buffer at sb_ and the member length.  A method that makes  *)
(* a string passes it to stlstr_cinit, and the result is what the next     *)
(* call is made on.  find, split and replacing with a regex are made on a  *)
(* string of Subject, and change nothing but the regex.                    *)
(***************************************************************************)
EXTENDS Regex

CONSTANTS
  Word,        \* what the string holds at first
  Argument,    \* the strings passed to its methods
  Factor,      \* the numbers it is multiplied by
  Replacement, \* what "replacing" puts in: strings, and callbacks by what they return
  MaxLength    \* bound on the length of a string

ASSUME StringAssumption == /\ Word \subseteq Seq(Char) /\ \A w \in Word : Len(w) <= MaxLength
                           /\ Argument \subseteq Seq(Char)
                           /\ Factor \subseteq Nat
                           /\ Replacement \subseteq [callback : {"none", "same"}, text : Seq(Char)]
                           /\ MaxLength \in Nat

VARIABLE str
stringVars == <<rgx, call, str>>

\* The characters of n t ' " and backslash.
EscapeFor == [ch \in {"n", "\\"} |-> IF ch = "n" THEN "\n" ELSE "\\"]

\* A backslash and the character after it become one character, if that is one
\* of the five; the copy is made in every string that a method returns.
Escapes(s, i) == s[i] = "\\" /\ i < Len(s) /\ s[i + 1] \in DOMAIN EscapeFor
CopiedAt(s, c, i) ==
  CASE c.skip -> [c EXCEPT !.skip = FALSE]
    [] ~c.skip /\ Escapes(s, i) -> [out |-> Append(c.out, EscapeFor[s[i + 1]]), skip |-> TRUE]
    [] OTHER -> [c EXCEPT !.out = Append(@, s[i])]
stlstr_copy_and_escape(s) ==
  LET copied[i \in 0..Len(s)] ==
        IF i = 0 THEN [out |-> <<>>, skip |-> FALSE] ELSE CopiedAt(s, copied[i - 1], i)
  IN  copied[Len(s)].out

\* A C string ends at the first NUL of its buffer.
CStr(buffer) == LET nul == {i \in DOMAIN buffer : buffer[i] = NUL}
                IN  IF nul = {} THEN buffer ELSE SubSeq(buffer, 1, Min(nul) - 1)
Contents == CStr(str.sb)

stlstr_cinit(s) ==
  LET made(copied) == [sb |-> copied, length |-> Len(copied)] IN made(stlstr_copy_and_escape(s))

-----------------------------------------------------------------------------
(* replacing                                                                *)

PieceAt(w, span) == SubSeq(w, span[1] + 1, span[1] + span[2])
EndOf(span) == span[1] + span[2]
Out(repl, piece) == CASE repl.callback = "none" -> repl.text
                      [] repl.callback = "same" -> stlstr_copy_and_escape(piece)

\* The builder holds "text" in a block of "block" bytes, of which it counts on
\* "alloced"; what the first block has to spare the reallocated ones have not.
Builder(n) == [text |-> <<>>, alloced |-> 2 * n, block |-> 2 * n + 1, fits |-> TRUE, cur |-> 0]
\* A mutant: what is used already is forgotten.
RoomAtAll(b, needed, more) ==
  IF needed > b.alloced
  THEN [b EXCEPT !.alloced = @ + more, !.block = b.alloced + more]
  ELSE b
Room(b, needed, more) ==
  IF needed > b.alloced - Len(b.text)
  THEN [b EXCEPT !.alloced = @ + more, !.block = b.alloced + more]
  ELSE b
Put(b, s) == [b EXCEPT !.text = @ \o s, !.fits = @ /\ Len(b.text) + Len(s) <= b.block]

\* What is between the last span and this one is copied, and "out" put behind it.
ReplacedAt(me, b, out, span) ==
  LET between == SubSeq(me, b.cur + 1, span[1])
      needed == Len(out) + Len(between)
  IN  [Put(Put(Room(b, needed, needed + Len(me)), between), out) EXCEPT !.cur = EndOf(span)]
Finish(me, b) ==
  LET rest == SubSeq(me, b.cur + 1, Len(me)) IN Put(Room(b, Len(rest), Len(rest) + 5), rest)
stlstr_replacing_generic(me, repl, spans) ==
  LET built[k \in 0..Len(spans)] ==
        IF k = 0 THEN Builder(Len(me))
        ELSE ReplacedAt(me, built[k - 1], Out(repl, PieceAt(me, spans[k])), spans[k])
  IN  Finish(me, built[Len(spans)])

\* strstr from position i on: the position found, or 0.
strstr(s, sub, i) ==
  LET at == {j \in i..(Len(s) - Len(sub) + 1) : SubSeq(s, j, j + Len(sub) - 1) = sub}
  IN  IF at = {} THEN 0 ELSE Min(at)

\* The spans of a string in another: strstr is called again behind each.
FoundAt(f, s, sub) ==
  LET spanned(j) == IF j = 0 THEN f
                    ELSE [spans |-> Append(f.spans, <<j - 1, Len(sub)>>), from |-> j + Len(sub)]
  IN  spanned(strstr(s, sub, f.from))
Spans(s, sub) ==
  LET found[n \in 0..Len(s)] ==
        IF n = 0 THEN [spans |-> <<>>, from |-> 1] ELSE FoundAt(found[n - 1], s, sub)
  IN  found[Len(s)].spans

-----------------------------------------------------------------------------
(* split                                                                    *)

\* A mutant: the next piece begins with the separator.
Between_before(me, spans) ==
  [k \in 1..Len(spans) + 1 |->
     SubSeq(me, IF k = 1 THEN 1 ELSE spans[k - 1][1] + 1,
                IF k = Len(spans) + 1 THEN Len(me) ELSE spans[k][1])]

\* The pieces before, between and behind the spans.
Between(me, spans) ==
  [k \in 1..Len(spans) + 1 |->
     SubSeq(me, IF k = 1 THEN 1 ELSE EndOf(spans[k - 1]) + 1,
                IF k = Len(spans) + 1 THEN Len(me) ELSE spans[k][1])]

\* The separators are looked for as by "replacing", one behind the other.
Characters(s) == [i \in DOMAIN s |-> <<s[i]>>]
SplitAt(s, delim) == IF delim = <<>> THEN Characters(s) ELSE Between(s, Spans(s, delim))

Copies(ss) == [i \in DOMAIN ss |-> stlstr_copy_and_escape(ss[i])]

-----------------------------------------------------------------------------
(* The methods that take a regex.                                           *)

\* A call that collects the matches in w, and what it makes of their spans.
Collecting(op, w, ran, result) ==
  /\ Answers(op, w, ran, result)
  /\ UNCHANGED str

FoundIn(w, spans) ==
  [spans |-> spans,
   pieces |-> IF "g" \in rgx.flags THEN [i \in DOMAIN spans |-> PieceAt(w, spans[i])]
              ELSE IF spans = <<>> THEN <<>> ELSE <<PieceAt(w, spans[1])>>]
stlstr_find(w) ==
  LET Answered(ran) == Collecting("find", w, ran, FoundIn(w, ran.result))
  IN  Answered(rgx_collect_matches(rgx, w))

stlstr_split_regex(w) ==
  LET Answered(ran) == Collecting("split", w, ran,
                         [spans |-> ran.result, pieces |-> Copies(Between(w, ran.result))])
  IN  Answered(rgx_collect_matches(rgx, w))

stlstr_replacing_regex(w, repl) ==
  LET Answered(ran) == Collecting("replacing", w, ran,
                         [spans |-> ran.result, repl |-> repl,
                          built |-> stlstr_replacing_generic(w, repl, ran.result)])
  IN  Answered(rgx_collect_matches(rgx, w))

(* The methods that make a string of str.                                   *)

Gives(op, arg, result) ==
  /\ call' = [op |-> op, arg |-> arg, result |-> result, peak |-> 0, ready |-> TRUE, nr |-> call.nr + 1]
  /\ UNCHANGED rgx

Makes(op, arg, s) ==
  /\ call.nr < MaxCalls
  /\ Len(s) <= MaxLength
  /\ str' = stlstr_cinit(s)
  /\ Gives(op, arg, str'.sb)

stlstr_copy == Makes("copy", <<>>, Contents)
stlstr_reverse == Makes("reverse", <<>>, [i \in DOMAIN Contents |-> Contents[Len(Contents) - i + 1]])
UpperOf == [ch \in Range(Lower) |-> CHOOSE u \in DOMAIN Lower : Lower[u] = ch]
Mapped(case) == [i \in DOMAIN Contents |->
                   IF Contents[i] \in DOMAIN case THEN case[Contents[i]] ELSE Contents[i]]
stlstr_to_lower == Makes("lower", <<>>, Mapped(Lower))
stlstr_to_upper == Makes("upper", <<>>, Mapped(UpperOf))

\* The operand that is stringified comes second if str is the left operand.
stlstr_add(t, sbf) ==
  IF sbf THEN Makes("add", t, Contents \o t) ELSE Makes("added_to", t, t \o Contents)

\* A mutant: the last time too all of it is copied.
Longer_whole(nstr, targ) == IF Len(nstr) >= targ THEN nstr ELSE nstr \o nstr

\* What the new buffer holds is copied behind itself until it is long enough.
Longer(nstr, targ) ==
  IF Len(nstr) >= targ THEN nstr
  ELSE nstr \o SubSeq(nstr, 1, IF Len(nstr) <= targ - Len(nstr) THEN Len(nstr) ELSE targ - Len(nstr))
Doubled(s, count) ==
  LET done[n \in 0..count] == IF n = 0 THEN s ELSE Longer(done[n - 1], Len(s) * count)
  IN  done[count]
stlstr_multiply(count) ==
  Makes("multiply", count, IF count = 0 THEN <<>> ELSE Doubled(Contents, count))

stlstr_replacing(search, repl) ==
  /\ search # <<>>                 \* with an empty one the loop over strstr never ends
  /\ LET Answered(built) == Makes("replace", [search |-> search, repl |-> repl.text, built |-> built], built.text)
     IN  Answered(stlstr_replacing_generic(Contents, repl, Spans(Contents, search)))

\* The array it returns is kept in call, the string stays.
Lists(op, arg, ss) ==
  /\ call.nr < MaxCalls
  /\ Gives(op, arg, Copies(ss))
  /\ UNCHANGED str
stlstr_split(delim) == Lists("split_at", delim, SplitAt(Contents, delim))
stlstr_iterable == Lists("iterable", <<>>, Characters(Contents))

\* The byte is stored in the buffer itself; the member length is not touched.
stlstr_set_index(i, t) ==
  /\ call.nr < MaxCalls
  /\ i \in DOMAIN Contents         \* the index is not checked
  /\ str' = [str EXCEPT !.sb[i] = IF t = <<>> THEN NUL ELSE t[1]]
  /\ Gives("set", [index |-> i, char |-> str'.sb[i]], <<>>)

-----------------------------------------------------------------------------

StringInit == /\ RegexInit
              /\ str \in {stlstr_cinit(w) : w \in Word}

CallsRegex(w) == \/ \E fuzzy \in BOOLEAN : stlrgx_matches(w, fuzzy) /\ UNCHANGED str
                 \/ stlrgx_search(w) /\ UNCHANGED str
                 \/ stlstr_find(w)
                 \/ stlstr_split_regex(w)
                 \/ \E repl \in Replacement : stlstr_replacing_regex(w, repl)

MakesString == \/ stlstr_copy \/ stlstr_reverse \/ stlstr_to_lower \/ stlstr_to_upper
               \/ \E t \in Argument, sbf \in BOOLEAN : stlstr_add(t, sbf)
               \/ \E count \in Factor : stlstr_multiply(count)
               \/ \E t \in Argument, repl \in Replacement :
                    repl.callback = "none" /\ stlstr_replacing(t, repl)
               \/ \E t \in Argument : stlstr_split(t)
               \/ stlstr_iterable
               \/ \E i \in 1..MaxLength, t \in Argument : stlstr_set_index(i, t)

StringNext == (\E w \in Subject : CallsRegex(w)) \/ MakesString
StringSpec == StringInit /\ [][StringNext]_stringVars

-----------------------------------------------------------------------------

\* A regex keeps the automaton it was made with, no state of it is marked with a
\* generation yet to come, and the member length of a string is that of its buffer.
StringTypeOK ==
  /\ rgx.pattern \in Pattern /\ rgx.flags \in FlagSet
  /\ rgx.states = Compiled[rgx.pattern].states /\ rgx.start = Compiled[rgx.pattern].start
  /\ rgx.listgen \in Nat /\ rgx.listit \in [DOMAIN rgx.states -> -1..rgx.listgen]
  /\ str.sb \in Seq(Char \cup {NUL}) /\ str.length = Len(str.sb) /\ str.length <= MaxLength
  /\ call.nr \in 0..MaxCalls

\* Matching and searching leave no state marked, so that the next call starts
\* from the start states (regex.c:686, 845, 884); only a call with an empty
\* string on a fresh regex, and the calls that collect, leave marks.
LeavesNoMarks ==
  call.op \in {"matches", "matches_any", "search"} /\ call.arg # <<>> => Unmarked(rgx)

\* No list of states outgrows the arrays of state_count entries made for it,
\* although a state may be listed twice: at the start of a collecting call the
\* start states are, and those left at the end of the input may be
\* (regex.c:722, 753).
ListsFit == call.peak <= Len(rgx.states)

\* What "replacing" writes lies inside the block it has reallocated so far; the
\* NUL that ends it may be the byte after the block (stl_string.c:210-229).
BuilderFits ==
  LET ok(built) == built.fits /\ Len(built.text) <= built.alloced
  IN  /\ call.op = "replacing" => ok(call.result.built)
      /\ call.op = "replace" => ok(call.arg.built)

\* No buffer is written past its end.
BuffersFit == ListsFit /\ BuilderFits

\* The spans of the matches follow one another inside the string; without g
\* there is at most one (regex.c:720).
InOrder(spans, w) ==
  \A k \in DOMAIN spans :
     /\ spans[k][1] >= 0 /\ spans[k][2] > 0 /\ EndOf(spans[k]) <= Len(w)
     /\ k > 1 => EndOf(spans[k - 1]) <= spans[k][1]
SpansInOrder ==
  call.op \in Collects => /\ InOrder(call.result.spans, call.arg)
                          /\ "g" \notin rgx.flags => Len(call.result.spans) <= 1

\* What has no backslash in it is copied as it is.
Plain(w) == \A i \in DOMAIN w : w[i] # "\\"
Interleaved(pieces, between) ==
  FlattenSeq([k \in DOMAIN pieces |-> IF k < Len(pieces) THEN pieces[k] \o between[k] ELSE pieces[k]])
\* Splitting loses nothing: the pieces with what separated them between are the
\* string; at a string the separator is in no piece.  Replacing what was found
\* by itself gives the string back (stl_string.c:169, 342, 396).
PiecesMakeWhole ==
  /\ SpansInOrder
  /\ call.op = "split" /\ Plain(call.arg) =>
       LET spans == call.result.spans
       IN  /\ Len(call.result.pieces) = Len(spans) + 1
           /\ Interleaved(call.result.pieces, [k \in DOMAIN spans |-> PieceAt(call.arg, spans[k])]) = call.arg
  /\ call.op = "replacing" /\ call.result.repl.callback = "same" /\ Plain(call.arg) =>
       call.result.built.text = call.arg
  /\ call.op = "split_at" /\ call.arg # <<>> /\ Plain(Contents) =>
       /\ Interleaved(call.result, [k \in DOMAIN call.result |-> call.arg]) = Contents
       /\ \A k \in DOMAIN call.result : strstr(call.result[k], call.arg, 1) = 0

\* With backslashes in them strings would be escaped again whenever they are copied.
PlainInputs == /\ \A w \in Word : Plain(w)
               /\ \A t \in Argument : Plain(t)
               /\ \A repl \in Replacement : Plain(repl.text)

\* A string goes the way of the sequence of characters it stands for, as the
\* documentation of its methods has it: docs/stdlib.lky:188-225.
T == INSTANCE Text WITH Upper <- UpperOf, Nul <- NUL, value <- Contents, did <- call
ImplementsText == T!Spec
=============================================================================
