-------------------------------- MODULE Resp ---------------------------------
(***************************************************************************)
(* RESP as src/resp/writer.go writes it and src/resp/reader.go reads it:   *)
(* requests, replies and the entries of the append-only file.  A stream is *)
(* a sequence of bytes; numbers below ten are written.                     *)
(***************************************************************************)
EXTENDS Integers, FiniteSets, SequencesExt, TLC

CONSTANTS
    Texts,      \* contents of bulk strings: any bytes
    Lines,      \* contents of simple strings and errors: no end of line
    Numbers,    \* integers
    Words,      \* words of inline commands: some bytes, no quote, no end of line
    MaxWritten  \* bound: values in the stream

ASSUME NumberAssumption == Numbers \subseteq -9 .. 9
ASSUME WrittenAssumption == MaxWritten \in Nat

VARIABLES
    stream,     \* the bytes
    offset,     \* where the reader is
    taken,      \* the values it has read
    written,    \* history: the values written, as a reader should see them
    lengths,    \* history: the length of the stream after each of them
    torn        \* a crash has cut the stream

rvars == <<stream, offset, taken, written, lengths, torn>>

-----------------------------------------------------------------------------
(* Value *)

Zero == [type |-> "", str |-> << >>, integer |-> 0, array |-> << >>, isNull |-> FALSE]

SimpleString(s) == [Zero EXCEPT !.type = "+", !.str = s]
ErrorString(s)  == [Zero EXCEPT !.type = "-", !.str = s]
Integer(n)      == [Zero EXCEPT !.type = ":", !.integer = n]
BulkString(s)   == [Zero EXCEPT !.type = "$", !.str = s]
ArrayOf(vs)     == [Zero EXCEPT !.type = "*", !.array = vs]
NullOf(type)    == [Zero EXCEPT !.type = type, !.isNull = TRUE]

-----------------------------------------------------------------------------
(* Writer *)

EOL == <<"CR", "LF">>

Numeral(n) == IF n < 0 THEN <<"-", ToString(-n)>> ELSE <<ToString(n)>>

\* WriteValue.  A null array is written as a null bulk string.
RECURSIVE Encode(_)
Encode(v) ==
    IF v.isNull THEN <<"$", "-", "1">> \o EOL
    ELSE <<v.type>> \o
         CASE v.type \in {"+", "-"} -> v.str \o EOL
           [] v.type = ":" -> Numeral(v.integer) \o EOL
           [] v.type = "$" -> Numeral(Len(v.str)) \o EOL \o v.str \o EOL
           [] v.type = "*" -> Numeral(Len(v.array)) \o EOL
                                \o FlattenSeq([i \in 1 .. Len(v.array) |-> Encode(v.array[i])])

\* What a client types: words, in quotes if there is a space.
InlineOf(ws) ==
    FlattenSeq([i \in DOMAIN ws |->
        (IF i = 1 THEN << >> ELSE <<" ">>)
          \o (IF " " \in ToSet(ws[i]) THEN <<"QUOTE">> \o ws[i] \o <<"QUOTE">> ELSE ws[i])]) \o EOL

-----------------------------------------------------------------------------
(* Reader *)

Failed       == [ok |-> FALSE]
Got(x, next) == [ok |-> TRUE, is |-> x, next |-> next]

ReadLine(s, p) ==
    LET ends == {q \in p .. Len(s) : s[q] = "LF"}
    IN IF ends = {} THEN Failed
       ELSE LET q == Min(ends) IN
            IF q > p /\ s[q - 1] = "CR" THEN Got(SubSeq(s, p, q - 2), q + 1) ELSE Failed

Digit == [c \in {ToString(n) : n \in 0 .. 9} |-> CHOOSE n \in 0 .. 9 : ToString(n) = c]

\* strconv.ParseInt
ParseInt(line) ==
    LET signed == line # << >> /\ line[1] \in {"+", "-"}
        digits == IF signed THEN Tail(line) ELSE line
        n      == FoldLeft(LAMBDA m, c : 10 * m + Digit[c], 0, digits)
    IN IF digits = << >> \/ ~(ToSet(digits) \subseteq DOMAIN Digit) THEN Failed
       ELSE Got(IF signed /\ line[1] = "-" THEN -n ELSE n, 0)

\* splitInline: quotes go, and what is between them is not split.
SplitInline(line) ==
    LET put(a, word) == IF word = << >> THEN a.parts ELSE Append(a.parts, word)
        step(a, c) ==
          IF c = "QUOTE" THEN [a EXCEPT !.inQuote = ~@]
          ELSE IF c = " " /\ ~a.inQuote THEN [a EXCEPT !.parts = put(a, a.word), !.word = << >>]
          ELSE [a EXCEPT !.word = Append(@, c)]
        end == FoldLeft(step, [parts |-> << >>, word |-> << >>, inQuote |-> FALSE], line)
    IN put(end, end.word)

\* Mutant: the text ends with its line.
ReadTextToLine(s, p, n) ==
    LET line == ReadLine(s, p) IN IF line.ok THEN Got(BulkString(line.is), line.next) ELSE Failed

\* Mutant: the end of the line is not waited for.
ReadTextOnly(s, p, n) ==
    IF p + n - 1 <= Len(s) THEN Got(BulkString(SubSeq(s, p, p + n - 1)), p + n + 2) ELSE Failed

\* The n bytes of a bulk string and the end of its line.
ReadText(s, p, n) ==
    IF p + n + 1 <= Len(s) /\ SubSeq(s, p + n, p + n + 1) = EOL
    THEN Got(BulkString(SubSeq(s, p, p + n - 1)), p + n + 2) ELSE Failed

\* The n values that begin at p; an array of them is the value of an array.
ReadValues(s, n0, p0) ==
    LET read[n \in Nat, p \in Nat] ==
          IF n = 0 THEN Got(<< >>, p)
          ELSE IF p > Len(s) THEN Failed
          ELSE
          LET inline == s[p] \notin {"+", "-", ":", "$", "*"}
              line   == ReadLine(s, IF inline THEN p ELSE p + 1)
              number == ParseInt(line.is)
              array  == read[number.is, line.next]
              value  ==
                IF ~line.ok THEN Failed ELSE
                CASE inline -> LET parts == SplitInline(line.is) IN
                               IF parts = << >> THEN Failed
                               ELSE Got(ArrayOf([i \in DOMAIN parts |-> BulkString(parts[i])]), line.next)
                  [] s[p] = "+" -> Got(SimpleString(line.is), line.next)
                  [] s[p] = "-" -> Got(ErrorString(line.is), line.next)
                  [] s[p] \in {":", "$", "*"} /\ ~number.ok -> Failed
                  [] s[p] = ":" /\ number.ok -> Got(Integer(number.is), line.next)
                  [] s[p] \in {"$", "*"} /\ number.ok /\ number.is = -1 -> Got(NullOf(s[p]), line.next)
                  [] s[p] \in {"$", "*"} /\ number.ok /\ number.is < -1 -> Failed
                  [] s[p] = "$" /\ number.ok /\ number.is >= 0 -> ReadText(s, line.next, number.is)
                  [] s[p] = "*" /\ number.ok /\ number.is >= 0 ->
                       IF array.ok THEN Got(ArrayOf(array.is), array.next) ELSE Failed
              rest == read[n - 1, value.next]
          IN IF value.ok THEN IF rest.ok THEN Got(<<value.is>> \o rest.is, rest.next) ELSE Failed
             ELSE Failed
    IN read[n0, p0]

ReadValue(s, p) == ReadValues(s, 1, p)

-----------------------------------------------------------------------------
(* A writer, a reader behind it, and a crash after which the reader begins  *)
(* again with what is left (Replay).                                        *)

Flat == {SimpleString(s) : s \in Lines} \cup {ErrorString(s) : s \in Lines}
          \cup {Integer(n) : n \in Numbers} \cup {NullOf("$")}
Strings == {BulkString(s) : s \in Texts}

\* A request or an entry, a reply, a page of SCAN.
Messages ==
    Flat \cup Strings \cup {ArrayOf(vs) : vs \in UNION {[1 .. n -> Strings] : n \in 0 .. 2}}
      \cup {ArrayOf(<<v, ArrayOf(<<v>>)>>) : v \in Flat \cup Strings}

Put(v, bytes) ==
    /\ ~torn /\ Len(written) < MaxWritten
    /\ stream' = stream \o bytes
    /\ written' = Append(written, v)
    /\ lengths' = Append(lengths, Len(stream'))
    /\ UNCHANGED <<offset, taken, torn>>

Write(v) == Put(v, Encode(v))

TypeInline(ws) == Put(ArrayOf([i \in DOMAIN ws |-> BulkString(ws[i])]), InlineOf(ws))

Take ==
    /\ ReadValue(stream, offset).ok
    /\ LET r == ReadValue(stream, offset) IN taken' = taken \o r.is /\ offset' = r.next
    /\ UNCHANGED <<stream, written, lengths, torn>>

Tear(n) ==
    /\ ~torn /\ torn' = TRUE
    /\ stream' = SubSeq(stream, 1, n)
    /\ offset' = 1 /\ taken' = << >>
    /\ UNCHANGED <<written, lengths>>

InitResp == stream = << >> /\ offset = 1 /\ taken = << >> /\ written = << >> /\ lengths = << >> /\ torn = FALSE

NextResp ==
    \/ \E v \in Messages : Write(v)
    \/ \E ws \in UNION {[1 .. n -> Words] : n \in 1 .. 2} : TypeInline(ws)
    \/ Take
    \/ \E n \in 0 .. Len(stream) - 1 : Tear(n)

-----------------------------------------------------------------------------
(* The reader gets the values that were written, one for one and in order,  *)
(* whatever bytes the texts contain and wherever the stream was cut: it     *)
(* never takes a part of one for another.                                   *)
TakenAsWritten == IsPrefix(taken, written)

(* It stops only where nothing is left or an entry was cut, and what was    *)
(* cut it does not take, be there one byte missing.                         *)
StopsAtTheCut ==
    ~ReadValue(stream, offset).ok => Len(taken) = Cardinality({i \in DOMAIN lengths : lengths[i] <= Len(stream)})

=============================================================================
