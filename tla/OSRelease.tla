----------------------------- MODULE OSRelease -----------------------------
(***************************************************************************)
(* internal/hostinfo: the reading of os-release(5).  A value is a sequence *)
(* of characters; a line is what its author meant - a key, a value and the *)
(* quoting it is written in - and the parser sees the key and the raw      *)
(* characters after the "=" only.                                          *)
(***************************************************************************)
EXTENDS Naturals, SequencesExt

DQ == "double quote"
SQ == "single quote"
BS == "backslash"
SP == "space"
Special == {DQ, BS, "dollar", "backquote"}

\* The writer's side, by os-release(5): in double quotes the shell's special
\* characters are escaped; "open" is a quote that is never closed.
Escape(v) == FlattenSeq([i \in DOMAIN v |-> IF v[i] \in Special THEN <<BS, v[i]>> ELSE <<v[i]>>])
Raw(form, v) ==
    CASE form = "plain" -> v
      [] form = "padded" -> v \o <<SP>>
      [] form = "double" -> <<DQ>> \o Escape(v) \o <<DQ>>
      [] form = "single" -> <<SQ>> \o v \o <<SQ>>
      [] form = "open" -> <<DQ>> \o v
Assignment(key, form, v) == [key |-> key, form |-> form, value |-> v, raw |-> Raw(form, v)]

\* A value that needs no quotes has none at its head and no blank at its end;
\* a quote left open does not end like a closed one.
Begins(v, c) == v # <<>> /\ v[1] = c
Ends(v, c) == v # <<>> /\ Last(v) = c
AsWritten(line) ==
    /\ line = Assignment(line.key, line.form, line.value)
    /\ line.form \in {"plain", "padded", "double", "single", "open"}
    /\ line.value \in Seq(STRING)
    /\ line.form \in {"plain", "padded"} =>
          ~Begins(line.value, DQ) /\ ~Begins(line.value, SQ) /\ ~Ends(line.value, SP)
    /\ line.form = "open" => ~Ends(line.value, DQ) /\ ~Ends(line.value, SP)

\* Letters, digits and underscores: not a comment, not text with a "=" in it.
isValidOSReleaseKey(key) == key \in {"ID", "VERSION_ID", "PRETTY_NAME", "NAME"}

\* Faulty: escapes are left as they are.
KeepEscapes(v) == v

\* A character taken literally because of the backslash before it; the
\* backslash goes, one before any other character stays.
expandDoubleQuoteEscapes(v) ==
    LET escaped[i \in 0..(Len(v) + 1)] ==
            /\ i \in 2..Len(v)
            /\ v[i] \in Special \cup {SQ}
            /\ v[i - 1] = BS
            /\ ~escaped[i - 1]
    IN  FlattenSeq([i \in DOMAIN v |-> IF escaped[i + 1] THEN <<>> ELSE <<v[i]>>])

Quoted(raw, q) == Begins(raw, q)
Balanced(raw, q) == Len(raw) >= 2 /\ Ends(raw, q)
Inner(raw) == SubSeq(raw, 2, Len(raw) - 1)

WellQuoted(raw) == \A q \in {DQ, SQ} : Quoted(raw, q) => Balanced(raw, q)

\* The line has been trimmed of surrounding blanks as a whole.
TrimRight(v) == IF Ends(v, SP) THEN Front(v) ELSE v
unquoteOSReleaseValue(raw) ==
    IF Quoted(raw, DQ) THEN expandDoubleQuoteEscapes(Inner(raw))
    ELSE IF Quoted(raw, SQ) THEN Inner(raw)
    ELSE raw

Trimmed(line) == TrimRight(line.raw)
NoFields == [k \in {"ID", "VERSION_ID"} |-> <<>>]

splitKeyValue(line) == isValidOSReleaseKey(line.key) /\ WellQuoted(Trimmed(line))

LastOf(S) == CHOOSE i \in S : \A j \in S : j <= i

\* The last line that can be split counts; others change nothing.
ParseOSRelease(file) ==
    [k \in DOMAIN NoFields |->
        LET lines == {i \in DOMAIN file : file[i].key = k /\ splitKeyValue(file[i])}
        IN  IF lines = {} THEN <<>>
            ELSE unquoteOSReleaseValue(Trimmed(file[LastOf(lines)]))]

\* What the author of the file meant.
Meant(file, key) ==
    LET lines == {i \in DOMAIN file : file[i].key = key /\ file[i].form # "open"}
    IN  IF lines = {} THEN <<>>
        ELSE file[LastOf(lines)].value
=============================================================================
