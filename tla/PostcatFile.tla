----------------------------- MODULE PostcatFile -----------------------------
(***************************************************************************)
(* The message file of src/internal/postcat/postcat.go: FormatEnvelope,    *)
(* which Write and the S3 handler use, and Parse, which the tools use.     *)
(* A file is a sequence of symbols.  A record's two first bytes ("S ") are *)
(* one symbol, its timestamp is left out, and an address or a body is a    *)
(* sequence of symbols that may hold line ends.                            *)
(***************************************************************************)
EXTENDS Integers, Sequences, FiniteSets, SequencesExt

CR == "CR"
LF == "LF"
CRLF == <<CR, LF>>

NullSender == <<"<", ">">>

-----------------------------------------------------------------------------
(* A LF starts a part, any other byte is added to the last one.            *)
Extend(parts, c) ==
  IF c = LF THEN Append(parts, <<>>)
  ELSE [parts EXCEPT ![Len(parts)] = Append(@, c)]

(* strings.Split(s, "\n"): the parts, one more than there are LFs.         *)
Split(s) ==
  LET split[i \in 0 .. Len(s)] ==
        IF i = 0 THEN << <<>> >> ELSE Extend(split[i - 1], s[i])
  IN  split[Len(s)]

TrimCR(s) == IF s # <<>> /\ Last(s) = CR THEN Front(s) ELSE s

FormatNullSender(s) == IF s = <<>> THEN NullSender ELSE s

sanitizeAddr(a) ==
  FlattenSeq([i \in DOMAIN a |-> IF a[i] \in {CR, LF} THEN <<>> ELSE <<a[i]>>])

(* A record of writeEnvelope.  The code ends records with LF; eol is a     *)
(* parameter for the files Parse must also read, whose records end with    *)
(* CRLF.                                                                   *)
Record(letter, text, eol) == <<letter>> \o text \o eol

(* writeEnvelope.                                                          *)
Envelope(m, eol) ==
  Record("S", sanitizeAddr(FormatNullSender(m.from)), eol)
  \o FlattenSeq([i \in DOMAIN m.to |-> Record("R", sanitizeAddr(m.to[i]), eol)])
  \o Record("T", <<>>, eol) \o eol

FormatEnvelope(m, eol) == Envelope(m, eol) \o m.body

-----------------------------------------------------------------------------
(* Where sep occurs in b. *)
Occurrences(b, sep) ==
  {i \in 1 .. Len(b) - Len(sep) + 1 : SubSeq(b, i, i + Len(sep) - 1) = sep}

Separators(b) ==
  {[at |-> i, len |-> 2] : i \in Occurrences(b, <<LF, LF>>)}
  \cup {[at |-> i, len |-> 4] : i \in Occurrences(b, CRLF \o CRLF)}

(* Mutant: LF LF is preferred wherever it is. *)
FindLFFirst(b) ==
  LET found == Separators(b)
      short == {s \in found : s.len = 2}
  IN  CHOOSE s \in (IF short = {} THEN found ELSE short) :
        \A t \in (IF short = {} THEN found ELSE short) : s.at <= t.at

(* The earliest blank line, of either kind. *)
findBlankLine(b) ==
  CHOOSE s \in Separators(b) : \A t \in Separators(b) : s.at <= t.at

(* The records of the envelope with one letter, each without the letter.   *)
Records(lines, letter) ==
  FlattenSeq([i \in DOMAIN lines |->
                IF lines[i] # <<>> /\ Head(lines[i]) = letter
                  THEN <<Tail(lines[i])>> ELSE <<>>])

(* Without a blank line there is an empty message.  A later sender record  *)
(* replaces an earlier one.                                                *)
Parse(b) ==
  IF Separators(b) = {} THEN [from |-> <<>>, to |-> <<>>, body |-> <<>>]
  ELSE LET sep == findBlankLine(b)
           parts == Split(SubSeq(b, 1, sep.at - 1))
           lines == [i \in DOMAIN parts |-> TrimCR(parts[i])]
           senders == Records(lines, "S")
       IN  [from |-> IF senders = <<>> THEN <<>> ELSE Last(senders),
            to   |-> Records(lines, "R"),
            body |-> SubSeq(b, sep.at + sep.len, Len(b))]

==============================================================================
