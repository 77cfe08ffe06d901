----------------------------- MODULE PatchFile -----------------------------
(***************************************************************************)
(* A file as a text of lines: what ProjectDB::patchFile makes of it        *)
(* (src/db/database.cpp) and what GET ?from=&to= shows of it               *)
(* (src/routes/files.cpp, src/security/validator.cpp).  StoreAPI knows     *)
(* Patched only as the function Edit.                                      *)
(*                                                                         *)
(* A text is a sequence of symbols, one of them the newline.  std::getline *)
(* gives no line for what follows a final newline when nothing follows it. *)
(***************************************************************************)
EXTENDS Integers, SequencesExt

CONSTANTS
  Letter,      \* symbols other than the newline
  NL,          \* '\n'
  Absent,      \* a field or parameter that is not there
  Junk,        \* a parameter std::stoi throws on
  Rejected,    \* patchFile returns false
  MaxInt,      \* the largest int
  LineNumber,  \* numbers a client writes
  MaxContent,  \* bound: the texts a client sends
  MaxText      \* bound: the length of the file

VARIABLE text

ASSUME PatchFileAssumption ==
  /\ NL \notin Letter
  /\ Absent \notin Int /\ Junk \notin Int
  /\ Rejected \notin Seq(Seq(Letter \cup {NL})) \cup Seq(Letter \cup {NL})
  /\ LineNumber \subseteq Int
  /\ MaxContent \in Nat /\ MaxText \in Nat /\ MaxContent < MaxText
  /\ MaxInt \in Nat /\ MaxText + 2 <= MaxInt

Symbol == Letter \cup {NL}

Text(n) == BoundedSeq(Symbol, n)

(* The body of a PATCH request; "content" and "with" are "" by default.    *)
PatchBody ==
  [op : {"replace_line", "insert_line", "delete_line"},
   line : LineNumber \cup {Absent}, content : Text(MaxContent)]
  \cup [op : {"append"}, content : Text(MaxContent)]
  \cup [op : {"find_replace"}, find : Text(MaxContent) \cup {Absent}, with : Text(MaxContent)]

IntRange == -(MaxInt + 1) .. MaxInt

(* get<int>() of a 64-bit JSON number keeps its low bits. *)
ToInt(k) == ((k + MaxInt + 1) % (2 * (MaxInt + 1))) - (MaxInt + 1)

(* std::getline over the first i symbols: the lines it has ended, and the  *)
(* symbols of the one it is in.                                            *)
Split(t) ==
  LET split[i \in 0 .. Len(t)] ==
        IF i = 0 THEN [done |-> <<>>, cur |-> <<>>]
        ELSE LET s == split[i - 1] IN
             IF t[i] = NL THEN [done |-> Append(s.done, s.cur), cur |-> <<>>]
                          ELSE [done |-> s.done, cur |-> Append(s.cur, t[i])]
  IN  split

(* A faulty variant: the empty piece after a final newline is a line too.  *)
LinesAndRest(t) ==
  LET split == Split(t)[Len(t)] IN Append(split.done, split.cur)

(* while (std::getline(ss, line)) lines.push_back(line) *)
Lines(t) ==
  LET split == Split(t)[Len(t)] IN
  IF split.cur = <<>> THEN split.done ELSE Append(split.done, split.cur)

(* The first i lines with a newline between two. *)
JoinedUpTo(ls) ==
  LET joined[i \in 0 .. Len(ls)] ==
        IF i = 0 THEN <<>>
        ELSE (IF i = 1 THEN <<>> ELSE joined[i - 1] \o <<NL>>) \o ls[i]
  IN  joined

Joined(ls) == JoinedUpTo(ls)[Len(ls)]

(* A faulty variant: the lines are joined without the final newline.       *)
Unended(ls) == Joined(ls)

(* The text written back ends with a newline, whatever was read. *)
Rejoined(ls) == Joined(ls) \o <<NL>>

(* std::string::find; an empty string is found at once. *)
Positions(f, t) == {i \in 0 .. Len(t) - Len(f) : SubSeq(t, i + 1, i + Len(f)) = f}

(* A faulty variant: rfind.                                                *)
ReplacedLast(f, w, t) ==
  LET i == Max(Positions(f, t)) IN
  SubSeq(t, 1, i) \o w \o SubSeq(t, i + Len(f) + 1, Len(t))

ReplacedFirst(f, w, t) ==
  LET i == Min(Positions(f, t)) IN
  SubSeq(t, 1, i) \o w \o SubSeq(t, i + Len(f) + 1, Len(t))

LineOf(p) == IF p.line = Absent THEN 0 ELSE ToInt(p.line)

(* A faulty variant: insert_line inserts before line N.                    *)
EditedBefore(p, ls) ==
  CASE p.op = "replace_line" /\ LineOf(p) \in 1 .. Len(ls) -> ReplaceAt(ls, LineOf(p), p.content)
    [] p.op = "insert_line" /\ LineOf(p) \in 1 .. Len(ls)  -> InsertAt(ls, LineOf(p), p.content)
    [] p.op = "delete_line" /\ LineOf(p) \in 1 .. Len(ls)  -> RemoveAt(ls, LineOf(p))
    [] p.op = "append"                                     -> Append(ls, p.content)
    [] p.op = "find_replace" /\ p.find # Absent /\ Positions(p.find, Joined(ls)) # {} ->
         Lines(ReplacedFirst(p.find, p.with, Joined(ls)))
    [] OTHER -> Rejected

(* The chain of operations of patchFile, on the lines of the file. *)
EditedLines(p, ls) ==
  CASE p.op = "replace_line" /\ LineOf(p) \in 1 .. Len(ls) -> ReplaceAt(ls, LineOf(p), p.content)
    [] p.op = "insert_line" /\ LineOf(p) \in 0 .. Len(ls)  -> InsertAt(ls, LineOf(p) + 1, p.content)
    [] p.op = "delete_line" /\ LineOf(p) \in 1 .. Len(ls)  -> RemoveAt(ls, LineOf(p))
    [] p.op = "append"                                     -> Append(ls, p.content)
    [] p.op = "find_replace" /\ p.find # Absent /\ Positions(p.find, Joined(ls)) # {} ->
         Lines(ReplacedFirst(p.find, p.with, Joined(ls)))
    [] OTHER -> Rejected

Patched(p, t) ==
  IF t = <<>> \/ EditedLines(p, Lines(t)) = Rejected THEN Rejected
  ELSE Rejoined(EditedLines(p, Lines(t)))
-----------------------------------------------------------------------------
(* safeParamInt between 1 and the number of lines: stoi throws on what is  *)
(* no number and on a number that is no int, and the default is taken.     *)
Param(p, default, most) ==
  IF p \in {Absent, Junk} \/ p \notin IntRange THEN default
  ELSE IF p < 1 THEN 1 ELSE IF p > most THEN most ELSE p

RangeParam == LineNumber \cup {Absent, Junk}

(* The lines from the first one asked for to the i-th, each with a newline. *)
Listed(ls, first) ==
  LET listed[i \in 0 .. Len(ls)] ==
        IF i < first THEN <<>> ELSE listed[i - 1] \o ls[i] \o <<NL>>
  IN  listed

(* GET with from or to; an empty file is answered 404 before. *)
RangeRead(t, from, to) ==
  LET ls == Lines(t)
      first == Param(from, 1, Len(ls))
      last == Param(to, Len(ls), Len(ls))
  IN  Listed(ls, first)[last]
-----------------------------------------------------------------------------
Init == text = <<>>

(* PUT of any text. *)
Put == text' \in Text(MaxContent + 1)

(* A faulty variant: a patch that does not apply is written back all the same. *)
ApplyUnchecked(p) ==
  /\ Patched(p, text) = Rejected \/ Len(Patched(p, text)) <= MaxText
  /\ text' = Patched(p, text)

(* PATCH; a refused one changes nothing. *)
Apply(p) ==
  /\ Patched(p, text) # Rejected
  /\ Len(Patched(p, text)) <= MaxText
  /\ text' = Patched(p, text)

Next == Put \/ \E p \in PatchBody : Apply(p)

Spec == Init /\ [][Next]_text
-----------------------------------------------------------------------------
TypeOK == text \in Seq(Symbol) /\ Len(text) <= MaxText

(* What the code should do, said without it: a text cut at every newline,  *)
(* a text without its final newline, and one that surely has it.           *)
Cuts(t) == {0, Len(t) + 1} \cup {i \in 1 .. Len(t) : t[i] = NL}

Pieces(t) ==
  LET cut(k) == CHOOSE i \in Cuts(t) : Cardinality({j \in Cuts(t) : j < i}) = k - 1 IN
  [k \in 1 .. Cardinality(Cuts(t)) - 1 |-> SubSeq(t, cut(k) + 1, cut(k + 1) - 1)]

Ended(t) == t # <<>> /\ Last(t) = NL

Chopped(t) == IF Ended(t) THEN Front(t) ELSE t

Terminated(t) == IF Ended(t) THEN t ELSE Append(t, NL)

(* README.md:142-145: line N, counted in the file without its final        *)
(* newline, is replaced, deleted or followed by the new lines, and no      *)
(* other line changes, wherever the new text has newlines of its own.  The *)
(* number has to be an int.  The only line cannot be deleted: an empty one *)
(* stays.                                                                  *)
OtherLinesKept ==
  text # <<>> =>
    LET old == Pieces(Chopped(text)) IN
    \A p \in PatchBody :
      LET n == IF "line" \notin DOMAIN p \/ p.line = Absent THEN 0 ELSE p.line
          spliced(before, new, after) ==
            LET all == SubSeq(old, 1, before) \o new \o SubSeq(old, after, Len(old))
            IN  /\ Patched(p, text) # Rejected
                /\ Pieces(Chopped(Patched(p, text))) = IF all = <<>> THEN << <<>> >> ELSE all
      IN  n \in IntRange =>
            /\ p.op = "replace_line" /\ n \in 1 .. Len(old) => spliced(n - 1, Pieces(p.content), n + 1)
            /\ p.op = "insert_line" /\ n \in 0 .. Len(old) => spliced(n, Pieces(p.content), n + 1)
            /\ p.op = "delete_line" /\ n \in 1 .. Len(old) => spliced(n - 1, <<>>, n + 1)
            /\ p.op = "append" => spliced(Len(old), Pieces(p.content), Len(old) + 1)

(* find_replace cuts the text into lines, joins it, replaces and cuts it   *)
(* again; all of that amounts to replacing the first occurrence in the text*)
(* without its final newline, and nothing else of the text changes.        *)
FirstOccurrenceReplaced ==
  text # <<>> =>
    \A p \in PatchBody :
      p.op = "find_replace" /\ p.find # Absent =>
        LET body == Chopped(text)
            at == Positions(p.find, body)
        IN  Patched(p, text) =
              IF at = {} THEN Rejected
              ELSE Terminated(SubSeq(body, 1, Min(at)) \o p.with
                                \o SubSeq(body, Min(at) + Len(p.find) + 1, Len(body)))

(* A patched file never has zero bytes, which the routes could not tell    *)
(* from an absent one, and a patch that comes after it finds lines: what   *)
(* StoreAssumption says of Edit.                                           *)
PatchedStaysReadable ==
  \A p \in PatchBody :
    Patched(p, text) # Rejected =>
      /\ Patched(p, text) # <<>> /\ Lines(Patched(p, text)) # <<>>
      /\ Ended(Patched(p, text))

(* A client that inserts a line and deletes it again has its file back, up *)
(* to the final newline: line numbers mean the same to both operations.    *)
InsertThenDeleteRestores ==
  text # <<>> =>
    \A n \in 0 .. Len(Lines(text)), c \in Letter :
      LET grown == Patched([op |-> "insert_line", line |-> n, content |-> <<c>>], text) IN
      /\ grown # Rejected
      /\ Patched([op |-> "delete_line", line |-> n + 1, content |-> <<>>], grown) = Terminated(text)

(* The pages a client reads, lines 1 to k and k + 1 to the last, make the  *)
(* whole file up to its final newline; and a line PATCH can replace is the *)
(* line the range read shows under that number.                            *)
PagesMakeTheFile ==
  text # <<>> =>
    LET total == Len(Lines(text)) IN
    /\ \A k \in 1 .. total - 1 :
         RangeRead(text, 1, k) \o RangeRead(text, k + 1, Absent) = Terminated(text)
    /\ \A n \in 1 .. total, c \in Letter :
         RangeRead(Patched([op |-> "replace_line", line |-> n, content |-> <<c>>], text), n, n)
           = <<c, NL>>
=============================================================================
