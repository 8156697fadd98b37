----------------------------- MODULE CommandTag -----------------------------
(***************************************************************************)
(* CommandTag.RowsAffected (src/conn.go 82-86): the count a caller reads   *)
(* from the CommandComplete tag Exec returns.  A tag is a sequence of      *)
(* characters; the letters of a command word are abstracted to one "L",   *)
(* since ParseInt rejects a word with any letter alike.  strconv.ParseInt  *)
(* with bitSize 64 is modelled at Width bits, clamping as it does.         *)
(* The state is one input: a command and its count, as the server formats *)
(* it.                                                                      *)
(***************************************************************************)
EXTENDS Integers, Sequences, SequencesExt

CONSTANTS Width,     \* ParseInt's bitSize (64 in the code)
          MaxCount   \* the largest count the server reports

ASSUME Width \in 2..16 /\ MaxCount \in Nat

\* Server completion tags: "INSERT 0 n", "UPDATE n", "SELECT n", "CREATE TABLE".
CountedCommands == {"INSERT", "UPDATE", "SELECT"}
Commands == CountedCommands \cup {"CREATE TABLE"}

VARIABLES cmd, n
vars == <<cmd, n>>

Init == cmd \in Commands /\ n \in 0..MaxCount
\* Each behaviour checks one input.
Next == UNCHANGED vars
Spec == Init /\ [][Next]_vars

\* The characters "0" .. "9", and the value of each.
DigitChars == <<"0", "1", "2", "3", "4", "5", "6", "7", "8", "9">>
Digits == ToSet(DigitChars)
DigitValue(ch) == SelectInSeq(DigitChars, LAMBDA x : x = ch) - 1

\* The decimal digits of k, as the server prints them.
RECURSIVE Decimal(_)
Decimal(k) ==
    IF k < 10 THEN <<DigitChars[k + 1]>>
    ELSE Decimal(k \div 10) \o <<DigitChars[(k % 10) + 1]>>

\* The tag the server sends for command c with count k.
Tag(c, k) ==
    CASE c = "INSERT"       -> <<"L", " ", "0", " ">> \o Decimal(k)
      [] c = "CREATE TABLE" -> <<"L", " ", "L">>
      [] OTHER              -> <<"L", " ">> \o Decimal(k)

\* strings.Split(s, " "): the words between single spaces, empty ones kept.
RECURSIVE Split(_)
Split(s) ==
    LET i == SelectInSeq(s, LAMBDA ch : ch = " ")
    IN IF i = 0 THEN <<s>>
       ELSE <<SubSeq(s, 1, i - 1)>> \o Split(SubSeq(s, i + 1, Len(s)))

(* strconv.ParseInt(w, 10, Width) with its error ignored: an optional sign,
   then one or more decimal digits; a syntax error gives 0, a value out of
   range gives the nearest bound. *)
ParseInt(w) ==
    LET neg    == w # <<>> /\ Head(w) = "-"
        body   == IF w # <<>> /\ Head(w) \in {"+", "-"} THEN Tail(w) ELSE w
        cutoff == 2^(Width - 1)
        un     == FoldLeft(LAMBDA acc, d : acc * 10 + DigitValue(d), 0, body)
    IN CASE body = <<>> \/ \E i \in DOMAIN body : body[i] \notin Digits -> 0
         [] ~neg /\ un >= cutoff -> cutoff - 1
         [] neg /\ un > cutoff   -> -cutoff
         [] neg                  -> -un
         [] OTHER                -> un

\* Mutant: the count is taken from the second word.
RowsAffectedSecondWord(ct) == ParseInt(Split(ct)[2])

\* RowsAffected: the last space-separated word, parsed.
RowsAffected(ct) == ParseInt(Last(Split(ct)))

(* spec.md 2 and 10: RowsAffected of a row-affecting command is the count
   the server reported ("INSERT 0 3" gives 3), and 0 for any other command
   ("CREATE TABLE"), for every count up to the largest ParseInt returns
   unclamped. *)
RowsAffectedIsCount ==
    RowsAffected(Tag(cmd, n)) = IF cmd \in CountedCommands THEN n ELSE 0
=============================================================================
