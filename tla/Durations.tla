------------------------------- MODULE Durations -------------------------------
(***************************************************************************)
(* crowdsec-client/src/duration.ts, and parseExpiration() of utils.ts: how *)
(* a duration asked for becomes the Go duration that the LAPI is sent, and *)
(* how a Go duration becomes the end of a decision.                        *)
(*                                                                         *)
(* A text is a sequence of parts, [tenths, unit]: "1.5h30m" is             *)
(* <<[tenths |-> 15, unit |-> "h"], [tenths |-> 300, unit |-> "m"]>>.      *)
(* A part of unit "?" stands for anything that is not a number before a    *)
(* unit.  Durations are counted in tenths of a second.                     *)
(***************************************************************************)
EXTENDS Integers, Sequences

CONSTANTS
  Invalid,   \* an exception
  MaxGo      \* the longest duration of Go (2^63 - 1 nanoseconds)

\* It has seven digits of hours.
ASSUME GoAssumption == MaxGo \in Nat /\ MaxGo \div 36000 < 100000000

PartOf(tenths, unit) == [tenths |-> tenths, unit |-> unit]

\* UNIT_SECONDS, with the days that only the first part may count.
SecondsOf == [d |-> 86400, h |-> 3600, m |-> 60, s |-> 1]

Units == DOMAIN SecondsOf

Total(text) ==
  LET sum[n \in 0..Len(text)] ==
        IF n = 0 THEN 0 ELSE sum[n - 1] + text[n].tenths * SecondsOf[text[n].unit]
  IN  sum[Len(text)]

\* readNumber() and parseGoDuration(): any parts in any order, at least one.
IsGoText(text) == text # <<>> /\ \A i \in DOMAIN text : text[i].unit \in {"h", "m", "s"}

\* parseDuration(): days come first, as a whole number; nothing is no duration.
ParseDuration(text) ==
  LET days == text # <<>> /\ text[1].unit = "d"
      rest == IF days THEN Tail(text) ELSE text
      fits == /\ days => text[1].tenths % 10 = 0
              /\ IsGoText(rest) \/ (days /\ rest = <<>>)
  IN  IF fits /\ Total(text) > 0 THEN Total(text) ELSE Invalid

\* Mutant of ToGoDuration: minutes are not taken modulo an hour.
ToGoDurationUnwrapped(total) ==
  LET hours == total \div 36000
      minutes == total \div 600
      seconds == total % 600
  IN  (IF hours > 0 THEN <<PartOf(hours * 10, "h")>> ELSE <<>>)
      \o (IF minutes > 0 THEN <<PartOf(minutes * 10, "m")>> ELSE <<>>)
      \o (IF seconds > 0 \/ total < 600 THEN <<PartOf(seconds, "s")>> ELSE <<>>)

\* toGoDuration() of a number of tenths; parts that are zero are left out.
ToGoDuration(total) ==
  LET hours == total \div 36000
      minutes == (total % 36000) \div 600
      seconds == total % 600
  IN  (IF hours > 0 THEN <<PartOf(hours * 10, "h")>> ELSE <<>>)
      \o (IF minutes > 0 THEN <<PartOf(minutes * 10, "m")>> ELSE <<>>)
      \o (IF seconds > 0 \/ total < 600 THEN <<PartOf(seconds, "s")>> ELSE <<>>)

\* time.ParseDuration and Duration.String() of the LAPI: the sum, if it fits, and
\* all parts from the largest that is not zero on.
GoParse(text) == IF Total(text) <= MaxGo THEN Total(text) ELSE Invalid

GoString(total) ==
  LET hours == total \div 36000
      minutes == (total % 36000) \div 600
  IN  (IF hours > 0 THEN <<PartOf(hours * 10, "h")>> ELSE <<>>)
      \o (IF hours > 0 \/ minutes > 0 THEN <<PartOf(minutes * 10, "m")>> ELSE <<>>)
      \o <<PartOf(total % 600, "s")>>

\* parseExpiration(): a pattern of optional hours (to eight digits), minutes
\* and seconds (to two), whole but for the seconds.  It is not anchored at its
\* end: what comes after the match is left out, and no match is an exception.
Rank(unit) == IF unit = "h" THEN 1 ELSE IF unit = "m" THEN 2 ELSE IF unit = "s" THEN 3 ELSE 0

Matches(p) ==
  /\ Rank(p.unit) > 0
  /\ p.tenths \div 10 < (IF p.unit = "h" THEN 100000000 ELSE 100)
  /\ p.unit = "s" \/ p.tenths % 10 = 0

ParseExpiration(text) ==
  LET matched == {n \in 1..Len(text) :
                    /\ \A i \in 1..n : Matches(text[i])
                    /\ \A i \in 1..(n - 1) : Rank(text[i].unit) < Rank(text[i + 1].unit)}
  IN  IF matched = {} THEN Invalid
      ELSE Total(SubSeq(text, 1, CHOOSE n \in matched : \A m \in matched : m <= n))
=============================================================================
