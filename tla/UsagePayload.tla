---------------------------- MODULE UsagePayload ----------------------------
(***************************************************************************)
(* What a usage answer of the upstream becomes: internal/quota/parse.go,   *)
(* and refreshOwner of internal/quota/service.go for the credit detail.    *)
(*                                                                         *)
(* A field of a payload is a whole number, Absent, or Malformed.  used and *)
(* remaining are in hundredths, so that a fraction is a whole number too:  *)
(* 30 is 0.3, 3000 is 30.                                                  *)
(***************************************************************************)
EXTENDS Integers, Sequences, FiniteSets

Absent == -1
Malformed == -2
Invalid == <<>>

Field == Nat \cup {Absent, Malformed}
Window == [name : STRING, seconds : Field, minutes : Field, used : Field, remaining : Field,
           resetAt : Nat]
CreditInfo ==
  [available : Field, applicable : Field, listed : BOOLEAN,
   credits : Seq([type : STRING, status : STRING, expires : Nat])]
UsageAnswer == [windows : Seq(Window), limited : BOOLEAN, credits : CreditInfo]

-----------------------------------------------------------------------------
\* Windows.

\* A number between 0 and 1 is a fraction, one up to 100 a percentage; in
\* hundredths of a percent, or Malformed.
Percent(n) ==
  LET p == IF 0 <= n /\ n <= 100 THEN n * 100 ELSE n
  IN IF 0 <= p /\ p <= 10000 THEN p ELSE Malformed

\* usagePercent: used, or what is not remaining.
UsagePercent(w) ==
  IF w.used # Absent THEN Percent(w.used)
  ELSE IF w.remaining = Absent THEN Absent
  ELSE IF Percent(w.remaining) = Malformed THEN Malformed
  ELSE 10000 - Percent(w.remaining)

\* The window's length: its own, or the customary one of a named window.
Seconds(w) ==
  IF w.seconds \notin {Absent, Malformed} THEN w.seconds
  ELSE IF w.minutes > 0 THEN w.minutes * 60
  ELSE IF w.name = "primary" THEN 300 * 60
  ELSE IF w.name = "secondary" THEN 10080 * 60
  ELSE Absent

\* parseWindow: an exhausted account's window may leave its usage out.
Used(w, limited) ==
  IF UsagePercent(w) = Absent /\ limited /\ w.resetAt > 0 THEN 10000 ELSE UsagePercent(w)

Max1(n) == IF n < 1 THEN 1 ELSE n

ParseWindow(w, limited) ==
  [minutes |-> Max1((Seconds(w) + 30) \div 60),
   remaining |-> (10000 - Used(w, limited) + 50) \div 100,
   resetAt |-> w.resetAt, seconds |-> Seconds(w)]

Parses(w, limited) == Seconds(w) > 0 /\ Used(w, limited) >= 0

\* Mutant: the longest window comes first.
LongerFirst(ws, i, j) ==
  Seconds(ws[i]) > Seconds(ws[j]) \/ (Seconds(ws[i]) = Seconds(ws[j]) /\ i < j)

ShorterFirst(ws, i, j) ==
  Seconds(ws[i]) < Seconds(ws[j]) \/ (Seconds(ws[i]) = Seconds(ws[j]) /\ i < j)

\* The window at the k-th place.
Placed(ws, k) ==
  CHOOSE i \in DOMAIN ws : Cardinality({j \in DOMAIN ws : ShorterFirst(ws, j, i)}) = k - 1

\* ParseUsage: all windows or none; the shortest, the earlier one of equals,
\* comes first and is the short one.
ParseUsage(payload) ==
  LET ws == payload.windows
  IN IF ws = <<>> \/ \E i \in DOMAIN ws : ~Parses(ws[i], payload.limited) THEN Invalid
     ELSE [k \in DOMAIN ws |->
             LET w == ParseWindow(ws[Placed(ws, k)], payload.limited)
             IN [minutes |-> w.minutes, remaining |-> w.remaining, resetAt |-> w.resetAt,
                 short |-> k = 1]]

-----------------------------------------------------------------------------
\* Reset credits: counts and a list, each of which may be left out; one that is
\* malformed spoils the whole.  A credit has a type, a status ("" when left
\* out) and an expiry (0 when it has no good one).

ValidCredits(c) ==
  /\ c.available # Malformed /\ c.applicable # Malformed
  /\ c.listed => \A i \in DOMAIN c.credits : c.credits[i].expires > 0
  /\ c.listed \/ c.available # Absent \/ c.applicable # Absent

Redeemable(credit) ==
  credit.type \in {"", "codex_rate_limits"} /\ credit.status \in {"", "available"}

\* parseCredits: which of the listed credits count.
Credits(c) == IF c.listed THEN {i \in DOMAIN c.credits : Redeemable(c.credits[i])} ELSE {}

\* resetApplicableCount.
ApplicableCount(c) ==
  IF c.applicable # Absent THEN c.applicable
  ELSE IF c.available # Absent THEN c.available
  ELSE IF Credits(c) # {} THEN Cardinality(Credits(c))
  ELSE Absent

\* refreshOwner: the count of the usage answer, which authorizes nothing, or
\* that of the detail, which makes the snapshot complete.
ParseSnapshot(payload, detail) ==
  LET embedded == IF ValidCredits(payload.credits) THEN ApplicableCount(payload.credits) ELSE Absent
  IN [windows |-> ParseUsage(payload),
      complete |-> ValidCredits(detail),
      count |-> IF ~ValidCredits(detail) THEN embedded
                ELSE IF ApplicableCount(detail) # Absent THEN ApplicableCount(detail)
                ELSE IF detail.listed THEN 0 ELSE embedded]

=============================================================================
